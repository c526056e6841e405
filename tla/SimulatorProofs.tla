-------------------------- MODULE SimulatorProofs ---------------------------
(***************************************************************************)
(* Proofs about mp5, for queues of any length, any number of cores, any    *)
(* set of jobs, any input file, scheme and quantum.                        *)
(*                                                                         *)
(* 1. libpriqueue and libscheduler under any legal caller.  No bound is    *)
(*    used: MaxTime limits Tick only.                                      *)
(* 2. The simulator, which drives the library.  The two keep views of who  *)
(*    runs where and of how much is left of each job.  They agree; so      *)
(*    every call is legal, what part 1 says holds inside the simulator,    *)
(*    and main() never gives up on an answer.                              *)
(* 3. What the library writes in the records of the jobs is what the       *)
(*    timing diagram shows.                                                *)
(***************************************************************************)
EXTENDS Simulator, FiniteSetTheorems, FoldProofs

(***************************************************************************)
(* What the queue operations do to the elements of a queue and to its      *)
(* order, for any set of stops.                                            *)
(***************************************************************************)

\* Derived from the well-foundedness of strict inclusion, on the intervals 1..i.
LEMMA SmallestExists ==
  ASSUME NEW n \in Nat, NEW T \in SUBSET (1..n), T # {}
  PROVE  \E i \in T : \A k \in T : i <= k
<1> DEFINE U == {1..i : i \in T}
<1>1. U \subseteq FiniteSubsetsOf(1..n) /\ U # {}
  <2>1. \A i \in T : 1..i \subseteq 1..n /\ IsFiniteSet(1..i)
    BY FS_Interval
  <2> QED BY <2>1 DEF FiniteSubsetsOf
<1>2. PICK x \in U : \A y \in U : ~ (<< y, x >> \in StrictSubsetOrdering(1..n))
  BY <1>1, FS_StrictSubsetOrderingWellFounded, WFMin
<1>3. PICK i \in T : x = 1..i
  OBVIOUS
<1>4. ASSUME NEW k \in T, k < i  PROVE FALSE
  <2>1. 1..k \in U /\ 1..k \subseteq 1..i /\ 1..k # 1..i
    BY <1>4
  <2>2. 1..k \in SUBSET (1..n) /\ 1..i \in SUBSET (1..n)
    OBVIOUS
  <2> HIDE DEF U
  <2>3. << 1..k, 1..i >> \in StrictSubsetOrdering(1..n)
    <3> DEFINE a == 1..k
               b == 1..i
               N == 1..n
    <3>1. a \in SUBSET N /\ b \in SUBSET N /\ a \subseteq b /\ a # b
      BY <2>1, <2>2
    <3> HIDE DEF a, b, N
    <3>2. << a, b >> \in StrictSubsetOrdering(N)
      BY <3>1 DEF StrictSubsetOrdering
    <3> QED BY <3>2 DEF a, b, N
  <2> QED BY <1>2, <1>3, <2>1, <2>3
<1> QED BY <1>4

LEMMA OfferPositionIsFirstStop ==
  ASSUME NEW S, NEW q \in Seq(S), NEW stops \in SUBSET (DOMAIN q)
  PROVE  /\ OfferPosition(q, stops) \in 1..(Len(q) + 1)
         /\ \A k \in stops : OfferPosition(q, stops) <= k
         /\ OfferPosition(q, stops) # Len(q) + 1 => OfferPosition(q, stops) \in stops
<1>1. CASE stops = {}
  BY <1>1 DEF OfferPosition
<1>2. CASE stops # {}
  <2>1. stops \subseteq Nat /\ stops \subseteq 1..Len(q)
    OBVIOUS
  <2>2. \E i \in stops : \A k \in stops : i <= k
    <3>1. Len(q) \in Nat /\ stops \in SUBSET (1..Len(q))
      BY <2>1
    <3> QED BY <1>2, <3>1, SmallestExists
  <2> QED
    BY <1>2, <2>1, <2>2 DEF OfferPosition
<1> QED
  BY <1>1, <1>2

\* The elements of the queue after priqueue_offer, one by one and as a set.
LEMMA OfferElements ==
  ASSUME NEW S, NEW q \in Seq(S), NEW x \in S, NEW stops \in SUBSET (DOMAIN q)
  PROVE  LET p == OfferPosition(q, stops)
             r == priqueue_offer(q, x, stops)
         IN  /\ r \in Seq(S) /\ Len(r) = Len(q) + 1 /\ DOMAIN r = 1..(Len(q) + 1)
             /\ \A k \in 1..(Len(q) + 1) :
                  r[k] = IF k < p THEN q[k] ELSE IF k = p THEN x ELSE q[k - 1]
             /\ ToSet(r) = ToSet(q) \cup {x}
             /\ IsInjective(q) /\ x \notin ToSet(q) => IsInjective(r)
<1> DEFINE p == OfferPosition(q, stops)
           r == priqueue_offer(q, x, stops)
<1>1. p \in 1..(Len(q) + 1)
  BY OfferPositionIsFirstStop
<1> HIDE DEF p
<1>2. r = InsertAt(q, p, x)
  BY DEF priqueue_offer, p, InsertAt
<1> HIDE DEF r
<1>3. /\ r \in Seq(S) /\ Len(r) = Len(q) + 1 /\ DOMAIN r = 1..(Len(q) + 1)
      /\ \A k \in 1..(Len(q) + 1) :
           r[k] = IF k < p THEN q[k] ELSE IF k = p THEN x ELSE q[k - 1]
  <2>1. /\ InsertAt(q, p, x) \in Seq(S) /\ Len(InsertAt(q, p, x)) = Len(q) + 1
        /\ DOMAIN InsertAt(q, p, x) = 1..(Len(q) + 1)
        /\ \A k \in 1..(Len(q) + 1) :
             InsertAt(q, p, x)[k] = IF k < p THEN q[k] ELSE IF k = p THEN x ELSE q[k - 1]
    BY <1>1, InsertAtElements
  <2> QED BY <1>2, <2>1
<1>len. Len(q) \in Nat /\ DOMAIN q = 1..Len(q)
  OBVIOUS
\* Where each element of r comes from, and where each element of q goes.
<1>from. \A k \in DOMAIN r : \/ k = p /\ r[k] = x
                             \/ k < p /\ k \in DOMAIN q /\ r[k] = q[k]
                             \/ k > p /\ k - 1 \in DOMAIN q /\ r[k] = q[k - 1]
  BY <1>1, <1>3, <1>len
<1>to. \A k \in DOMAIN q : \/ k < p /\ k \in DOMAIN r /\ r[k] = q[k]
                           \/ k >= p /\ k + 1 \in DOMAIN r /\ r[k + 1] = q[k]
  BY <1>1, <1>3, <1>len
<1>at. p \in DOMAIN r /\ r[p] = x
  BY <1>1, <1>3
<1>4. ToSet(r) = ToSet(q) \cup {x}
  <2>1. ASSUME NEW y \in ToSet(r)  PROVE y \in ToSet(q) \cup {x}
    <3>1. PICK k \in DOMAIN r : y = r[k]
      BY <2>1 DEF ToSet
    <3> QED BY <1>from, <3>1 DEF ToSet
  <2>2. x \in ToSet(r)
    BY <1>at DEF ToSet
  <2>3. ASSUME NEW y \in ToSet(q)  PROVE y \in ToSet(r)
    <3>1. PICK k \in DOMAIN q : y = q[k]
      BY <2>3 DEF ToSet
    <3> QED BY <1>to, <3>1 DEF ToSet
  <2> QED BY <2>1, <2>2, <2>3
<1>5. ASSUME IsInjective(q), x \notin ToSet(q)  PROVE IsInjective(r)
  <2>1. \A k \in DOMAIN q : q[k] # x
    BY <1>5 DEF ToSet
  <2>2. \A i, k \in DOMAIN q : q[i] = q[k] => i = k
    BY <1>5 DEF IsInjective
  <2>3. ASSUME NEW i \in DOMAIN r, NEW k \in DOMAIN r, r[i] = r[k]  PROVE i = k
    <3>1. i \in Int /\ k \in Int /\ p \in Int
      BY <1>1, <1>3
    <3>2. CASE i = p \/ k = p
      BY <1>from, <2>1, <2>3, <3>1, <3>2
    <3>3. CASE i < p /\ k < p
      BY <1>from, <2>2, <2>3, <3>1, <3>3
    <3>4. CASE i > p /\ k > p
      <4>1. i - 1 \in DOMAIN q /\ k - 1 \in DOMAIN q /\ q[i - 1] = q[k - 1]
        BY <1>from, <2>3, <3>1, <3>4
      <4>2. i - 1 = k - 1
        BY <2>2, <4>1
      <4> QED BY <3>1, <4>2
    <3>5. CASE i < p /\ k > p
      <4>1. i \in DOMAIN q /\ k - 1 \in DOMAIN q /\ q[i] = q[k - 1]
        BY <1>from, <2>3, <3>1, <3>5
      <4>2. i = k - 1
        BY <2>2, <4>1
      <4> QED BY <3>1, <3>5, <4>2
    <3>6. CASE i > p /\ k < p
      <4>1. i - 1 \in DOMAIN q /\ k \in DOMAIN q /\ q[i - 1] = q[k]
        BY <1>from, <2>3, <3>1, <3>6
      <4>2. i - 1 = k
        BY <2>2, <4>1
      <4> QED BY <3>1, <3>6, <4>2
    <3> QED BY <3>1, <3>2, <3>3, <3>4, <3>5, <3>6
  <2> QED BY <2>3 DEF IsInjective
<1> QED BY <1>3, <1>4, <1>5 DEF p, r

\* What priqueue_poll takes from a non-empty queue and what it leaves.
LEMMA PollElements ==
  ASSUME NEW S, NEW q \in Seq(S), NEW null, q # << >>
  PROVE  /\ priqueue_peek(q, null) = q[1] /\ q[1] \in S /\ 1 \in DOMAIN q
         /\ priqueue_poll(q) \in Seq(S)
         /\ DOMAIN priqueue_poll(q) = 1..(Len(q) - 1)
         /\ \A k \in 1..(Len(q) - 1) : priqueue_poll(q)[k] = q[k + 1]
         /\ ToSet(q) = ToSet(priqueue_poll(q)) \cup {q[1]}
         /\ IsInjective(q) => /\ q[1] \notin ToSet(priqueue_poll(q))
                             /\ IsInjective(priqueue_poll(q))
<1> DEFINE r == priqueue_poll(q)
<1>1. /\ r = Tail(q) /\ priqueue_peek(q, null) = q[1] /\ q[1] \in S
      /\ Len(q) \in Nat /\ Len(q) # 0 /\ DOMAIN q = 1..Len(q)
  BY DEF priqueue_poll, priqueue_peek
<1>2. /\ r \in Seq(S) /\ DOMAIN r = 1..(Len(q) - 1)
      /\ \A k \in 1..(Len(q) - 1) : r[k] = q[k + 1]
  BY <1>1
<1> HIDE DEF r
<1>3. ToSet(q) = ToSet(r) \cup {q[1]}
  <2>1. \A k \in 1..Len(q) : k = 1 \/ (k - 1 \in DOMAIN r /\ q[k] = r[k - 1])
    BY <1>1, <1>2
  <2>2. \A k \in DOMAIN r : k + 1 \in DOMAIN q /\ r[k] = q[k + 1]
    BY <1>1, <1>2
  <2>3. ASSUME NEW y \in ToSet(q)  PROVE y \in ToSet(r) \cup {q[1]}
    <3>1. PICK k \in 1..Len(q) : y = q[k]
      BY <1>1, <2>3 DEF ToSet
    <3> QED BY <2>1, <3>1 DEF ToSet
  <2>4. ASSUME NEW y \in ToSet(r)  PROVE y \in ToSet(q)
    <3>1. PICK k \in DOMAIN r : y = r[k]
      BY <2>4 DEF ToSet
    <3> QED BY <2>2, <3>1 DEF ToSet
  <2>5. q[1] \in ToSet(q)
    BY <1>1 DEF ToSet
  <2> QED BY <2>3, <2>4, <2>5
<1>4. ASSUME IsInjective(q)  PROVE q[1] \notin ToSet(r) /\ IsInjective(r)
  <2>1. \A i, k \in 1..Len(q) : q[i] = q[k] => i = k
    BY <1>1, <1>4 DEF IsInjective
  <2>2. \A k \in DOMAIN r : k + 1 \in 1..Len(q) /\ r[k] = q[k + 1] /\ k + 1 # 1
    BY <1>1, <1>2
  <2>3. IsInjective(r)
    BY <1>1, <1>2, <2>1, <2>2 DEF IsInjective
  <2> QED BY <1>1, <2>1, <2>2, <2>3 DEF ToSet
<1> QED BY <1>1, <1>2, <1>3, <1>4 DEF r

(* An offer keeps a queue ordered by R, if the stops are the elements that *)
(* the new one precedes and if it follows all the others.                  *)
LEMMA OfferKeepsOrder ==
  ASSUME NEW S, NEW R, NEW q \in Seq(S), NEW x \in S,
         \A i, k \in DOMAIN q : i < k => << q[i], q[k] >> \in R,
         \A a, b, c \in S : << a, b >> \in R /\ << b, c >> \in R => << a, c >> \in R,
         NEW stops \in SUBSET (DOMAIN q),
         \A i \in stops : << x, q[i] >> \in R,
         \A i \in DOMAIN q \ stops : << q[i], x >> \in R
  PROVE  LET r == priqueue_offer(q, x, stops) IN
         \A i, k \in DOMAIN r : i < k => << r[i], r[k] >> \in R
<1> DEFINE p == OfferPosition(q, stops)
           r == priqueue_offer(q, x, stops)
<1>1. /\ p \in 1..(Len(q) + 1)
      /\ \A k \in stops : p <= k
      /\ p # Len(q) + 1 => p \in stops
  BY OfferPositionIsFirstStop
<1>2. /\ DOMAIN r = 1..(Len(q) + 1)
      /\ \A k \in 1..(Len(q) + 1) :
           r[k] = IF k < p THEN q[k] ELSE IF k = p THEN x ELSE q[k - 1]
  BY OfferElements
<1> HIDE DEF p, r
<1>3. \A i \in 1..Len(q) : i < p => << q[i], x >> \in R
  <2> SUFFICES ASSUME NEW i \in 1..Len(q), i < p  PROVE << q[i], x >> \in R
    OBVIOUS
  <2>1. i \in DOMAIN q /\ i \in Int /\ p \in Int
    BY <1>1
  <2>2. i \notin stops
    BY <1>1, <2>1
  <2> QED BY <2>1, <2>2
<1>4. \A k \in 1..Len(q) : k >= p => << x, q[k] >> \in R
  <2> SUFFICES ASSUME NEW k \in 1..Len(q), k >= p  PROVE << x, q[k] >> \in R
    OBVIOUS
  <2>1. p \in stops /\ p \in 1..Len(q) /\ << x, q[p] >> \in R
    BY <1>1
  <2>2. CASE k = p
    BY <2>1, <2>2
  <2>3. CASE k > p
    <3>1. << q[p], q[k] >> \in R /\ q[p] \in S /\ q[k] \in S
      BY <2>1, <2>3
    <3> QED BY <2>1, <3>1
  <2> QED BY <1>1, <2>2, <2>3
<1>5. ASSUME NEW i \in DOMAIN r, NEW k \in DOMAIN r, i < k
      PROVE  << r[i], r[k] >> \in R
  <2>0. i \in 1..(Len(q) + 1) /\ k \in 1..(Len(q) + 1) /\ i < k
    BY <1>2, <1>5
  <2>1. CASE k < p
    BY <1>1, <1>2, <2>0, <2>1
  <2>2. CASE k = p
    <3>1. i \in 1..Len(q) /\ i < p /\ r[i] = q[i] /\ r[k] = x
      BY <1>1, <1>2, <2>0, <2>2
    <3> QED BY <1>3, <3>1
  <2>3. CASE k > p /\ i = p
    <3>1. k - 1 \in 1..Len(q) /\ k - 1 >= p /\ r[i] = x /\ r[k] = q[k - 1]
      BY <1>1, <1>2, <2>0, <2>3
    <3> QED BY <1>4, <3>1
  <2>4. CASE k > p /\ i < p
    <3>1. /\ i \in DOMAIN q /\ k - 1 \in DOMAIN q /\ i < k - 1
          /\ r[i] = q[i] /\ r[k] = q[k - 1]
      BY <1>1, <1>2, <2>0, <2>4
    <3> QED BY <3>1
  <2>5. CASE k > p /\ i > p
    <3>1. /\ i - 1 \in DOMAIN q /\ k - 1 \in DOMAIN q /\ i - 1 < k - 1
          /\ r[i] = q[i - 1] /\ r[k] = q[k - 1]
      BY <1>1, <1>2, <2>0, <2>5
    <3> QED BY <3>1
  <2> QED BY <1>1, <2>0, <2>1, <2>2, <2>3, <2>4, <2>5
<1> QED BY <1>5 DEF r
-----------------------------------------------------------------------------
(***************************************************************************)
(* The calls of libscheduler.                                              *)
(***************************************************************************)
\* What the constants' assumptions say of the values that stand for pointers.
LEMMA Pointers == /\ NoJob \notin JobNumbers
                  /\ Cores \subseteq Nat /\ Cores # {} /\ NoJob \notin Cores
<1>1. 0 \in Cores
  BY NumCoresAssumption DEF Cores
<1>2. \A c \in Cores : c \in Nat /\ c # NoJob
  BY NumCoresAssumption DEF Cores, NoJob
<1>3. NoJob \notin JobNumbers
  BY JobNumbersAssumption DEF NoJob
<1> QED BY <1>1, <1>2, <1>3

\* No job is on two cores.
OneCoreEach ==
  \A c, d \in Cores : core_arr[c] = core_arr[d] /\ core_arr[c] # NoJob => c = d

\* Kept closed where AssignCore is used: the provers would expand the functions.
CoresTyped == core_arr \in [Cores -> JobNumbers \cup {NoJob}]
Assign(c, n) == core_arr' = [core_arr EXCEPT ![c] = n]

\* What assigning core c does to the jobs on the cores.
LEMMA AssignCore ==
  ASSUME CoresTyped, OneCoreEach,
         NEW c \in Cores, NEW n \in JobNumbers \cup {NoJob},
         n \notin CoreJobs \/ n = core_arr[c],
         Assign(c, n)
  PROVE  /\ CoresTyped'
         /\ OneCoreEach'
         /\ CoreJobs' = (CoreJobs \ {core_arr[c]}) \cup ({n} \ {NoJob})
<1>1. /\ core_arr' \in [Cores -> JobNumbers \cup {NoJob}]
      /\ core_arr'[c] = n /\ \A d \in Cores \ {c} : core_arr'[d] = core_arr[d]
  BY DEF CoresTyped, Assign
<1>2. \A d \in Cores \ {c} : core_arr[d] = n => n = NoJob
  BY DEF OneCoreEach, CoreJobs
<1>3. OneCoreEach'
  BY <1>1, <1>2 DEF OneCoreEach
<1>4. CoreJobs' = (CoreJobs \ {core_arr[c]}) \cup ({n} \ {NoJob})
  <2>1. ASSUME NEW j \in CoreJobs'  PROVE j \in (CoreJobs \ {core_arr[c]}) \cup ({n} \ {NoJob})
    <3>1. PICK d \in Cores : j = core_arr'[d] /\ j # NoJob
      BY <2>1 DEF CoreJobs
    <3>2. CASE d = c
      BY <1>1, <3>1, <3>2
    <3>3. CASE d # c
      BY <1>1, <3>1, <3>3 DEF CoreJobs, OneCoreEach
    <3> QED BY <3>2, <3>3
  <2>2. ASSUME NEW j \in CoreJobs, j # core_arr[c]  PROVE j \in CoreJobs'
    BY <1>1, <2>2 DEF CoreJobs
  <2>3. ASSUME n # NoJob  PROVE n \in CoreJobs'
    BY <1>1, <2>3 DEF CoreJobs
  <2> QED BY <2>1, <2>2, <2>3
<1> QED BY <1>1, <1>3, <1>4 DEF CoresTyped

\* The same for the two things a core is given: a job, and nothing.
LEMMA AssignJob ==
  ASSUME CoresTyped, OneCoreEach, NEW c \in Cores, NEW j \in JobNumbers,
         j \notin CoreJobs \/ j = core_arr[c], Assign(c, j)
  PROVE  /\ CoresTyped' /\ OneCoreEach'
         /\ CoreJobs' = (CoreJobs \ {core_arr[c]}) \cup {j}
         /\ IdleCores' = IdleCores \ {c}
<1>1. j \in JobNumbers \cup {NoJob} /\ j # NoJob /\ {j} \ {NoJob} = {j}
  BY Pointers
<1>2. /\ CoresTyped' /\ OneCoreEach'
      /\ CoreJobs' = (CoreJobs \ {core_arr[c]}) \cup ({j} \ {NoJob})
  BY <1>1, AssignCore
<1>3. IdleCores' = IdleCores \ {c}
  BY <1>1 DEF IdleCores, Assign, CoresTyped
<1> QED BY <1>1, <1>2, <1>3

LEMMA AssignNone ==
  ASSUME CoresTyped, OneCoreEach, NEW c \in Cores, Assign(c, NoJob)
  PROVE  /\ CoresTyped' /\ OneCoreEach'
         /\ CoreJobs' = CoreJobs \ {core_arr[c]}
<1>1. NoJob \notin CoreJobs
  BY DEF CoreJobs
<1>2. /\ CoresTyped' /\ OneCoreEach'
      /\ CoreJobs' = (CoreJobs \ {core_arr[c]}) \cup ({NoJob} \ {NoJob})
  BY <1>1, AssignCore
<1> QED BY <1>2

LEMMA OfferToElements ==
  ASSUME NEW q \in Seq(JobNumbers), NEW j \in JobNumbers, NEW jt
  PROVE  /\ OfferTo(q, j, jt) \in Seq(JobNumbers)
         /\ Len(OfferTo(q, j, jt)) = Len(q) + 1
         /\ ToSet(OfferTo(q, j, jt)) = ToSet(q) \cup {j}
         /\ IsInjective(q) /\ j \notin ToSet(q) => IsInjective(OfferTo(q, j, jt))
<1> DEFINE stops == {i \in DOMAIN q : comp(jt[j], jt[q[i]]) <= 0}
<1>1. stops \in SUBSET (DOMAIN q)
  OBVIOUS
<1> HIDE DEF stops
<1>2. /\ priqueue_offer(q, j, stops) \in Seq(JobNumbers)
      /\ Len(priqueue_offer(q, j, stops)) = Len(q) + 1
      /\ ToSet(priqueue_offer(q, j, stops)) = ToSet(q) \cup {j}
      /\ IsInjective(q) /\ j \notin ToSet(q) => IsInjective(priqueue_offer(q, j, stops))
  BY <1>1, OfferElements
<1> QED BY <1>2 DEF OfferTo, stops

-----------------------------------------------------------------------------
\* The fields that a comparison function reads.
SameKeys(a, b) == /\ a.priority = b.priority
                  /\ a.remaining_time = b.remaining_time
                  /\ a.arrival_time = b.arrival_time

LEMMA NewJobRecord ==
  ASSUME NEW t \in Nat, NEW rt \in Nat \ {0}, NEW p \in Int
  PROVE  NewJob(t, rt, p) \in job_t /\ NewJob(t, rt, p).last_runtime = -1
  BY DEF NewJob, job_t

LEMMA ChargedRecord ==
  ASSUME NEW t \in Nat, NEW a \in job_t
  PROVE  LET r == Charged(a, t)
         IN  /\ r \in job_t /\ r.last_runtime = t
             /\ r.priority = a.priority /\ r.arrival_time = a.arrival_time
             /\ r.remaining_time = a.remaining_time - (t - a.last_runtime)
<1> DEFINE b == [a EXCEPT !.remaining_time = a.remaining_time - (t - a.last_runtime)]
<1>1. /\ b \in job_t /\ b.priority = a.priority /\ b.arrival_time = a.arrival_time
      /\ b.remaining_time = a.remaining_time - (t - a.last_runtime)
  BY DEF job_t
<1>2. Charged(a, t) = [b EXCEPT !.last_runtime = t]
  BY Zenon DEF Charged
<1> HIDE DEF b
<1>3. LET r == [b EXCEPT !.last_runtime = t]
      IN  /\ r \in job_t /\ SameKeys(r, b) /\ r.last_runtime = t
  BY <1>1 DEF job_t, SameKeys
<1> QED BY <1>1, <1>2, <1>3 DEF SameKeys

LEMMA StartedRecord ==
  ASSUME NEW t \in Nat, NEW a \in job_t
  PROVE  /\ Started(a, t) \in job_t /\ SameKeys(Started(a, t), a)
         /\ Started(a, t).last_runtime = t
<1> DEFINE b == [a EXCEPT !.first_runtime = t]
<1>1. b \in job_t /\ SameKeys(b, a)
  BY DEF job_t, SameKeys
<1>2. Started(a, t) = [b EXCEPT !.last_runtime = t]
  BY Zenon DEF Started
<1> HIDE DEF b
<1>3. LET r == [b EXCEPT !.last_runtime = t]
      IN  /\ r \in job_t /\ SameKeys(r, b) /\ r.last_runtime = t
  BY <1>1 DEF job_t, SameKeys
<1> QED BY <1>1, <1>2, <1>3 DEF SameKeys

LEMMA UnstartedRecord ==
  ASSUME NEW t \in Nat, NEW a \in job_t
  PROVE  Unstarted(a, t) \in job_t /\ SameKeys(Unstarted(a, t), a)
<1> DEFINE b == [a EXCEPT !.first_runtime = IF @ = t THEN -1 ELSE @]
           l == IF a.last_runtime = t THEN -1 ELSE a.last_runtime
<1>1. b \in job_t /\ SameKeys(b, a) /\ l \in Int
  BY DEF job_t, SameKeys
<1>2. Unstarted(a, t) = [b EXCEPT !.last_runtime = l]
  BY Zenon DEF Unstarted
<1> HIDE DEF b, l
<1>3. LET r == [b EXCEPT !.last_runtime = l]
      IN  r \in job_t /\ SameKeys(r, b)
  BY <1>1 DEF job_t, SameKeys
<1> QED BY <1>1, <1>2, <1>3 DEF SameKeys

LEMMA ResumedRecord ==
  ASSUME NEW t \in Nat, NEW a \in job_t
  PROVE  /\ Resumed(a, t) \in job_t /\ SameKeys(Resumed(a, t), a)
         /\ Resumed(a, t).last_runtime = t
<1> DEFINE b == [a EXCEPT !.first_runtime = IF @ = -1 THEN t ELSE @]
<1>1. b \in job_t /\ SameKeys(b, a)
  BY DEF job_t, SameKeys
<1>2. Resumed(a, t) = [b EXCEPT !.last_runtime = t]
  BY Zenon DEF Resumed
<1> HIDE DEF b
<1>3. LET r == [b EXCEPT !.last_runtime = t]
      IN  /\ r \in job_t /\ SameKeys(r, b) /\ r.last_runtime = t
  BY <1>1 DEF job_t, SameKeys
<1> QED BY <1>1, <1>2, <1>3 DEF SameKeys

LEMMA WithStatsRecord ==
  ASSUME NEW t \in Nat, NEW a \in job_t
  PROVE  WithStats(a, t) \in job_t
<1> DEFINE w == (t - a.arrival_time) - a.running_time
           b == [a EXCEPT !.waiting_time = w]
           v == a.first_runtime - a.arrival_time
           d == [b EXCEPT !.response_time = v]
           u == t - a.arrival_time
<1>1. w \in Int /\ v \in Int /\ u \in Int
  BY DEF job_t
<1>2. WithStats(a, t) = [d EXCEPT !.turnaround_time = u]
  BY Zenon DEF WithStats
<1> HIDE DEF w, v, u
<1>3. b \in job_t
  BY <1>1 DEF job_t
<1> HIDE DEF b
<1>4. d \in job_t
  BY <1>1, <1>3 DEF job_t
<1> HIDE DEF d
<1>5. [d EXCEPT !.turnaround_time = u] \in job_t
  BY <1>1, <1>4 DEF job_t
<1> QED BY <1>2, <1>5
-----------------------------------------------------------------------------
\* What PollTo does, whichever queue q it polls.
LEMMA PollToMoves ==
  ASSUME NEW c \in Cores, NEW q \in Seq(JobNumbers), NEW t \in Nat,
         NEW jt \in [JobNumbers -> job_t], PollTo(c, q, jt, t)
  PROVE  /\ job_queue' \in Seq(JobNumbers)
         /\ job' \in [JobNumbers -> job_t]
         /\ ret' \in JobNumbers \cup {NoJob}
         /\ \/ /\ q = << >> /\ job_queue' = << >>
               /\ Assign(c, NoJob)
            \/ /\ q # << >> /\ q[1] \in JobNumbers
               /\ Len(job_queue') = Len(q) - 1
               /\ Assign(c, q[1])
               /\ ToSet(q) = ToSet(job_queue') \cup {q[1]}
               /\ IsInjective(q) => q[1] \notin ToSet(job_queue') /\ IsInjective(job_queue')
<1>1. CASE q = << >>
  <2>1. priqueue_peek(q, NoJob) = NoJob /\ priqueue_poll(q) = << >>
    BY <1>1 DEF priqueue_peek, priqueue_poll
  <2> QED BY <1>1, <2>1 DEF PollTo, Assign
<1>2. CASE q # << >>
  <2>1. /\ priqueue_peek(q, NoJob) = q[1] /\ q[1] \in JobNumbers
        /\ priqueue_poll(q) \in Seq(JobNumbers)
        /\ DOMAIN priqueue_poll(q) = 1..(Len(q) - 1)
        /\ ToSet(q) = ToSet(priqueue_poll(q)) \cup {q[1]}
        /\ IsInjective(q) => /\ q[1] \notin ToSet(priqueue_poll(q))
                             /\ IsInjective(priqueue_poll(q))
    BY <1>2, PollElements
  <2>2. Len(priqueue_poll(q)) = Len(q) - 1
    BY <1>2 DEF priqueue_poll
  <2>3. q[1] # NoJob
    BY <2>1, Pointers
  <2>4. /\ core_arr' = [core_arr EXCEPT ![c] = q[1]] /\ job_queue' = priqueue_poll(q)
        /\ ret' = q[1]
        /\ job' = [jt EXCEPT ![q[1]] = Resumed(jt[q[1]], t)]
    BY <2>1, <2>3 DEF PollTo
  <2>5. job' \in [JobNumbers -> job_t]
    BY <2>1, <2>4, ResumedRecord
  <2> QED BY <1>2, <2>1, <2>2, <2>4, <2>5 DEF Assign
<1> QED BY <1>1, <1>2

\* The job records as scheduler_new_job leaves them before it places the job.
LEMMA WithNewJobRecords ==
  ASSUME TypeOK, NEW j \in JobNumbers, NEW rt \in Nat \ {0}, NEW p \in Int
  PROVE  WithNewJob(j, NewJob(time, rt, p), time) \in [JobNumbers -> job_t]
<1>1. /\ time \in Nat /\ \A k \in JobNumbers : job[k] \in job_t
  BY DEF TypeOK
<1>2. NewJob(time, rt, p) \in job_t
  BY <1>1, NewJobRecord
<1>3. \A k \in JobNumbers : Charged(job[k], time) \in job_t
  BY <1>1, ChargedRecord
<1> QED BY <1>1, <1>2, <1>3 DEF WithNewJob

\* The three places a new job goes to.
LEMMA NewJobMoves ==
  ASSUME TypeOK, NEW j \in JobNumbers, NEW rt \in Nat \ {0}, NEW p \in Int,
         scheduler_new_job(j, time, rt, p)
  PROVE  /\ job_queue' \in Seq(JobNumbers)
         /\ job' \in [JobNumbers -> job_t]
         /\ ret' \in Cores \cup {NoJob}
         /\ \/ /\ job_queue' = job_queue
               /\ \E c \in IdleCores : Assign(c, j)
            \/ /\ IdleCores = {}
               /\ \E c \in Cores :
                    /\ Assign(c, j)
                    /\ ToSet(job_queue') = ToSet(job_queue) \cup {core_arr[c]}
                    /\ IsInjective(job_queue) /\ core_arr[c] \notin ToSet(job_queue)
                         => IsInjective(job_queue')
            \/ /\ IdleCores = {} /\ core_arr' = core_arr
               /\ ToSet(job_queue') = ToSet(job_queue) \cup {j}
               /\ IsInjective(job_queue) /\ j \notin ToSet(job_queue)
                    => IsInjective(job_queue')
<1> DEFINE jt == WithNewJob(j, NewJob(time, rt, p), time)
<1>1. /\ jt \in [JobNumbers -> job_t] /\ job_queue \in Seq(JobNumbers) /\ time \in Nat
      /\ core_arr \in [Cores -> JobNumbers \cup {NoJob}]
  BY WithNewJobRecords DEF TypeOK
<1>2. TakeIdleCore(j, jt, time) \/ PreemptWorst(j, jt, time) \/ Enqueue(j, jt)
  BY DEF scheduler_new_job
<1> HIDE DEF jt
<1>3. [jt EXCEPT ![j] = Started(jt[j], time)] \in [JobNumbers -> job_t]
  BY <1>1, StartedRecord
<1>4. CASE TakeIdleCore(j, jt, time)
  <2>1. PICK c \in IdleCores : Assign(c, j) /\ ret' = c
    BY <1>4 DEF TakeIdleCore, Assign
  <2>2. job' = [jt EXCEPT ![j] = Started(jt[j], time)] /\ job_queue' = job_queue
    BY <1>4 DEF TakeIdleCore
  <2>3. ret' \in Cores
    BY <2>1 DEF IdleCores
  <2> QED BY <1>1, <1>3, <2>1, <2>2, <2>3
<1>5. CASE PreemptWorst(j, jt, time)
  <2>1. PICK c \in Cores : 
          LET jt2 == [jt EXCEPT ![core_arr[c]] = Unstarted(jt[core_arr[c]], time),
                                ![j] = Started(jt[j], time)]
          IN  /\ IdleCores = {} /\ core_arr' = [core_arr EXCEPT ![c] = j]
              /\ job' = jt2 /\ job_queue' = OfferTo(job_queue, core_arr[c], jt2)
              /\ ret' = c
    BY <1>5 DEF PreemptWorst
  <2>2. core_arr[c] \in JobNumbers
    BY <1>1, <2>1 DEF IdleCores
  <2> DEFINE jt1 == [jt EXCEPT ![core_arr[c]] = Unstarted(jt[core_arr[c]], time)]
             jt2 == [jt1 EXCEPT ![j] = Started(jt[j], time)]
  <2>3. jt1 \in [JobNumbers -> job_t]
    BY <1>1, <2>2, UnstartedRecord
  <2> HIDE DEF jt1
  <2>4. jt2 \in [JobNumbers -> job_t]
    BY <1>1, <2>3, StartedRecord
  <2>5. job' = jt2 /\ job_queue' = OfferTo(job_queue, core_arr[c], jt2)
    BY <2>1 DEF jt1
  <2> HIDE DEF jt2
  <2>6. /\ job_queue' \in Seq(JobNumbers)
        /\ ToSet(job_queue') = ToSet(job_queue) \cup {core_arr[c]}
        /\ IsInjective(job_queue) /\ core_arr[c] \notin ToSet(job_queue)
             => IsInjective(job_queue')
    BY <1>1, <2>2, <2>5, OfferToElements
  <2> QED BY <2>1, <2>4, <2>5, <2>6 DEF Assign
<1>6. CASE Enqueue(j, jt)
  BY <1>1, <1>6, OfferToElements DEF Enqueue
<1> QED BY <1>2, <1>4, <1>5, <1>6
-----------------------------------------------------------------------------
(***************************************************************************)
(* Types, Conservation and WorkConserving are inductive together: that a   *)
(* waiting job is on no core needs that it is in one place only, and that  *)
(* a new job may take an idle core needs that then nothing waits.          *)
(***************************************************************************)
PlacesInv == TypeOK /\ Conservation /\ WorkConserving

\* Conservation in the words of AssignCore, of a state and of the next one.
LEMMA Places ==
  /\ Conservation <=> /\ CoreJobs \cup QueueJobs \cup FinishedJobs = arrived
                      /\ CoreJobs \cap QueueJobs = {}
                      /\ (CoreJobs \cup QueueJobs) \cap FinishedJobs = {}
                      /\ OneCoreEach
                      /\ IsInjective(job_queue) /\ IsInjective(finished)
  /\ Conservation' <=> /\ CoreJobs' \cup QueueJobs' \cup FinishedJobs' = arrived'
                       /\ CoreJobs' \cap QueueJobs' = {}
                       /\ (CoreJobs' \cup QueueJobs') \cap FinishedJobs' = {}
                       /\ OneCoreEach'
                       /\ IsInjective(job_queue') /\ IsInjective(finished')
  BY DEF Conservation, OneCoreEach

LEMMA PlacesInit == SchedInit => PlacesInv
<1> SUFFICES ASSUME SchedInit  PROVE PlacesInv
  OBVIOUS
<1> USE DEF SchedInit, scheduler_start_up
<1>1. TypeOK
  <2>1. NewJob(-1, 0, 0) \in job_t
    BY DEF NewJob, job_t
  <2> QED BY <2>1 DEF TypeOK, CoresTyped
<1>2. Conservation
  <2>1. CoreJobs = {} /\ OneCoreEach
    BY DEF CoreJobs, OneCoreEach
  <2>2. QueueJobs = {} /\ FinishedJobs = {}
    BY DEF QueueJobs, FinishedJobs, ToSet
  <2>3. IsInjective(<< >>)
    BY DEF IsInjective
  <2> QED BY <2>1, <2>2, <2>3, Places
<1>3. WorkConserving
  BY DEF WorkConserving
<1> QED BY <1>1, <1>2, <1>3 DEF PlacesInv

\* A new job is in no place yet, and a job it swaps out waits on no core.
\* A new job is in no place yet, and a job it swaps out waits on no core.
LEMMA PlacesNewJob == PlacesInv /\ NewJobCall => PlacesInv'
<1> SUFFICES ASSUME PlacesInv,
                    NEW j \in JobNumbers \ arrived, NEW rt \in Nat \ {0}, NEW p \in Int,
                    scheduler_new_job(j, time, rt, p), time' = time
             PROVE  PlacesInv'
  BY KindsAssumption DEF NewJobCall
<1>1. /\ TypeOK /\ CoresTyped
      /\ CoreJobs \cup QueueJobs \cup FinishedJobs = arrived
      /\ CoreJobs \cap QueueJobs = {}
      /\ (CoreJobs \cup QueueJobs) \cap FinishedJobs = {}
      /\ OneCoreEach
      /\ IsInjective(job_queue) /\ IsInjective(finished)
      /\ job_queue # << >> => IdleCores = {}
  BY Places DEF PlacesInv, TypeOK, WorkConserving, CoresTyped
<1>2. /\ arrived' = arrived \cup {j} /\ job_count' = job_count + 1
      /\ the_scheme' = the_scheme /\ finished' = finished /\ FinishedJobs' = FinishedJobs
  BY DEF scheduler_new_job, FinishedJobs
<1>3. /\ job_queue' \in Seq(JobNumbers) /\ job' \in [JobNumbers -> job_t]
      /\ ret' \in Cores \cup {NoJob}
      /\ \/ /\ job_queue' = job_queue
            /\ \E c \in IdleCores : Assign(c, j)
         \/ /\ IdleCores = {}
            /\ \E c \in Cores :
                 /\ Assign(c, j)
                 /\ QueueJobs' = QueueJobs \cup {core_arr[c]}
                 /\ core_arr[c] \notin QueueJobs => IsInjective(job_queue')
         \/ /\ IdleCores = {} /\ core_arr' = core_arr
            /\ QueueJobs' = QueueJobs \cup {j}
            /\ j \notin QueueJobs => IsInjective(job_queue')
  BY <1>1, NewJobMoves DEF QueueJobs
<1>4. j \notin CoreJobs \cup QueueJobs \cup FinishedJobs
  BY <1>1
<1>5. CoresTyped' => TypeOK'
  BY <1>1, <1>2, <1>3 DEF TypeOK, CoresTyped
<1>6. CASE job_queue' = job_queue /\ \E c \in IdleCores : Assign(c, j)
  <2>1. PICK c \in Cores : c \in IdleCores /\ core_arr[c] = NoJob /\ Assign(c, j)
    BY <1>6 DEF IdleCores
  <2>2. NoJob \notin CoreJobs /\ QueueJobs' = QueueJobs
    BY <1>6 DEF CoreJobs, QueueJobs
  <2>3. CoresTyped' /\ OneCoreEach' /\ CoreJobs' = CoreJobs \cup {j}
    BY <1>1, <1>4, <2>1, <2>2, AssignJob
  <2>4. Conservation'
    BY <1>1, <1>2, <1>4, <1>6, <2>2, <2>3, Places
  <2>5. WorkConserving'
    BY <1>1, <1>6, <2>1 DEF WorkConserving
  <2> QED BY <1>5, <2>3, <2>4, <2>5 DEF PlacesInv
<1>7. CASE /\ IdleCores = {}
           /\ \E c \in Cores :
                /\ Assign(c, j)
                /\ QueueJobs' = QueueJobs \cup {core_arr[c]}
                /\ core_arr[c] \notin QueueJobs => IsInjective(job_queue')
  <2>1. PICK c \in Cores : /\ Assign(c, j)
                           /\ QueueJobs' = QueueJobs \cup {core_arr[c]}
                           /\ core_arr[c] \notin QueueJobs => IsInjective(job_queue')
    BY <1>7
  <2>2. core_arr[c] \in CoreJobs
    BY <1>7 DEF IdleCores, CoreJobs
  <2>3. /\ CoresTyped' /\ OneCoreEach' /\ IdleCores' = {}
        /\ CoreJobs' = (CoreJobs \ {core_arr[c]}) \cup {j}
    BY <1>1, <1>4, <1>7, <2>1, AssignJob
  <2>4. Conservation'
    BY <1>1, <1>2, <1>4, <2>1, <2>2, <2>3, Places
  <2> QED BY <1>5, <2>3, <2>4 DEF PlacesInv, WorkConserving
<1>8. CASE /\ IdleCores = {} /\ core_arr' = core_arr
           /\ QueueJobs' = QueueJobs \cup {j}
           /\ j \notin QueueJobs => IsInjective(job_queue')
  <2>1. CoresTyped' /\ OneCoreEach' /\ IdleCores' = {} /\ CoreJobs' = CoreJobs
    BY <1>1, <1>8 DEF CoresTyped, OneCoreEach, IdleCores, CoreJobs
  <2>2. Conservation'
    BY <1>1, <1>2, <1>4, <1>8, <2>1, Places
  <2> QED BY <1>5, <2>1, <2>2 DEF PlacesInv, WorkConserving
<1> QED BY <1>3, <1>6, <1>7, <1>8

LEMMA PlacesFinished == PlacesInv /\ JobFinishedCall => PlacesInv'
<1> SUFFICES ASSUME PlacesInv, NEW c \in Cores \ IdleCores,
                    scheduler_job_finished(c, time), time' = time
             PROVE  PlacesInv'
  BY DEF JobFinishedCall
<1> DEFINE j == core_arr[c]
<1>1. /\ TypeOK /\ CoresTyped
      /\ job_queue \in Seq(JobNumbers) /\ finished \in Seq(JobNumbers) /\ time \in Nat
      /\ job \in [JobNumbers -> job_t]
      /\ CoreJobs \cup QueueJobs \cup FinishedJobs = arrived
      /\ CoreJobs \cap QueueJobs = {}
      /\ (CoreJobs \cup QueueJobs) \cap FinishedJobs = {}
      /\ OneCoreEach
      /\ IsInjective(job_queue) /\ IsInjective(finished)
      /\ job_queue # << >> => IdleCores = {}
  BY Places DEF PlacesInv, TypeOK, WorkConserving, CoresTyped
<1>2. j \in JobNumbers /\ j \in CoreJobs
  BY <1>1 DEF IdleCores, CoreJobs, CoresTyped
<1>3. /\ finished' = priqueue_offer(finished, j, {})
      /\ PollTo(c, job_queue, [job EXCEPT ![j] = WithStats(job[j], time)], time)
      /\ the_scheme' = the_scheme /\ job_count' = job_count /\ arrived' = arrived
  BY DEF scheduler_job_finished
<1>4. /\ finished' \in Seq(JobNumbers) /\ FinishedJobs' = FinishedJobs \cup {j}
      /\ IsInjective(finished')
  BY <1>1, <1>2, <1>3, OfferElements DEF FinishedJobs
<1>5. [job EXCEPT ![j] = WithStats(job[j], time)] \in [JobNumbers -> job_t]
  BY <1>1, <1>2, WithStatsRecord
<1>6. /\ job_queue' \in Seq(JobNumbers) /\ job' \in [JobNumbers -> job_t]
      /\ ret' \in JobNumbers \cup {NoJob}
      /\ \/ job_queue = << >> /\ job_queue' = << >> /\ Assign(c, NoJob)
         \/ /\ job_queue # << >> /\ job_queue[1] \in JobNumbers
            /\ Assign(c, job_queue[1])
            /\ QueueJobs = QueueJobs' \cup {job_queue[1]}
            /\ job_queue[1] \notin QueueJobs' /\ IsInjective(job_queue')
  BY <1>1, <1>3, <1>5, PollToMoves DEF QueueJobs
<1>7. CoresTyped' => TypeOK'
  BY <1>1, <1>3, <1>4, <1>6 DEF TypeOK, CoresTyped
<1> HIDE DEF j
<1>8. CASE job_queue = << >> /\ job_queue' = << >> /\ Assign(c, NoJob)
  <2>1. QueueJobs' = {} /\ QueueJobs = {} /\ IsInjective(job_queue')
    BY <1>8 DEF QueueJobs, ToSet, IsInjective
  <2>2. CoresTyped' /\ OneCoreEach' /\ CoreJobs' = CoreJobs \ {j}
    BY <1>1, <1>8, AssignNone DEF j
  <2>3. Conservation'
    BY <1>1, <1>2, <1>3, <1>4, <2>1, <2>2, Places
  <2> QED BY <1>7, <1>8, <2>2, <2>3 DEF PlacesInv, WorkConserving
<1>9. CASE /\ job_queue # << >> /\ job_queue[1] \in JobNumbers
           /\ Assign(c, job_queue[1])
           /\ QueueJobs = QueueJobs' \cup {job_queue[1]}
           /\ job_queue[1] \notin QueueJobs' /\ IsInjective(job_queue')
  <2> DEFINE n == job_queue[1]
  <2>1. n \in JobNumbers /\ n \notin CoreJobs /\ Assign(c, n)
    BY <1>1, <1>9
  <2>2. QueueJobs = QueueJobs' \cup {n} /\ n \notin QueueJobs' /\ IsInjective(job_queue')
    BY <1>9
  <2> HIDE DEF n
  <2>3. /\ CoresTyped' /\ OneCoreEach' /\ IdleCores' = IdleCores \ {c}
        /\ CoreJobs' = (CoreJobs \ {j}) \cup {n}
    BY <1>1, <2>1, AssignJob DEF j
  <2>4. Conservation'
    BY <1>1, <1>2, <1>3, <1>4, <2>1, <2>2, <2>3, Places
  <2> QED BY <1>1, <1>7, <1>9, <2>3, <2>4 DEF PlacesInv, WorkConserving
<1> QED BY <1>6, <1>8, <1>9

LEMMA PlacesExpired == PlacesInv /\ QuantumExpiredCall => PlacesInv'
<1> SUFFICES ASSUME PlacesInv, NEW c \in Cores \ IdleCores,
                    scheduler_quantum_expired(c, time), time' = time
             PROVE  PlacesInv'
  BY DEF QuantumExpiredCall
<1> DEFINE j == core_arr[c]
           q == OfferTo(job_queue, j, job)
           n == q[1]
<1>1. /\ TypeOK /\ CoresTyped
      /\ job_queue \in Seq(JobNumbers) /\ time \in Nat /\ job \in [JobNumbers -> job_t]
      /\ CoreJobs \cup QueueJobs \cup FinishedJobs = arrived
      /\ CoreJobs \cap QueueJobs = {}
      /\ (CoreJobs \cup QueueJobs) \cap FinishedJobs = {}
      /\ OneCoreEach
      /\ IsInjective(job_queue) /\ IsInjective(finished)
      /\ job_queue # << >> => IdleCores = {}
  BY Places DEF PlacesInv, TypeOK, WorkConserving, CoresTyped
<1>2. j \in JobNumbers /\ j \in CoreJobs
  BY <1>1 DEF IdleCores, CoreJobs, CoresTyped
<1>3. /\ PollTo(c, q, job, time)
      /\ the_scheme' = the_scheme /\ job_count' = job_count /\ arrived' = arrived
      /\ finished' = finished /\ FinishedJobs' = FinishedJobs
  BY DEF scheduler_quantum_expired, FinishedJobs
<1>4. /\ q \in Seq(JobNumbers) /\ Len(q) = Len(job_queue) + 1
      /\ ToSet(q) = QueueJobs \cup {j} /\ IsInjective(q)
  BY <1>1, <1>2, OfferToElements DEF QueueJobs
<1> HIDE DEF j, q
<1>5. /\ job_queue' \in Seq(JobNumbers) /\ job' \in [JobNumbers -> job_t]
      /\ ret' \in JobNumbers \cup {NoJob}
      /\ n \in JobNumbers /\ Assign(c, n) /\ Len(job_queue') = Len(job_queue)
      /\ QueueJobs \cup {j} = QueueJobs' \cup {n}
      /\ n \notin QueueJobs' /\ IsInjective(job_queue')
  <2>1. q # << >>
    BY <1>1, <1>4
  <2>2. Len(q) - 1 = Len(job_queue)
    BY <1>1, <1>4
  <2> QED BY <1>1, <1>3, <1>4, <2>1, <2>2, PollToMoves DEF QueueJobs
<1> HIDE DEF n
<1>6. CoresTyped' => TypeOK'
  BY <1>1, <1>3, <1>5 DEF TypeOK, CoresTyped
<1>7. n \notin CoreJobs \/ n = core_arr[c]
  BY <1>1, <1>5 DEF j
<1>8. /\ CoresTyped' /\ OneCoreEach' /\ IdleCores' = IdleCores \ {c}
      /\ CoreJobs' = (CoreJobs \ {j}) \cup {n}
  BY <1>1, <1>5, <1>7, AssignJob DEF j
<1>9. Conservation'
  BY <1>1, <1>2, <1>3, <1>5, <1>8, Places
<1>10. job_queue' # << >> => job_queue # << >>
  BY <1>1, <1>5
<1> QED BY <1>1, <1>6, <1>8, <1>9, <1>10 DEF PlacesInv, WorkConserving

LEMMA PlacesTick == PlacesInv /\ (Tick \/ UNCHANGED schedVars) => PlacesInv'
<1>1. PlacesInv /\ Tick => PlacesInv'
  BY DEF PlacesInv, Tick, TypeOK, Conservation, WorkConserving,
         CoreJobs, QueueJobs, FinishedJobs, IdleCores
<1>2. PlacesInv /\ UNCHANGED schedVars => PlacesInv'
  BY DEF PlacesInv, schedVars, TypeOK, Conservation, WorkConserving,
         CoreJobs, QueueJobs, FinishedJobs, IdleCores
<1> QED BY <1>1, <1>2

THEOREM PlacesInvariant == SchedSpec => []PlacesInv
<1>1. SchedInit => PlacesInv
  BY PlacesInit
<1>2. PlacesInv /\ [SchedNext]_schedVars => PlacesInv'
  BY PlacesNewJob, PlacesFinished, PlacesExpired, PlacesTick DEF SchedNext
<1> QED BY <1>1, <1>2, PTL DEF SchedSpec

\* Each variable of the library keeps its type: SchedSpec never leaves the model's states.
THEOREM TypeCorrect == SchedSpec => []TypeOK
<1>1. PlacesInv => TypeOK
  BY DEF PlacesInv
<1> QED BY <1>1, PlacesInvariant, PTL

(* No job_t pointer is lost, run twice or queued twice, whatever the order *)
(* of the simulator's calls, for every scheme and any number of cores.     *)
THEOREM JobsConserved == SchedSpec => []Conservation
<1>1. PlacesInv => Conservation
  BY DEF PlacesInv
<1> QED BY <1>1, PlacesInvariant, PTL

(* No core is ever idle while a job waits in job_queue.                    *)
THEOREM CoresWorkConserving == SchedSpec => []WorkConserving
<1>1. PlacesInv => WorkConserving
  BY DEF PlacesInv
<1> QED BY <1>1, PlacesInvariant, PTL
-----------------------------------------------------------------------------
(***************************************************************************)
(* The library implements the abstract scheduler: PlacesInv tells what     *)
(* each call does to the sets of jobs.                                     *)
(***************************************************************************)
absVars == << core_arr, QueueJobs, FinishedJobs >>

LEMMA NewJobArrives == PlacesInv /\ NewJobCall => Abstract!AbsNext
<1> SUFFICES ASSUME PlacesInv,
                    NEW j \in JobNumbers \ arrived, NEW rt \in Nat \ {0}, NEW p \in Int,
                    scheduler_new_job(j, time, rt, p)
             PROVE  Abstract!Arrive(j)
  BY KindsAssumption DEF NewJobCall, Abstract!AbsNext
<1>1. TypeOK /\ CoreJobs \cup QueueJobs \cup FinishedJobs = arrived
  BY Places DEF PlacesInv
<1>2. FinishedJobs' = FinishedJobs
  BY DEF scheduler_new_job, FinishedJobs
<1>3. \/ /\ job_queue' = job_queue
         /\ \E c \in IdleCores : Assign(c, j)
      \/ /\ IdleCores = {}
         /\ \E c \in Cores : Assign(c, j) /\ QueueJobs' = QueueJobs \cup {core_arr[c]}
      \/ /\ IdleCores = {} /\ core_arr' = core_arr
         /\ QueueJobs' = QueueJobs \cup {j}
  BY <1>1, NewJobMoves DEF QueueJobs
<1>4. j \notin Abstract!Running \cup QueueJobs \cup FinishedJobs
  BY <1>1 DEF Abstract!Running, CoreJobs
<1>5. Abstract!Idle = IdleCores
  BY DEF Abstract!Idle, IdleCores
<1>6. job_queue' = job_queue => QueueJobs' = QueueJobs
  BY DEF QueueJobs
<1> QED BY <1>2, <1>3, <1>4, <1>5, <1>6 DEF Abstract!Arrive, Assign

LEMMA FinishedServes == PlacesInv /\ JobFinishedCall => Abstract!AbsNext
<1> SUFFICES ASSUME PlacesInv, NEW c \in Cores \ IdleCores,
                    scheduler_job_finished(c, time)
             PROVE  Abstract!Finish(c)
  BY DEF JobFinishedCall, Abstract!AbsNext
<1> DEFINE j == core_arr[c]
           jt == [job EXCEPT ![j] = WithStats(job[j], time)]
<1>1. /\ job_queue \in Seq(JobNumbers) /\ finished \in Seq(JobNumbers) /\ time \in Nat
      /\ job \in [JobNumbers -> job_t] /\ IsInjective(job_queue) /\ IsInjective(finished)
      /\ j \in JobNumbers
  BY Places DEF PlacesInv, TypeOK, IdleCores
<1>2. finished' = priqueue_offer(finished, j, {}) /\ PollTo(c, job_queue, jt, time)
  BY DEF scheduler_job_finished
<1>3. FinishedJobs' = FinishedJobs \cup {j}
  BY <1>1, <1>2, OfferElements DEF FinishedJobs
<1>4. jt \in [JobNumbers -> job_t]
  BY <1>1, WithStatsRecord
<1> HIDE DEF jt
<1>5. \/ job_queue = << >> /\ job_queue' = << >> /\ Assign(c, NoJob)
      \/ /\ job_queue # << >> /\ Assign(c, job_queue[1])
         /\ QueueJobs = QueueJobs' \cup {job_queue[1]} /\ job_queue[1] \notin QueueJobs'
  BY <1>1, <1>2, <1>4, PollToMoves DEF QueueJobs
<1>6. job_queue = << >> /\ job_queue' = << >> => QueueJobs = {} /\ QueueJobs' = {}
  BY DEF QueueJobs, ToSet
<1>7. Abstract!Serve(c, QueueJobs)
  <2>1. CASE job_queue = << >> /\ job_queue' = << >> /\ Assign(c, NoJob)
    BY <1>6, <2>1 DEF Abstract!Serve, Assign
  <2>2. CASE /\ Assign(c, job_queue[1])
             /\ QueueJobs = QueueJobs' \cup {job_queue[1]} /\ job_queue[1] \notin QueueJobs'
    <3>1. job_queue[1] \in QueueJobs /\ QueueJobs' = QueueJobs \ {job_queue[1]}
      BY <2>2
    <3> QED BY <2>2, <3>1 DEF Abstract!Serve, Assign
  <2> QED BY <1>5, <2>1, <2>2
<1> QED BY <1>3, <1>7 DEF Abstract!Finish, Abstract!Idle, IdleCores

LEMMA ExpiredRotates == PlacesInv /\ QuantumExpiredCall => Abstract!AbsNext
<1> SUFFICES ASSUME PlacesInv, NEW c \in Cores \ IdleCores,
                    scheduler_quantum_expired(c, time)
             PROVE  Abstract!Rotate(c)
  BY DEF QuantumExpiredCall, Abstract!AbsNext
<1> DEFINE j == core_arr[c]
           q == OfferTo(job_queue, j, job)
           n == q[1]
<1>1. /\ job_queue \in Seq(JobNumbers) /\ time \in Nat
      /\ job \in [JobNumbers -> job_t] /\ IsInjective(job_queue)
      /\ j \in JobNumbers /\ j \in CoreJobs /\ CoreJobs \cap QueueJobs = {}
  BY Places DEF PlacesInv, TypeOK, IdleCores, CoreJobs
<1>2. PollTo(c, q, job, time) /\ FinishedJobs' = FinishedJobs
  BY DEF scheduler_quantum_expired, FinishedJobs
<1>3. /\ q \in Seq(JobNumbers) /\ Len(q) = Len(job_queue) + 1
      /\ ToSet(q) = QueueJobs \cup {j} /\ IsInjective(q)
  BY <1>1, OfferToElements DEF QueueJobs
<1>4. q # << >>
  BY <1>1, <1>3
<1> HIDE DEF j, q
<1>5. /\ Assign(c, n) /\ QueueJobs \cup {j} = QueueJobs' \cup {n} /\ n \notin QueueJobs'
  BY <1>1, <1>2, <1>3, <1>4, PollToMoves DEF QueueJobs
<1> HIDE DEF n
<1>6. n \in QueueJobs \cup {j} /\ QueueJobs' = (QueueJobs \cup {j}) \ {n}
  BY <1>5
<1>7. Abstract!Serve(c, QueueJobs \cup {j})
  BY <1>5, <1>6 DEF Abstract!Serve, Assign
<1> QED BY <1>2, <1>7 DEF Abstract!Rotate, Abstract!Idle, IdleCores, j

(* Every scheme, seen through the sets of jobs on cores, waiting and done, *)
(* is the abstract scheduler that serves all and idles no core.            *)
THEOREM LibraryImplementsAbstract == SchedSpec => ImplementsAbstract
<1>1. SchedInit => Abstract!AbsInit
  BY DEF SchedInit, scheduler_start_up, Abstract!AbsInit, QueueJobs, FinishedJobs, ToSet
<1>2. PlacesInv /\ [SchedNext]_schedVars => [Abstract!AbsNext]_absVars
  <2>1. Tick \/ UNCHANGED schedVars => UNCHANGED absVars
    BY DEF Tick, schedVars, absVars, QueueJobs, FinishedJobs
  <2> QED BY <2>1, NewJobArrives, FinishedServes, ExpiredRotates DEF SchedNext
<1> QED BY <1>1, <1>2, PlacesInvariant, PTL DEF SchedSpec, ImplementsAbstract, Abstract!AbsSpec, absVars
-----------------------------------------------------------------------------
(***************************************************************************)
(* The order that the schemes of libscheduler keep: among the jobs that    *)
(* wait, and between them and the jobs that run.                           *)
(***************************************************************************)

\* comp for the scheme s, which no step changes.
CompOf(s, a, b) ==
  CASE s = "FCFS"            -> comp_FCFS(a, b)
    [] s = "RR"              -> comp_RR(a, b)
    [] s \in {"SJF", "PSJF"} -> comp_SJF(a, b)
    [] OTHER                 -> comp_PRI(a, b)

Ordering == {"FCFS", "SJF", "PSJF", "PRI", "PPRI"}
Preempting == {"PSJF", "PPRI"}

LEMMA CompCases ==
  ASSUME NEW s, NEW a, NEW b
  PROVE  /\ s = "FCFS" => CompOf(s, a, b) = comp_FCFS(a, b)
         /\ s \in {"SJF", "PSJF"} => CompOf(s, a, b) = comp_SJF(a, b)
         /\ s \in {"PRI", "PPRI"} => CompOf(s, a, b) = comp_PRI(a, b)
  BY DEF CompOf

\* A lexicographic order of two keys, as the comparison functions make it.
LEMMA TwoKeys ==
  ASSUME NEW x \in Int, NEW y \in Int, NEW u \in Int, NEW v \in Int
  PROVE  LET d == IF x # u THEN x - u ELSE y - v
         IN  d \in Int /\ (d <= 0 <=> x < u \/ (x = u /\ y <= v))
                       /\ (d < 0 <=> x < u \/ (x = u /\ y < v))
                       /\ (d >= 0 <=> u < x \/ (x = u /\ v <= y))
  OBVIOUS

LEMMA CompKeys ==
  ASSUME NEW s \in Ordering, NEW a \in job_t, NEW b \in job_t
  PROVE  /\ CompOf(s, a, b) \in Int
         /\ s = "FCFS" => CompOf(s, a, b) = a.arrival_time - b.arrival_time
         /\ s \in {"SJF", "PSJF"} =>
              CompOf(s, a, b) = IF a.remaining_time # b.remaining_time
                                THEN a.remaining_time - b.remaining_time
                                ELSE a.arrival_time - b.arrival_time
         /\ s \in {"PRI", "PPRI"} =>
              CompOf(s, a, b) = IF a.priority # b.priority
                                THEN a.priority - b.priority
                                ELSE a.arrival_time - b.arrival_time
<1>1. /\ a.arrival_time \in Int /\ b.arrival_time \in Int
      /\ a.remaining_time \in Int /\ b.remaining_time \in Int
      /\ a.priority \in Int /\ b.priority \in Int
  BY DEF job_t
<1>2. CASE s = "FCFS"
  BY <1>1, <1>2, CompCases DEF comp_FCFS
<1>3. CASE s \in {"SJF", "PSJF"}
  BY <1>1, <1>3, CompCases DEF comp_SJF
<1>4. CASE s \in {"PRI", "PPRI"}
  BY <1>1, <1>4, CompCases DEF comp_PRI
<1> QED BY <1>2, <1>3, <1>4 DEF Ordering

\* Every scheme but RR is a total preorder.
LEMMA CompTotal ==
  ASSUME NEW s \in Ordering, NEW a \in job_t, NEW b \in job_t
  PROVE  CompOf(s, b, a) = - CompOf(s, a, b)
<1>1. /\ a.arrival_time \in Int /\ b.arrival_time \in Int
      /\ a.remaining_time \in Int /\ b.remaining_time \in Int
      /\ a.priority \in Int /\ b.priority \in Int
  BY DEF job_t
<1>2. CASE s = "FCFS"
  BY <1>1, <1>2, CompKeys
<1>3. CASE s \in {"SJF", "PSJF"}
  BY <1>1, <1>3, CompKeys
<1>4. CASE s \in {"PRI", "PPRI"}
  BY <1>1, <1>4, CompKeys
<1> QED BY <1>2, <1>3, <1>4 DEF Ordering

LEMMA CompTransitive ==
  ASSUME NEW s \in Ordering, NEW a \in job_t, NEW b \in job_t, NEW c \in job_t,
         CompOf(s, a, b) <= 0, CompOf(s, b, c) <= 0
  PROVE  CompOf(s, a, c) <= 0
<1>1. /\ a.arrival_time \in Int /\ b.arrival_time \in Int /\ c.arrival_time \in Int
      /\ a.remaining_time \in Int /\ b.remaining_time \in Int /\ c.remaining_time \in Int
      /\ a.priority \in Int /\ b.priority \in Int /\ c.priority \in Int
  BY DEF job_t
<1>2. CASE s = "FCFS"
  BY <1>1, <1>2, CompKeys
<1>3. CASE s \in {"SJF", "PSJF"}
  BY <1>1, <1>3, CompKeys
<1>4. CASE s \in {"PRI", "PPRI"}
  BY <1>1, <1>4, CompKeys
<1> QED BY <1>2, <1>3, <1>4 DEF Ordering

\* Only the keys count.
LEMMA CompSameKeys ==
  ASSUME NEW s \in Ordering, NEW a \in job_t, NEW b \in job_t, NEW c \in job_t, NEW d \in job_t,
         SameKeys(c, a), SameKeys(d, b)
  PROVE  CompOf(s, c, d) = CompOf(s, a, b)
<1>1. CASE s = "FCFS"
  BY <1>1, CompKeys DEF SameKeys
<1>2. CASE s \in {"SJF", "PSJF"}
  BY <1>2, CompKeys DEF SameKeys
<1>3. CASE s \in {"PRI", "PPRI"}
  BY <1>3, CompKeys DEF SameKeys
<1> QED BY <1>1, <1>2, <1>3 DEF Ordering

\* A job that is charged the time it ran does not fall behind.
LEMMA CompCharged ==
  ASSUME NEW s \in Ordering, NEW a \in job_t, NEW b \in job_t, NEW t \in Nat,
         b.last_runtime <= t, CompOf(s, a, b) >= 0
  PROVE  CompOf(s, a, Charged(b, t)) >= 0
<1> DEFINE r == Charged(b, t)
<1>1. /\ r \in job_t /\ r.priority = b.priority /\ r.arrival_time = b.arrival_time
      /\ r.remaining_time = b.remaining_time - (t - b.last_runtime)
  BY ChargedRecord
<1> HIDE DEF r
<1>2. /\ a.arrival_time \in Int /\ b.arrival_time \in Int /\ b.last_runtime \in Int
      /\ a.remaining_time \in Int /\ b.remaining_time \in Int
      /\ a.priority \in Int /\ b.priority \in Int
  BY DEF job_t
<1>3. r.remaining_time \in Int /\ r.remaining_time <= b.remaining_time
  BY <1>1, <1>2
<1>4. CompOf(s, a, r) >= 0
  <2>1. CASE s = "FCFS"
    BY <1>1, <1>2, <2>1, CompKeys
  <2>2. CASE s \in {"SJF", "PSJF"}
    BY <1>1, <1>2, <1>3, <2>2, CompKeys
  <2>3. CASE s \in {"PRI", "PPRI"}
    BY <1>1, <1>2, <2>3, CompKeys
  <2> QED BY <2>1, <2>2, <2>3 DEF Ordering
<1> QED BY <1>4 DEF r
-----------------------------------------------------------------------------
\* The queue q is in order for the job records jt.
OrderedBy(s, q, jt) ==
  \A i, k \in DOMAIN q : i < k => CompOf(s, jt[q[i]], jt[q[k]]) <= 0
\* No job of W precedes one of R.
NoneBetter(s, W, R, jt) == \A w \in W, r \in R : CompOf(s, jt[w], jt[r]) >= 0

LEMMA OfferKeepsOrdered ==
  ASSUME NEW s \in Ordering, NEW q \in Seq(JobNumbers), NEW j \in JobNumbers,
         NEW jt \in [JobNumbers -> job_t], OrderedBy(s, q, jt)
  PROVE  OrderedBy(s, priqueue_offer(q, j, {i \in DOMAIN q : CompOf(s, jt[j], jt[q[i]]) <= 0}), jt)
<1> DEFINE stops == {i \in DOMAIN q : CompOf(s, jt[j], jt[q[i]]) <= 0}
           R == {p \in JobNumbers \X JobNumbers : CompOf(s, jt[p[1]], jt[p[2]]) <= 0}
           r == priqueue_offer(q, j, stops)
<1>1. \A a, b \in JobNumbers : << a, b >> \in R <=> CompOf(s, jt[a], jt[b]) <= 0
  OBVIOUS
<1>2. \A i \in DOMAIN q : q[i] \in JobNumbers
  OBVIOUS
<1>3. \A a \in JobNumbers : jt[a] \in job_t
  OBVIOUS
<1>4. stops \in SUBSET (DOMAIN q)
  OBVIOUS
<1>5. \A i \in stops : << j, q[i] >> \in R
  BY <1>1, <1>2
<1>6. \A i \in DOMAIN q \ stops : << q[i], j >> \in R
  <2> SUFFICES ASSUME NEW i \in DOMAIN q, i \notin stops PROVE CompOf(s, jt[q[i]], jt[j]) <= 0
    BY <1>1, <1>2
  <2>1. CompOf(s, jt[j], jt[q[i]]) \in Int /\ ~ (CompOf(s, jt[j], jt[q[i]]) <= 0)
    BY <1>2, <1>3, CompKeys
  <2>2. CompOf(s, jt[q[i]], jt[j]) = - CompOf(s, jt[j], jt[q[i]])
    BY <1>2, <1>3, CompTotal
  <2> QED BY <2>1, <2>2
<1>7. \A i, k \in DOMAIN q : i < k => << q[i], q[k] >> \in R
  BY <1>1, <1>2 DEF OrderedBy
<1>8. \A a, b, c \in JobNumbers : << a, b >> \in R /\ << b, c >> \in R => << a, c >> \in R
  BY <1>1, <1>3, CompTransitive
<1>9. r \in Seq(JobNumbers)
  BY <1>4, OfferElements
<1> HIDE DEF R, stops
<1>10. \A i, k \in DOMAIN r : i < k => << r[i], r[k] >> \in R
  BY <1>4, <1>5, <1>6, <1>7, <1>8, OfferKeepsOrder
<1>11. \A i \in DOMAIN r : r[i] \in JobNumbers
  BY <1>9
<1> HIDE DEF r
<1>12. OrderedBy(s, r, jt)
  BY <1>1, <1>10, <1>11 DEF OrderedBy
<1> QED BY <1>12 DEF r, stops

LEMMA OrderedSameKeys ==
  ASSUME NEW s \in Ordering, NEW q \in Seq(JobNumbers),
         NEW jt \in [JobNumbers -> job_t], NEW jt2 \in [JobNumbers -> job_t],
         OrderedBy(s, q, jt), \A j \in ToSet(q) : SameKeys(jt2[j], jt[j])
  PROVE  OrderedBy(s, q, jt2)
<1> SUFFICES ASSUME NEW i \in DOMAIN q, NEW k \in DOMAIN q, i < k
             PROVE  CompOf(s, jt2[q[i]], jt2[q[k]]) <= 0
  BY DEF OrderedBy
<1>1. /\ q[i] \in ToSet(q) /\ q[k] \in ToSet(q)
      /\ q[i] \in JobNumbers /\ q[k] \in JobNumbers
  BY DEF ToSet
<1>2. CompOf(s, jt2[q[i]], jt2[q[k]]) = CompOf(s, jt[q[i]], jt[q[k]])
  BY <1>1, CompSameKeys
<1> QED BY <1>2 DEF OrderedBy

\* The head precedes what is left when it is taken.
LEMMA PollOrdered ==
  ASSUME NEW s \in Ordering, NEW q \in Seq(JobNumbers), q # << >>, NEW jt, OrderedBy(s, q, jt)
  PROVE  /\ OrderedBy(s, priqueue_poll(q), jt)
         /\ \A k \in ToSet(priqueue_poll(q)) : CompOf(s, jt[q[1]], jt[k]) <= 0
<1> DEFINE r == priqueue_poll(q)
<1>1. DOMAIN r = 1..(Len(q) - 1) /\ \A i \in DOMAIN r : r[i] = q[i + 1]
  BY DEF priqueue_poll
<1>2. \A i \in DOMAIN r : i \in Int /\ 1 <= i /\ i + 1 \in DOMAIN q /\ 1 \in DOMAIN q
  BY <1>1
<1> HIDE DEF r
<1>3. OrderedBy(s, r, jt)
  <2> SUFFICES ASSUME NEW i \in DOMAIN r, NEW k \in DOMAIN r, i < k
               PROVE  CompOf(s, jt[r[i]], jt[r[k]]) <= 0
    BY DEF OrderedBy
  <2>1. i + 1 \in DOMAIN q /\ k + 1 \in DOMAIN q /\ i + 1 < k + 1
    BY <1>2
  <2>2. CompOf(s, jt[q[i + 1]], jt[q[k + 1]]) <= 0
    BY <2>1 DEF OrderedBy
  <2> QED BY <1>1, <2>2
<1>4. \A k \in ToSet(r) : CompOf(s, jt[q[1]], jt[k]) <= 0
  <2> SUFFICES ASSUME NEW i \in DOMAIN r PROVE CompOf(s, jt[q[1]], jt[r[i]]) <= 0
    BY DEF ToSet
  <2>1. 1 \in DOMAIN q /\ i + 1 \in DOMAIN q /\ 1 < i + 1
    BY <1>2
  <2>2. CompOf(s, jt[q[1]], jt[q[i + 1]]) <= 0
    BY <2>1 DEF OrderedBy
  <2> QED BY <1>1, <2>2
<1> QED BY <1>3, <1>4 DEF r
-----------------------------------------------------------------------------
\* The two properties in these words, of a state and of the next one.
LEMMA OrderedMeans ==
  /\ QueueOrdered <=> (the_scheme # "RR" => OrderedBy(the_scheme, job_queue, job))
  /\ QueueOrdered' <=> (the_scheme' # "RR" => OrderedBy(the_scheme', job_queue', job'))
  BY Zenon DEF QueueOrdered, OrderedBy, comp, CompOf

NoneBetterAt(s, q, arr, jt) ==
  \A k \in DOMAIN q, c \in Cores \ {d \in Cores : arr[d] = NoJob} :
    CompOf(s, jt[q[k]], jt[arr[c]]) >= 0

LEMMA NoneBetterSets ==
  ASSUME NEW s, NEW q, NEW arr, NEW jt
  PROVE  NoneBetterAt(s, q, arr, jt) <=>
           NoneBetter(s, ToSet(q), {arr[c] : c \in Cores} \ {NoJob}, jt)
  BY DEF NoneBetterAt, NoneBetter, ToSet

LEMMA NoneBetterMeans ==
  /\ NoBetterJobWaits <=> (the_scheme \in Preempting => NoneBetter(the_scheme, QueueJobs, CoreJobs, job))
  /\ NoBetterJobWaits' <=>
       (the_scheme' \in Preempting => NoneBetter(the_scheme', QueueJobs', CoreJobs', job'))
<1>1. /\ NoBetterJobWaits <=> (the_scheme \in Preempting => NoneBetterAt(the_scheme, job_queue, core_arr, job))
      /\ NoBetterJobWaits' <=>
           (the_scheme' \in Preempting => NoneBetterAt(the_scheme', job_queue', core_arr', job'))
  BY Zenon DEF NoBetterJobWaits, NoneBetterAt, Preemptive, Preempting, IdleCores, comp, CompOf
<1>2. /\ NoneBetterAt(the_scheme, job_queue, core_arr, job) <=>
           NoneBetter(the_scheme, QueueJobs, CoreJobs, job)
      /\ NoneBetterAt(the_scheme', job_queue', core_arr', job') <=>
           NoneBetter(the_scheme', QueueJobs', CoreJobs', job')
  BY NoneBetterSets, Zenon DEF QueueJobs, CoreJobs
<1> QED BY <1>1, <1>2

\* The clock has not gone back since a running job was last charged.
ChargedBefore == \A j \in CoreJobs : job[j].last_runtime <= time

OrderInv == PlacesInv /\ QueueOrdered /\ NoBetterJobWaits /\ ChargedBefore

\* What a step must show of the records and the places it leaves.
LEMMA OrderKept ==
  ASSUME PlacesInv', the_scheme' = the_scheme,
         the_scheme # "RR" => OrderedBy(the_scheme, job_queue', job'),
         the_scheme \in Preempting => NoneBetter(the_scheme, QueueJobs', CoreJobs', job'),
         \A j \in CoreJobs' : job'[j].last_runtime <= time'
  PROVE  OrderInv'
<1>1. QueueOrdered'
  BY OrderedMeans
<1>2. NoBetterJobWaits'
  BY NoneBetterMeans
<1>3. ChargedBefore'
  BY DEF ChargedBefore
<1> QED BY <1>1, <1>2, <1>3 DEF OrderInv

LEMMA SchemeKnown ==
  ASSUME PlacesInv
  PROVE  /\ the_scheme # "RR" => the_scheme \in Ordering
         /\ Preempting \subseteq Ordering /\ "RR" \notin Preempting
  BY SchemesAssumption DEF PlacesInv, TypeOK, scheme_t, Ordering, Preempting

LEMMA OrderInit == SchedInit => OrderInv
<1> SUFFICES ASSUME SchedInit PROVE OrderInv
  OBVIOUS
<1>1. PlacesInv
  BY PlacesInit
<1>2. job_queue = << >> /\ CoreJobs = {} /\ QueueJobs = {}
  BY DEF SchedInit, scheduler_start_up, CoreJobs, QueueJobs, ToSet
<1>3. QueueOrdered
  BY <1>2, OrderedMeans DEF OrderedBy
<1>4. NoBetterJobWaits
  BY <1>2, NoneBetterMeans DEF NoneBetter
<1> QED BY <1>1, <1>2, <1>3, <1>4 DEF OrderInv, ChargedBefore

LEMMA OrderTick == OrderInv /\ (Tick \/ UNCHANGED schedVars) => OrderInv'
<1> SUFFICES ASSUME OrderInv, Tick \/ UNCHANGED schedVars PROVE OrderInv'
  OBVIOUS
<1>1. PlacesInv'
  BY PlacesTick DEF OrderInv
<1>2. /\ UNCHANGED << the_scheme, core_arr, job_queue, job >>
      /\ time' >= time /\ time \in Nat /\ time' \in Nat
  BY DEF Tick, schedVars, OrderInv, PlacesInv, TypeOK
<1>3. CoreJobs' = CoreJobs /\ QueueJobs' = QueueJobs
  BY <1>2 DEF CoreJobs, QueueJobs
<1>4. \A j \in CoreJobs : j \in JobNumbers /\ job[j].last_runtime \in Int
  BY DEF OrderInv, PlacesInv, TypeOK, CoreJobs, job_t
<1>5. \A j \in CoreJobs' : job'[j].last_runtime <= time'
  BY <1>2, <1>3, <1>4 DEF OrderInv, ChargedBefore
<1>6. /\ the_scheme # "RR" => OrderedBy(the_scheme, job_queue', job')
      /\ the_scheme \in Preempting => NoneBetter(the_scheme, QueueJobs', CoreJobs', job')
  BY <1>2, <1>3, OrderedMeans, NoneBetterMeans DEF OrderInv
<1> QED BY <1>1, <1>2, <1>5, <1>6, OrderKept

\* What PollTo does to the records and the queue.
LEMMA PollRecords ==
  ASSUME NEW c \in Cores, NEW q \in Seq(JobNumbers), NEW t \in Nat,
         NEW jt \in [JobNumbers -> job_t], PollTo(c, q, jt, t)
  PROVE  \/ /\ q = << >> /\ job_queue' = << >>
            /\ Assign(c, NoJob) /\ job' = jt
         \/ /\ q # << >> /\ q[1] \in JobNumbers
            /\ Assign(c, q[1]) /\ job_queue' = priqueue_poll(q)
            /\ job'[q[1]].last_runtime = t
            /\ \A k \in JobNumbers : SameKeys(job'[k], jt[k]) /\ (k # q[1] => job'[k] = jt[k])
<1>1. CASE q = << >>
  BY <1>1 DEF PollTo, Assign, priqueue_peek, priqueue_poll
<1>2. CASE q # << >>
  <2>1. priqueue_peek(q, NoJob) = q[1] /\ q[1] \in JobNumbers
    BY <1>2, PollElements
  <2>2. q[1] # NoJob
    BY <2>1, Pointers
  <2>3. /\ Assign(c, q[1]) /\ job_queue' = priqueue_poll(q)
        /\ job' = [jt EXCEPT ![q[1]] = Resumed(jt[q[1]], t)]
    BY <2>1, <2>2 DEF PollTo, Assign
  <2> DEFINE r == Resumed(jt[q[1]], t)
  <2>4. r \in job_t /\ SameKeys(r, jt[q[1]]) /\ r.last_runtime = t
    BY <2>1, ResumedRecord
  <2> HIDE DEF r
  <2>5. job'[q[1]] = r /\ \A k \in JobNumbers : k # q[1] => job'[k] = jt[k]
    BY <2>1, <2>3 DEF r
  <2>6. \A k \in JobNumbers : SameKeys(jt[k], jt[k])
    BY DEF SameKeys
  <2> QED BY <1>2, <2>1, <2>3, <2>4, <2>5, <2>6
<1> QED BY <1>1, <1>2

LEMMA OrderExpired == OrderInv /\ QuantumExpiredCall => OrderInv'
<1> SUFFICES ASSUME OrderInv, QuantumExpiredCall PROVE OrderInv'
  OBVIOUS
<1>1. PlacesInv'
  BY PlacesExpired DEF OrderInv
<1>2. PICK c \in Cores \ IdleCores :
        /\ the_scheme = "RR" /\ the_scheme' = the_scheme /\ time' = time
        /\ PollTo(c, OfferTo(job_queue, core_arr[c], job), job, time)
  BY DEF QuantumExpiredCall, scheduler_quantum_expired
<1> DEFINE q == OfferTo(job_queue, core_arr[c], job)
<1>3. /\ core_arr[c] \in CoreJobs /\ core_arr[c] \in JobNumbers
      /\ job \in [JobNumbers -> job_t] /\ job_queue \in Seq(JobNumbers) /\ time \in Nat
      /\ CoresTyped
  BY DEF OrderInv, PlacesInv, TypeOK, CoreJobs, IdleCores, CoresTyped
<1>4. q \in Seq(JobNumbers) /\ ToSet(q) = QueueJobs \cup {core_arr[c]}
  BY <1>3, OfferToElements DEF QueueJobs
<1>5. OneCoreEach /\ CoreJobs \cap QueueJobs = {}
  BY Places DEF OrderInv, PlacesInv
<1>6. PollTo(c, q, job, time)
  BY <1>2
<1> HIDE DEF q
<1>7. \A j \in CoreJobs' : job'[j].last_runtime <= time'
  <2>1. CASE q = << >>
    <3>1. Assign(c, NoJob) /\ job' = job
      BY <1>3, <1>4, <1>6, <2>1, PollRecords
    <3>2. CoreJobs' \subseteq CoreJobs
      BY <1>3, <1>5, <3>1, AssignNone
    <3> QED BY <1>2, <3>1, <3>2 DEF OrderInv, ChargedBefore
  <2>2. CASE q # << >>
    <3>1. /\ q[1] \in JobNumbers /\ Assign(c, q[1])
          /\ job'[q[1]].last_runtime = time
          /\ \A k \in JobNumbers : k # q[1] => job'[k] = job[k]
      BY <1>3, <1>4, <1>6, <2>2, PollRecords
    <3>2. q[1] \in ToSet(q)
      BY <1>4, <2>2 DEF ToSet
    <3>3. q[1] \notin CoreJobs \/ q[1] = core_arr[c]
      BY <1>4, <1>5, <3>2
    <3>4. CoreJobs' = (CoreJobs \ {core_arr[c]}) \cup {q[1]}
      BY <1>3, <1>5, <3>1, <3>3, AssignJob
    <3>5. CoreJobs \subseteq JobNumbers
      BY <1>3 DEF CoresTyped, CoreJobs
    <3>6. ASSUME NEW j \in CoreJobs' PROVE job'[j].last_runtime <= time'
      <4>1. CASE j = q[1]
        BY <1>2, <1>3, <3>1, <4>1
      <4>2. CASE j # q[1]
        BY <1>2, <3>1, <3>4, <3>5, <4>2 DEF OrderInv, ChargedBefore
      <4> QED BY <4>1, <4>2
    <3> QED BY <3>6
  <2> QED BY <2>1, <2>2
<1> QED BY <1>1, <1>2, <1>7, OrderKept DEF Preempting
-----------------------------------------------------------------------------
\* Serving the head of an ordered queue to a core, with records that keep
\* their keys.
LEMMA ServeHead ==
  ASSUME NEW s \in Ordering, NEW q \in Seq(JobNumbers), q # << >>,
         NEW jt \in [JobNumbers -> job_t], NEW jt2 \in [JobNumbers -> job_t],
         OrderedBy(s, q, jt), NEW R \in SUBSET JobNumbers,
         \A k \in ToSet(q) \cup R : SameKeys(jt2[k], jt[k])
  PROVE  /\ OrderedBy(s, priqueue_poll(q), jt2)
         /\ NoneBetter(s, ToSet(q), R, jt) =>
              NoneBetter(s, ToSet(priqueue_poll(q)), R \cup {q[1]}, jt2)
<1> DEFINE p == priqueue_poll(q)
<1>1. /\ p \in Seq(JobNumbers) /\ ToSet(q) = ToSet(p) \cup {q[1]} /\ q[1] \in JobNumbers
      /\ ToSet(q) \subseteq JobNumbers
  <2>1. p \in Seq(JobNumbers) /\ ToSet(q) = ToSet(p) \cup {q[1]} /\ q[1] \in JobNumbers
    BY PollElements
  <2> QED BY <2>1 DEF ToSet
<1>2. OrderedBy(s, q, jt2)
  BY <1>1, OrderedSameKeys
<1>3. /\ OrderedBy(s, p, jt2)
      /\ \A k \in ToSet(p) : CompOf(s, jt2[q[1]], jt2[k]) <= 0
  BY <1>2, PollOrdered
<1> HIDE DEF p
<1>4. ASSUME NoneBetter(s, ToSet(q), R, jt), NEW w \in ToSet(p), NEW r \in R \cup {q[1]}
      PROVE  CompOf(s, jt2[w], jt2[r]) >= 0
  <2>1. w \in JobNumbers /\ w \in ToSet(q)
    BY <1>1
  <2>2. CASE r = q[1]
    <3>1. /\ CompOf(s, jt2[r], jt2[w]) <= 0
          /\ CompOf(s, jt2[r], jt2[w]) \in Int
          /\ CompOf(s, jt2[w], jt2[r]) = - CompOf(s, jt2[r], jt2[w])
      BY <1>1, <1>3, <2>1, <2>2, CompKeys, CompTotal, ZenonT(60)
    <3> QED BY <3>1
  <2>3. CASE r \in R
    <3>1. CompOf(s, jt[w], jt[r]) >= 0
      BY <1>4, <2>1, <2>3 DEF NoneBetter
    <3>2. CompOf(s, jt2[w], jt2[r]) = CompOf(s, jt[w], jt[r])
      BY <2>1, <2>3, CompSameKeys
    <3> QED BY <3>1, <3>2
  <2> QED BY <2>2, <2>3
<1>5. NoneBetter(s, ToSet(q), R, jt) => NoneBetter(s, ToSet(p), R \cup {q[1]}, jt2)
  BY <1>4 DEF NoneBetter
<1> QED BY <1>3, <1>5 DEF p

LEMMA OrderFinished == OrderInv /\ JobFinishedCall => OrderInv'
<1> SUFFICES ASSUME OrderInv, JobFinishedCall PROVE OrderInv'
  OBVIOUS
<1>1. PlacesInv'
  BY PlacesFinished DEF OrderInv
<1>2. PICK c \in Cores \ IdleCores :
        /\ the_scheme' = the_scheme /\ time' = time
        /\ PollTo(c, job_queue, [job EXCEPT ![core_arr[c]] = WithStats(job[core_arr[c]], time)], time)
  BY DEF JobFinishedCall, scheduler_job_finished
<1> DEFINE j == core_arr[c]
           job1 == [job EXCEPT ![j] = WithStats(job[j], time)]
           n == job_queue[1]
           s == the_scheme
<1>3. /\ j \in CoreJobs /\ j \in JobNumbers
      /\ job \in [JobNumbers -> job_t] /\ job_queue \in Seq(JobNumbers) /\ time \in Nat
      /\ CoresTyped /\ job' \in [JobNumbers -> job_t]
  BY <1>1 DEF OrderInv, PlacesInv, TypeOK, CoreJobs, IdleCores, CoresTyped
<1>4. /\ OneCoreEach /\ CoreJobs \cap QueueJobs = {}
      /\ CoreJobs \subseteq JobNumbers /\ QueueJobs \subseteq JobNumbers
  <2>1. OneCoreEach /\ CoreJobs \cap QueueJobs = {}
    BY Places DEF OrderInv, PlacesInv
  <2>2. CoreJobs \subseteq JobNumbers /\ QueueJobs \subseteq JobNumbers
    BY <1>3 DEF CoreJobs, QueueJobs, CoresTyped, ToSet
  <2> QED BY <2>1, <2>2
<1>5. job1 \in [JobNumbers -> job_t] /\ \A k \in JobNumbers : k # j => job1[k] = job[k]
  BY <1>3, WithStatsRecord
<1>6. PollTo(c, job_queue, job1, time)
  BY <1>2
<1> HIDE DEF job1
<1>7. CASE job_queue = << >>
  <2>1. Assign(c, NoJob) /\ job' = job1 /\ job_queue' = << >>
    BY <1>3, <1>5, <1>6, <1>7, PollRecords
  <2>2. CoreJobs' = CoreJobs \ {j}
    BY <1>3, <1>4, <2>1, AssignNone
  <2>3. \A k \in CoreJobs' : job'[k].last_runtime <= time'
    BY <1>2, <1>4, <1>5, <2>1, <2>2 DEF OrderInv, ChargedBefore
  <2>4. QueueJobs' = {} /\ OrderedBy(s, job_queue', job')
    BY <2>1 DEF QueueJobs, ToSet, OrderedBy
  <2>5. NoneBetter(s, QueueJobs', CoreJobs', job')
    BY <2>4 DEF NoneBetter
  <2> QED BY <1>1, <1>2, <2>3, <2>4, <2>5, OrderKept
<1>8. CASE job_queue # << >>
  <2>1. /\ n \in JobNumbers /\ Assign(c, n) /\ job_queue' = priqueue_poll(job_queue)
        /\ job'[n].last_runtime = time
        /\ \A k \in JobNumbers : SameKeys(job'[k], job1[k]) /\ (k # n => job'[k] = job1[k])
    BY <1>3, <1>5, <1>6, <1>8, PollRecords
  <2>2. n \in QueueJobs
    BY <1>3, <1>8 DEF QueueJobs, ToSet
  <2> HIDE DEF n
  <2>3. CoreJobs' = (CoreJobs \ {j}) \cup {n}
    BY <1>3, <1>4, <2>1, <2>2, AssignJob
  <2>4. \A k \in CoreJobs' : job'[k].last_runtime <= time'
    <3> SUFFICES ASSUME NEW k \in CoreJobs' PROVE job'[k].last_runtime <= time'
      OBVIOUS
    <3>1. CASE k = n
      BY <1>2, <1>3, <2>1, <3>1
    <3>2. CASE k # n
      <4>1. k \in CoreJobs /\ k # j /\ k \in JobNumbers
        BY <1>4, <2>3, <3>2
      <4>2. job'[k] = job[k]
        BY <1>5, <2>1, <3>2, <4>1
      <4> QED BY <1>2, <4>1, <4>2 DEF OrderInv, ChargedBefore
    <3> QED BY <3>1, <3>2
  <2>5. \A k \in QueueJobs \cup (CoreJobs \ {j}) : SameKeys(job'[k], job[k])
    BY <1>3, <1>4, <1>5, <2>1
  <2>6. ASSUME s \in Ordering, OrderedBy(s, job_queue, job)
        PROVE  /\ OrderedBy(s, job_queue', job')
               /\ NoneBetter(s, QueueJobs, CoreJobs \ {j}, job) => NoneBetter(s, QueueJobs', CoreJobs', job')
    <3> DEFINE jt2 == job'
               R == CoreJobs \ {j}
    <3>1. R \in SUBSET JobNumbers /\ jt2 \in [JobNumbers -> job_t]
      BY <1>3, <1>4
    <3>2. \A k \in ToSet(job_queue) \cup R : SameKeys(jt2[k], job[k])
      BY <2>5 DEF QueueJobs
    <3> HIDE DEF jt2, R
    <3>3. /\ OrderedBy(s, priqueue_poll(job_queue), jt2)
          /\ NoneBetter(s, ToSet(job_queue), R, job) =>
               NoneBetter(s, ToSet(priqueue_poll(job_queue)), R \cup {job_queue[1]}, jt2)
      BY <1>3, <1>8, <2>6, <3>1, <3>2, ServeHead
    <3> QED BY <2>1, <2>3, <3>3 DEF jt2, R, n, QueueJobs
  <2>7. /\ s # "RR" => s \in Ordering /\ OrderedBy(s, job_queue, job)
        /\ s \in Preempting => s # "RR" /\ NoneBetter(s, QueueJobs, CoreJobs, job)
    BY SchemeKnown, OrderedMeans, NoneBetterMeans DEF OrderInv
  <2>8. NoneBetter(s, QueueJobs, CoreJobs, job) => NoneBetter(s, QueueJobs, CoreJobs \ {j}, job)
    BY DEF NoneBetter
  <2> QED BY <1>1, <1>2, <2>4, <2>6, <2>7, <2>8, OrderKept
<1> QED BY <1>7, <1>8

\* The records after the charges: of the jobs that wait, that run, and the new one.
LEMMA ChargedRecords ==
  ASSUME PlacesInv, NEW j \in JobNumbers \ arrived, NEW new
  PROVE  LET jt == WithNewJob(j, new, time)
         IN  /\ \A k \in QueueJobs : k \in JobNumbers /\ k # j /\ jt[k] = job[k]
             /\ \A r \in CoreJobs : r \in JobNumbers /\ r # j /\ jt[r] = Charged(job[r], time)
<1>1. /\ CoreJobs \cup QueueJobs \subseteq arrived /\ CoreJobs \cap QueueJobs = {}
      /\ arrived \subseteq JobNumbers
  BY DEF PlacesInv, Conservation, TypeOK
<1> QED BY <1>1 DEF WithNewJob

\* Charging the running jobs lets none of the waiting ones get ahead.
LEMMA ChargesKeepOrder ==
  ASSUME OrderInv, NEW j \in JobNumbers \ arrived, NEW new,
         NEW jt \in [JobNumbers -> job_t], jt = WithNewJob(j, new, time)
  PROVE  /\ the_scheme # "RR" => OrderedBy(the_scheme, job_queue, jt)
         /\ the_scheme \in Preempting => NoneBetter(the_scheme, QueueJobs, CoreJobs, jt)
         /\ \A r \in CoreJobs : jt[r].last_runtime = time
<1>1. /\ job \in [JobNumbers -> job_t] /\ job_queue \in Seq(JobNumbers) /\ time \in Nat
      /\ ChargedBefore
  BY DEF OrderInv, PlacesInv, TypeOK
<1>2. /\ \A k \in QueueJobs : k \in JobNumbers /\ jt[k] = job[k]
      /\ \A r \in CoreJobs : r \in JobNumbers /\ jt[r] = Charged(job[r], time)
  BY ChargedRecords DEF OrderInv
<1>3. the_scheme # "RR" => OrderedBy(the_scheme, job_queue, jt)
  <2>1. \A i \in DOMAIN job_queue : job_queue[i] \in QueueJobs
    BY DEF QueueJobs, ToSet
  <2> QED BY <1>2, <2>1, OrderedMeans DEF OrderInv, OrderedBy
<1>4. ASSUME the_scheme \in Preempting, NEW w \in QueueJobs, NEW r \in CoreJobs
      PROVE  CompOf(the_scheme, jt[w], jt[r]) >= 0
  <2>1. the_scheme \in Ordering
    BY <1>4, SchemeKnown DEF OrderInv
  <2>2. CompOf(the_scheme, job[w], job[r]) >= 0
    BY <1>4, NoneBetterMeans DEF OrderInv, NoneBetter
  <2>3. job[w] \in job_t /\ job[r] \in job_t /\ job[r].last_runtime <= time
    BY <1>1, <1>2 DEF ChargedBefore
  <2>4. CompOf(the_scheme, job[w], Charged(job[r], time)) >= 0
    BY <1>1, <2>1, <2>2, <2>3, CompCharged
  <2> QED BY <1>2, <2>4
<1>5. \A r \in CoreJobs : jt[r].last_runtime = time
  BY <1>1, <1>2, ChargedRecord
<1> QED BY <1>3, <1>4, <1>5 DEF NoneBetter

\* A job that is offered to the queue, with records that keep their keys.
LEMMA OfferedIsOrdered ==
  ASSUME PlacesInv, the_scheme # "RR", NEW j \in JobNumbers,
         NEW jt \in [JobNumbers -> job_t], NEW jt2 \in [JobNumbers -> job_t],
         OrderedBy(the_scheme, job_queue, jt), \A k \in QueueJobs : SameKeys(jt2[k], jt[k])
  PROVE  /\ OrderedBy(the_scheme, OfferTo(job_queue, j, jt2), jt2)
         /\ ToSet(OfferTo(job_queue, j, jt2)) = QueueJobs \cup {j}
<1>1. the_scheme \in Ordering /\ job_queue \in Seq(JobNumbers)
  BY SchemeKnown DEF PlacesInv, TypeOK
<1>2. OrderedBy(the_scheme, job_queue, jt2)
  BY <1>1, OrderedSameKeys DEF QueueJobs
<1>3. OfferTo(job_queue, j, jt2) =
        priqueue_offer(job_queue, j, {i \in DOMAIN job_queue : CompOf(the_scheme, jt2[j], jt2[job_queue[i]]) <= 0})
  BY Zenon DEF OfferTo, comp, CompOf
<1>4. OrderedBy(the_scheme, OfferTo(job_queue, j, jt2), jt2)
  BY <1>1, <1>2, <1>3, OfferKeepsOrdered
<1>5. ToSet(OfferTo(job_queue, j, jt2)) = QueueJobs \cup {j}
  BY <1>1, OfferToElements DEF QueueJobs
<1> QED BY <1>4, <1>5

LEMMA CompIs == \A a, b : comp(a, b) = CompOf(the_scheme, a, b)
  BY Zenon DEF comp, CompOf

\* A new job on an idle core: nothing waits.
LEMMA OrderIdle ==
  ASSUME OrderInv, PlacesInv', the_scheme' = the_scheme, time' = time,
         NEW j \in JobNumbers \ arrived, NEW new,
         NEW jt \in [JobNumbers -> job_t], jt = WithNewJob(j, new, time),
         TakeIdleCore(j, jt, time)
  PROVE  OrderInv'
<1>1. PICK c \in IdleCores :
        /\ Assign(c, j) /\ job' = [jt EXCEPT ![j] = Started(jt[j], time)]
        /\ job_queue' = job_queue
  BY DEF TakeIdleCore, Assign
<1>2. job_queue' = << >> /\ QueueJobs' = {}
  BY <1>1 DEF OrderInv, PlacesInv, WorkConserving, QueueJobs, ToSet
<1>3. /\ CoresTyped /\ OneCoreEach /\ j \notin CoreJobs /\ c \in Cores /\ core_arr[c] = NoJob
      /\ CoreJobs \subseteq JobNumbers /\ time \in Nat
  <2>1. CoresTyped /\ OneCoreEach /\ j \notin CoreJobs /\ time \in Nat
    BY Places DEF OrderInv, PlacesInv, TypeOK, CoresTyped
  <2> QED BY <1>1, <2>1 DEF IdleCores, CoresTyped, CoreJobs
<1>4. CoreJobs' = (CoreJobs \ {core_arr[c]}) \cup {j}
  BY <1>1, <1>3, AssignJob
<1> DEFINE r == Started(jt[j], time)
<1>5. r.last_runtime = time
  BY <1>3, StartedRecord
<1> HIDE DEF r
<1>6. job'[j] = r /\ \A k \in JobNumbers : k # j => job'[k] = jt[k]
  BY <1>1 DEF r
<1>7. \A k \in CoreJobs' : job'[k].last_runtime = time
  BY <1>3, <1>4, <1>5, <1>6, ChargesKeepOrder
<1>8. \A k \in CoreJobs' : job'[k].last_runtime <= time'
  BY <1>3, <1>7
<1> QED BY <1>2, <1>8, OrderKept DEF OrderedBy, NoneBetter

\* A new job that has to wait: every running job precedes it.
LEMMA OrderEnqueue ==
  ASSUME OrderInv, PlacesInv', the_scheme' = the_scheme, time' = time,
         NEW j \in JobNumbers \ arrived, NEW new,
         NEW jt \in [JobNumbers -> job_t], jt = WithNewJob(j, new, time),
         Enqueue(j, jt)
  PROVE  OrderInv'
<1>1. /\ job_queue' = OfferTo(job_queue, j, jt) /\ job' = jt /\ core_arr' = core_arr
      /\ Preemptive => Beaten(j, jt) = {}
  BY DEF Enqueue
<1>2. CoreJobs' = CoreJobs /\ time \in Nat
  BY <1>1 DEF CoreJobs, OrderInv, PlacesInv, TypeOK
<1>3. /\ the_scheme # "RR" => OrderedBy(the_scheme, job_queue, jt)
      /\ the_scheme \in Preempting => NoneBetter(the_scheme, QueueJobs, CoreJobs, jt)
      /\ \A r \in CoreJobs : jt[r].last_runtime = time
  BY ChargesKeepOrder
<1>4. \A k \in QueueJobs : SameKeys(jt[k], jt[k])
  BY DEF SameKeys
<1>5. the_scheme # "RR" =>
        OrderedBy(the_scheme, job_queue', jt) /\ QueueJobs' = QueueJobs \cup {j}
  BY <1>1, <1>3, <1>4, OfferedIsOrdered DEF OrderInv, QueueJobs
<1>6. ASSUME the_scheme \in Preempting, NEW r \in CoreJobs
      PROVE  CompOf(the_scheme, jt[j], jt[r]) >= 0
  <2>1. PICK c \in Cores : r = core_arr[c]
    BY DEF CoreJobs
  <2>2. ~ (CompOf(the_scheme, jt[j], jt[r]) < 0)
    BY <1>1, <1>6, <2>1, CompIs DEF Preemptive, Preempting, Beaten
  <2>3. the_scheme \in Ordering /\ r \in JobNumbers
    BY <1>6, SchemeKnown, ChargedRecords DEF OrderInv
  <2>4. CompOf(the_scheme, jt[j], jt[r]) \in Int
    BY <2>3, CompKeys
  <2> QED BY <2>2, <2>4
<1>7. the_scheme \in Preempting => NoneBetter(the_scheme, QueueJobs', CoreJobs', job')
  BY <1>1, <1>2, <1>3, <1>5, <1>6, SchemeKnown DEF OrderInv, NoneBetter
<1>8. \A k \in CoreJobs' : job'[k].last_runtime <= time'
  BY <1>1, <1>2, <1>3
<1> QED BY <1>1, <1>5, <1>7, <1>8, OrderKept

\* A new job that preempts the worst of those it precedes: all that run
\* precede that one.
LEMMA OrderPreempt ==
  ASSUME OrderInv, PlacesInv', the_scheme' = the_scheme, time' = time,
         NEW j \in JobNumbers \ arrived, NEW new,
         NEW jt \in [JobNumbers -> job_t], jt = WithNewJob(j, new, time),
         PreemptWorst(j, jt, time)
  PROVE  OrderInv'
<1> DEFINE s == the_scheme
<1>1. PICK c \in Cores :
        LET jt2 == [jt EXCEPT ![core_arr[c]] = Unstarted(jt[core_arr[c]], time),
                              ![j] = Started(jt[j], time)]
        IN  /\ IdleCores = {} /\ Preemptive /\ IsWorst(c, j, jt)
            /\ core_arr' = [core_arr EXCEPT ![c] = j]
            /\ job' = jt2 /\ job_queue' = OfferTo(job_queue, core_arr[c], jt2)
  BY DEF PreemptWorst
<1> DEFINE w == core_arr[c]
           a == Unstarted(jt[w], time)
           b == Started(jt[j], time)
           jt1 == [jt EXCEPT ![w] = a]
           jt2 == [jt1 EXCEPT ![j] = b]
<1>2. /\ s \in Preempting /\ s \in Ordering /\ s # "RR"
      /\ time \in Nat
  BY <1>1, SchemeKnown DEF Preemptive, Preempting, OrderInv, PlacesInv, TypeOK
<1>3. /\ CoresTyped /\ OneCoreEach /\ CoreJobs \cap QueueJobs = {} /\ j \notin CoreJobs
      /\ job_queue \in Seq(JobNumbers)
  BY Places DEF OrderInv, PlacesInv, TypeOK, CoresTyped
<1>4. w \in CoreJobs /\ \A d \in Cores : core_arr[d] \in CoreJobs
  BY <1>1, <1>3 DEF IdleCores, CoreJobs
<1>5. /\ \A k \in QueueJobs : k \in JobNumbers /\ k # j
      /\ \A r \in CoreJobs : r \in JobNumbers /\ r # j
  BY ChargedRecords DEF OrderInv
<1>6. a \in job_t /\ SameKeys(a, jt[w])
  BY <1>2, <1>4, <1>5, UnstartedRecord
<1>7. b \in job_t /\ SameKeys(b, jt[j]) /\ b.last_runtime = time
  BY <1>2, StartedRecord
<1>8. job' = jt2 /\ job_queue' = OfferTo(job_queue, w, jt2) /\ Assign(c, j)
  BY <1>1 DEF Assign
<1> HIDE DEF a, b
<1>9. /\ jt2 \in [JobNumbers -> job_t]
      /\ \A k \in JobNumbers : k # w /\ k # j => jt2[k] = jt[k]
      /\ jt2[j] = b /\ jt2[w] = a
  BY <1>4, <1>5, <1>6, <1>7
<1> HIDE DEF jt2
<1>10. \A k \in JobNumbers : SameKeys(jt2[k], jt[k])
  <2>1. \A k \in JobNumbers : SameKeys(jt[k], jt[k])
    BY DEF SameKeys
  <2> QED BY <1>6, <1>7, <1>9, <2>1
<1>11. CoreJobs' = (CoreJobs \ {w}) \cup {j}
  BY <1>3, <1>8, AssignJob
<1>12. /\ OrderedBy(s, job_queue, jt) /\ NoneBetter(s, QueueJobs, CoreJobs, jt)
       /\ \A r \in CoreJobs : jt[r].last_runtime = time
  BY <1>2, ChargesKeepOrder
<1>13. OrderedBy(s, job_queue', job') /\ QueueJobs' = QueueJobs \cup {w}
  BY <1>2, <1>4, <1>5, <1>8, <1>9, <1>10, <1>12, OfferedIsOrdered DEF OrderInv, QueueJobs
<1>14. CompOf(s, jt[j], jt[w]) < 0
  BY <1>1, CompIs DEF IsWorst, Beaten
<1>15. ASSUME NEW r \in CoreJobs PROVE CompOf(s, jt[r], jt[w]) <= 0
  <2>1. PICK d \in Cores : r = core_arr[d]
    BY DEF CoreJobs
  <2>2. /\ jt[r] \in job_t /\ jt[w] \in job_t /\ jt[j] \in job_t
    BY <1>4, <1>5
  <2>3. CASE CompOf(s, jt[j], jt[r]) < 0
    <3>1. CompOf(s, jt[w], jt[r]) >= 0
      BY <1>1, <2>1, <2>3, CompIs DEF IsWorst, Beaten
    <3>2. CompOf(s, jt[r], jt[w]) = - CompOf(s, jt[w], jt[r]) /\ CompOf(s, jt[w], jt[r]) \in Int
      BY <1>2, <2>2, CompTotal, CompKeys
    <3> QED BY <3>1, <3>2
  <2>4. CASE ~ (CompOf(s, jt[j], jt[r]) < 0)
    <3>1. CompOf(s, jt[r], jt[j]) = - CompOf(s, jt[j], jt[r]) /\ CompOf(s, jt[j], jt[r]) \in Int
      BY <1>2, <2>2, CompTotal, CompKeys
    <3>2. CompOf(s, jt[r], jt[j]) <= 0
      BY <2>4, <3>1
    <3>3. CompOf(s, jt[j], jt[w]) \in Int
      BY <1>2, <2>2, CompKeys
    <3>4. CompOf(s, jt[j], jt[w]) <= 0
      BY <1>14, <3>3
    <3> QED BY <1>2, <2>2, <3>2, <3>4, CompTransitive
  <2> QED BY <2>3, <2>4
<1>16. ASSUME NEW k \in QueueJobs \cup {w}, NEW r \in (CoreJobs \ {w}) \cup {j}
       PROVE  CompOf(s, jt2[k], jt2[r]) >= 0
  <2>1. k \in JobNumbers /\ r \in JobNumbers /\ w \in JobNumbers
    BY <1>4, <1>5
  <2>2. /\ CompOf(s, jt2[k], jt2[r]) = CompOf(s, jt[k], jt[r])
        /\ CompOf(s, jt[k], jt[r]) = - CompOf(s, jt[r], jt[k]) /\ CompOf(s, jt[r], jt[k]) \in Int
        /\ CompOf(s, jt[j], jt[w]) \in Int
    BY <1>2, <1>9, <1>10, <2>1, CompSameKeys, CompTotal, CompKeys
  <2>3. CompOf(s, jt[r], jt[w]) <= 0
    BY <1>14, <1>15, <2>2
  <2>4. CompOf(s, jt[w], jt[k]) <= 0
    <3>1. CASE k = w
      <4>1. CompOf(s, jt[w], jt[w]) = - CompOf(s, jt[w], jt[w]) /\ CompOf(s, jt[w], jt[w]) \in Int
        BY <1>2, <2>1, CompTotal, CompKeys
      <4> QED BY <3>1, <4>1
    <3>2. CASE k \in QueueJobs
      <4>1. CompOf(s, jt[k], jt[w]) >= 0
        BY <1>4, <1>12, <3>2 DEF NoneBetter
      <4>2. CompOf(s, jt[w], jt[k]) = - CompOf(s, jt[k], jt[w]) /\ CompOf(s, jt[k], jt[w]) \in Int
        BY <1>2, <2>1, CompTotal, CompKeys
      <4> QED BY <4>1, <4>2
    <3> QED BY <3>1, <3>2
  <2>5. CompOf(s, jt[r], jt[k]) <= 0
    BY <1>2, <2>1, <2>3, <2>4, CompTransitive
  <2> QED BY <2>2, <2>5
<1>17. NoneBetter(s, QueueJobs', CoreJobs', job')
  BY <1>8, <1>11, <1>13, <1>16 DEF NoneBetter
<1>18. \A k \in CoreJobs' : job'[k].last_runtime <= time'
  <2>1. \A k \in CoreJobs' : job'[k].last_runtime = time
    BY <1>5, <1>7, <1>8, <1>9, <1>11, <1>12
  <2> QED BY <1>2, <2>1
<1> QED BY <1>13, <1>17, <1>18, OrderKept

LEMMA OrderNewJob == OrderInv /\ NewJobCall => OrderInv'
<1> SUFFICES ASSUME OrderInv, NewJobCall PROVE OrderInv'
  OBVIOUS
<1>1. PlacesInv'
  BY PlacesNewJob DEF OrderInv
<1>2. PICK j \in JobNumbers \ arrived, k \in Kinds :
        scheduler_new_job(j, time, k.running_time, k.priority) /\ time' = time
  BY DEF NewJobCall
<1> DEFINE new == NewJob(time, k.running_time, k.priority)
           jt == WithNewJob(j, new, time)
<1>3. k.running_time \in Nat \ {0} /\ k.priority \in Int
  BY KindsAssumption
<1>4. jt \in [JobNumbers -> job_t]
  BY <1>3, WithNewJobRecords DEF OrderInv, PlacesInv
<1>5. /\ TakeIdleCore(j, jt, time) \/ PreemptWorst(j, jt, time) \/ Enqueue(j, jt)
      /\ the_scheme' = the_scheme
  BY <1>2 DEF scheduler_new_job
<1> HIDE DEF new
<1>6. jt = WithNewJob(j, new, time)
  OBVIOUS
<1> HIDE DEF jt
<1> QED BY <1>1, <1>2, <1>4, <1>5, <1>6, OrderIdle, OrderEnqueue, OrderPreempt
-----------------------------------------------------------------------------
(* The waiting jobs are in the order of the scheme, none of them precedes  *)
(* a running one in PSJF and PPRI, and all charges of libscheduler are of  *)
(* times that have passed: inductive together with the places of the jobs. *)
THEOREM OrderInvariant == SchedSpec => []OrderInv
<1>1. SchedInit => OrderInv
  BY OrderInit
<1>2. OrderInv /\ [SchedNext]_schedVars => OrderInv'
  BY OrderNewJob, OrderFinished, OrderExpired, OrderTick DEF SchedNext
<1> QED BY <1>1, <1>2, PTL DEF SchedSpec

(* The order of job_queue is kept although the keys of running jobs change. *)
THEOREM QueueKeepsOrder == SchedSpec => []QueueOrdered
<1>1. OrderInv => QueueOrdered
  BY DEF OrderInv
<1> QED BY <1>1, OrderInvariant, PTL

(* Whoever is preempted was the worst, and whoever is resumed the best.    *)
THEOREM PreemptsTheWorst == SchedSpec => []NoBetterJobWaits
<1>1. OrderInv => NoBetterJobWaits
  BY DEF OrderInv
<1> QED BY <1>1, OrderInvariant, PTL
-----------------------------------------------------------------------------
\* In RR a job is offered behind all others.
LEMMA RoundRobinAppends ==
  ASSUME the_scheme = "RR", NEW q \in Seq(JobNumbers), NEW j \in JobNumbers, NEW jt
  PROVE  LET r == OfferTo(q, j, jt)
         IN  /\ r \in Seq(JobNumbers) /\ Len(r) = Len(q) + 1 /\ r[Len(r)] = j
             /\ \A k \in 1..Len(q) : r[k] = q[k]
<1> DEFINE stops == {i \in DOMAIN q : comp(jt[j], jt[q[i]]) <= 0}
           r == priqueue_offer(q, j, stops)
<1>1. \A a, b : comp(a, b) = 1
  BY Zenon DEF comp, comp_RR
<1>2. stops = {}
  BY <1>1
<1> HIDE DEF stops
<1>3. OfferPosition(q, stops) = Len(q) + 1
  BY <1>2 DEF OfferPosition
<1>4. /\ r \in Seq(JobNumbers) /\ Len(r) = Len(q) + 1
      /\ \A k \in 1..(Len(q) + 1) :
           r[k] = IF k < OfferPosition(q, stops) THEN q[k]
                  ELSE IF k = OfferPosition(q, stops) THEN j ELSE q[k - 1]
  BY <1>2, OfferElements
<1>5. Len(q) \in Nat
  OBVIOUS
<1> HIDE DEF r
<1>6. r[Len(q) + 1] = j /\ \A k \in 1..Len(q) : r[k] = q[k]
  BY <1>3, <1>4, <1>5
<1> QED BY <1>4, <1>6 DEF OfferTo, r, stops

\* Appending a job overtakes nobody.
LEMMA AppendOvertakesNobody ==
  ASSUME NEW S, NEW q \in Seq(S), NEW r \in Seq(S), NEW j,
         Len(r) = Len(q) + 1, r[Len(r)] = j, \A k \in 1..Len(q) : r[k] = q[k],
         NEW a, NEW b, a # j, InFrontOf(b, a, r)
  PROVE  InFrontOf(b, a, q)
<1>1. PICK i \in DOMAIN r, k \in DOMAIN r : i < k /\ r[i] = b /\ r[k] = a
  BY DEF InFrontOf
<1>2. k # Len(r) /\ Len(q) \in Nat /\ DOMAIN r = 1..Len(r) /\ DOMAIN q = 1..Len(q)
  BY <1>1
<1>3. k \in 1..Len(q) /\ i \in 1..Len(q)
  BY <1>1, <1>2
<1>4. r[i] = q[i] /\ r[k] = q[k]
  BY <1>3
<1> QED BY <1>1, <1>2, <1>3, <1>4 DEF InFrontOf

\* Neither does taking the head, which is in front of all that stay.
LEMMA PollOvertakesNobody ==
  ASSUME NEW S, NEW q \in Seq(S), q # << >>, NEW a \in ToSet(priqueue_poll(q)), NEW b
  PROVE  /\ InFrontOf(b, a, priqueue_poll(q)) => InFrontOf(b, a, q)
         /\ InFrontOf(q[1], a, q)
<1> DEFINE r == priqueue_poll(q)
<1>1. DOMAIN r = 1..(Len(q) - 1) /\ \A i \in DOMAIN r : r[i] = q[i + 1]
  BY DEF priqueue_poll
<1>2. \A i \in DOMAIN r : i \in Int /\ 1 <= i /\ i + 1 \in DOMAIN q /\ 1 \in DOMAIN q
  BY <1>1
<1> HIDE DEF r
<1>3. ASSUME InFrontOf(b, a, r) PROVE InFrontOf(b, a, q)
  <2>1. PICK i \in DOMAIN r, k \in DOMAIN r : i < k /\ r[i] = b /\ r[k] = a
    BY <1>3 DEF InFrontOf
  <2>2. i + 1 \in DOMAIN q /\ k + 1 \in DOMAIN q /\ i + 1 < k + 1
    BY <1>2, <2>1
  <2>3. q[i + 1] = b /\ q[k + 1] = a
    BY <1>1, <2>1
  <2> QED BY <2>2, <2>3 DEF InFrontOf
<1>4. InFrontOf(q[1], a, q)
  <2>1. PICK i \in DOMAIN r : r[i] = a
    BY DEF ToSet, r
  <2>2. 1 \in DOMAIN q /\ i + 1 \in DOMAIN q /\ 1 < i + 1 /\ q[i + 1] = a
    BY <1>1, <1>2, <2>1
  <2> QED BY <2>2 DEF InFrontOf
<1> QED BY <1>3, <1>4 DEF r

NotOvertaken(a, b) ==
  a # b /\ ~ InFrontOf(b, a, job_queue) =>
    /\ ~ InFrontOf(b, a, job_queue')
    /\ b \in CoreJobs' => b \in CoreJobs

LEMMA CycleNewJob ==
  ASSUME PlacesInv, NewJobCall, the_scheme = "RR", NEW a \in QueueJobs, NEW b
  PROVE  NotOvertaken(a, b)
<1>1. PICK j \in JobNumbers \ arrived, k \in Kinds :
        scheduler_new_job(j, time, k.running_time, k.priority)
  BY DEF NewJobCall
<1> DEFINE jt == WithNewJob(j, NewJob(time, k.running_time, k.priority), time)
<1>2. job_queue \in Seq(JobNumbers) /\ IdleCores = {} /\ a # j
  <2>1. job_queue # << >>
    BY DEF QueueJobs, ToSet
  <2> QED BY <2>1 DEF PlacesInv, TypeOK, WorkConserving, Conservation
<1>3. ~ Preemptive
  BY DEF Preemptive
<1>4. Enqueue(j, jt)
  BY <1>1, <1>2, <1>3 DEF scheduler_new_job, TakeIdleCore, PreemptWorst
<1> HIDE DEF jt
<1>5. job_queue' = OfferTo(job_queue, j, jt) /\ core_arr' = core_arr
  BY <1>4 DEF Enqueue
<1> DEFINE r == OfferTo(job_queue, j, jt)
<1>6. /\ r \in Seq(JobNumbers) /\ Len(r) = Len(job_queue) + 1 /\ r[Len(r)] = j
      /\ \A i \in 1..Len(job_queue) : r[i] = job_queue[i]
  BY <1>2, RoundRobinAppends
<1> HIDE DEF r
<1>7. InFrontOf(b, a, r) => InFrontOf(b, a, job_queue)
  BY <1>2, <1>6, AppendOvertakesNobody
<1>8. CoreJobs' = CoreJobs
  BY <1>5 DEF CoreJobs
<1> QED BY <1>5, <1>7, <1>8 DEF NotOvertaken, r, InFrontOf

\* Serving the head of a queue in which nobody has overtaken a.
LEMMA CyclePoll ==
  ASSUME TypeOK, NEW c \in Cores, NEW q \in Seq(JobNumbers), q # << >>, NEW jt,
         PollTo(c, q, jt, time), NEW a \in QueueJobs', NEW b,
         InFrontOf(b, a, q) => InFrontOf(b, a, job_queue)
  PROVE  NotOvertaken(a, b)
<1>1. /\ core_arr' = [core_arr EXCEPT ![c] = q[1]]
      /\ job_queue' = priqueue_poll(q)
  BY DEF PollTo, priqueue_peek
<1>2. a \in ToSet(priqueue_poll(q))
  BY <1>1 DEF QueueJobs
<1>3. /\ InFrontOf(b, a, priqueue_poll(q)) => InFrontOf(b, a, q)
      /\ InFrontOf(q[1], a, q)
  BY <1>2, PollOvertakesNobody
<1>4. CoreJobs' \subseteq CoreJobs \cup {q[1]}
  BY <1>1 DEF CoreJobs, TypeOK
<1>5. InFrontOf(b, a, job_queue') => InFrontOf(b, a, job_queue)
  BY <1>1, <1>3
<1>6. b = q[1] => InFrontOf(b, a, job_queue)
  BY <1>3
<1> QED BY <1>4, <1>5, <1>6 DEF NotOvertaken

LEMMA CycleFinished ==
  ASSUME PlacesInv, JobFinishedCall, NEW a \in QueueJobs \cap QueueJobs', NEW b
  PROVE  NotOvertaken(a, b)
<1>1. PICK c \in Cores \ IdleCores :
        PollTo(c, job_queue, [job EXCEPT ![core_arr[c]] = WithStats(job[core_arr[c]], time)], time)
  BY DEF JobFinishedCall, scheduler_job_finished
<1>2. TypeOK /\ job_queue \in Seq(JobNumbers) /\ job_queue # << >>
  BY DEF PlacesInv, TypeOK, QueueJobs, ToSet
<1> QED BY <1>1, <1>2, CyclePoll

LEMMA CycleExpired ==
  ASSUME PlacesInv, QuantumExpiredCall, NEW a \in QueueJobs \cap QueueJobs', NEW b
  PROVE  NotOvertaken(a, b)
<1>1. PICK c \in Cores \ IdleCores :
        /\ the_scheme = "RR"
        /\ PollTo(c, OfferTo(job_queue, core_arr[c], job), job, time)
  BY DEF QuantumExpiredCall, scheduler_quantum_expired
<1> DEFINE j == core_arr[c]
           q == OfferTo(job_queue, j, job)
<1>2. /\ TypeOK /\ job_queue \in Seq(JobNumbers)
      /\ j \in CoreJobs /\ j \in JobNumbers /\ CoreJobs \cap QueueJobs = {}
  <2>1. TypeOK /\ CoreJobs \cap QueueJobs = {}
    BY DEF PlacesInv, Conservation
  <2> QED BY <2>1 DEF TypeOK, CoreJobs, IdleCores
<1>3. /\ q \in Seq(JobNumbers) /\ Len(q) = Len(job_queue) + 1 /\ q[Len(q)] = j
      /\ \A k \in 1..Len(job_queue) : q[k] = job_queue[k]
  BY <1>1, <1>2, RoundRobinAppends
<1>4. PollTo(c, q, job, time)
  BY <1>1
<1>5. a # j
  BY <1>2
<1> HIDE DEF q, j
<1>6. InFrontOf(b, a, q) => InFrontOf(b, a, job_queue)
  BY <1>2, <1>3, <1>5, AppendOvertakesNobody
<1>7. q # << >>
  BY <1>2, <1>3
<1> QED BY <1>2, <1>3, <1>4, <1>6, <1>7, CyclePoll

LEMMA CycleTick ==
  ASSUME Tick \/ UNCHANGED schedVars, NEW a, NEW b
  PROVE  NotOvertaken(a, b)
<1>1. job_queue' = job_queue /\ core_arr' = core_arr
  BY DEF Tick, schedVars
<1> QED BY <1>1 DEF NotOvertaken, CoreJobs

(* In RR a waiting job is overtaken by nobody, however many jobs arrive,   *)
(* finish or use up their quantum: what is put into job_queue goes to its  *)
(* end and what leaves it was in front of all the others.                  *)
THEOREM NobodyIsOvertaken == SchedSpec => RoundRobinCycle
<1> DEFINE Cycle ==
      the_scheme = "RR" =>
        \A a \in QueueJobs \cap QueueJobs', b \in JobNumbers :
          a # b /\ ~ InFrontOf(b, a, job_queue) =>
            /\ ~ InFrontOf(b, a, job_queue')
            /\ b \in CoreJobs' => b \in CoreJobs
<1>1. PlacesInv /\ [SchedNext]_schedVars => Cycle
  <2> SUFFICES ASSUME PlacesInv, [SchedNext]_schedVars, the_scheme = "RR",
                      NEW a \in QueueJobs \cap QueueJobs', NEW b \in JobNumbers
               PROVE  NotOvertaken(a, b)
    BY DEF NotOvertaken
  <2>1. CASE NewJobCall
    BY <2>1, CycleNewJob
  <2>2. CASE JobFinishedCall
    BY <2>2, CycleFinished
  <2>3. CASE QuantumExpiredCall
    BY <2>3, CycleExpired
  <2>4. CASE Tick \/ UNCHANGED schedVars
    BY <2>4, CycleTick
  <2> QED BY <2>1, <2>2, <2>3, <2>4 DEF SchedNext
<1> QED BY <1>1, PlacesInvariant, PTL DEF SchedSpec, RoundRobinCycle
-----------------------------------------------------------------------------
\* An element of the array jobs.
simulator_job_t == [job_id : JobNumbers, arrival_time : Int, run_time : Nat,
                    priority : Int, core_id : Cores \cup {-1}, arrived : BOOLEAN]

\* What is left of the job: r.run_time to the simulator, and to the library
\* what its record b tells at time t.
LeftAgrees(s, r, b, t) ==
  s # "RR" =>
    b.remaining_time = r.run_time + IF r.core_id = -1 THEN 0 ELSE t - b.last_runtime

Kind(r) == [running_time |-> r.run_time, priority |-> r.priority]

\* The element r against the library: the cores `on', the waiting jobs W, the
\* jobs announced A and the records jt.
Agrees(r, s, on, W, A, jt, t) ==
  /\ IF r.core_id = -1 THEN \A c \in Cores : on[c] # r.job_id
                       ELSE on[r.core_id] = r.job_id /\ r.job_id \notin W
  /\ r.arrived <=> (r.core_id # -1 \/ r.job_id \in W)
  /\ r.arrived => LeftAgrees(s, r, jt[r.job_id], t)
  /\ ~ r.arrived => r.job_id \notin A /\ Kind(r) \in Kinds
  /\ r.run_time = 0 => r.core_id # -1

IdsDiffer(js) == \A i, k \in DOMAIN js : js[i].job_id = js[k].job_id => i = k
Known(js, j) == \E i \in DOMAIN js : js[i].job_id = j

AllAgree(js, s, on, W, A, jt, t) ==
  /\ js \in Seq(simulator_job_t)
  /\ IdsDiffer(js)
  /\ \A i \in DOMAIN js : Agrees(js[i], s, on, W, A, jt, t)
  /\ \A j \in W : Known(js, j)
  /\ \A c \in Cores : on[c] # NoJob => Known(js, on[c])
-----------------------------------------------------------------------------
\* How the two counts of what is left follow each other.
LEMMA LeftResumed ==
  ASSUME NEW s, NEW t \in Nat, NEW r \in simulator_job_t, NEW b \in job_t, NEW c \in Cores,
         r.core_id = -1, LeftAgrees(s, r, b, t)
  PROVE  LeftAgrees(s, [r EXCEPT !.core_id = c], Resumed(b, t), t)
<1>1. Resumed(b, t).remaining_time = b.remaining_time /\ Resumed(b, t).last_runtime = t
  BY ResumedRecord DEF SameKeys
<1>2. c # -1
  BY Pointers DEF NoJob
<1> DEFINE q == [r EXCEPT !.core_id = c]
<1>3. q.core_id = c /\ q.run_time = r.run_time /\ r.run_time \in Nat
  BY DEF simulator_job_t
<1> HIDE DEF q
<1>4. LeftAgrees(s, q, Resumed(b, t), t)
  BY <1>1, <1>2, <1>3 DEF LeftAgrees
<1> QED BY <1>4 DEF q

LEMMA LeftStarted ==
  ASSUME NEW s, NEW t \in Nat, NEW r \in simulator_job_t, NEW b \in job_t, NEW c \in Cores \cup {-1},
         b.remaining_time = r.run_time
  PROVE  LET q == [r EXCEPT !.arrived = TRUE, !.core_id = c]
         IN  IF c = -1 THEN LeftAgrees(s, q, b, t) ELSE LeftAgrees(s, q, Started(b, t), t)
<1>1. Started(b, t).remaining_time = b.remaining_time /\ Started(b, t).last_runtime = t
  BY StartedRecord DEF SameKeys
<1> DEFINE q == [r EXCEPT !.arrived = TRUE, !.core_id = c]
<1>2. q.core_id = c /\ q.run_time = r.run_time /\ r.run_time \in Nat
  BY DEF simulator_job_t
<1> HIDE DEF q
<1>3. IF c = -1 THEN LeftAgrees(s, q, b, t) ELSE LeftAgrees(s, q, Started(b, t), t)
  BY <1>1, <1>2 DEF LeftAgrees
<1> QED BY <1>3 DEF q

LEMMA LeftCharged ==
  ASSUME NEW s, NEW t \in Nat, NEW r \in simulator_job_t, NEW b \in job_t,
         r.core_id # -1, LeftAgrees(s, r, b, t)
  PROVE  /\ LeftAgrees(s, r, Charged(b, t), t)
         /\ LeftAgrees(s, [r EXCEPT !.core_id = -1], Unstarted(Charged(b, t), t), t)
<1> DEFINE a == Charged(b, t)
           u == Unstarted(a, t)
           q == [r EXCEPT !.core_id = -1]
<1>1. a \in job_t /\ a.last_runtime = t /\ a.remaining_time = b.remaining_time - (t - b.last_runtime)
  BY ChargedRecord
<1>2. u.remaining_time = a.remaining_time
  BY <1>1, UnstartedRecord DEF SameKeys
<1>3. q.core_id = -1 /\ q.run_time = r.run_time /\ r.run_time \in Nat
  BY DEF simulator_job_t
<1>4. b.last_runtime \in Int /\ b.remaining_time \in Int
  BY DEF job_t
<1> HIDE DEF a, u, q
<1>5. LeftAgrees(s, r, a, t) /\ LeftAgrees(s, q, u, t)
  BY <1>1, <1>2, <1>3, <1>4 DEF LeftAgrees
<1> QED BY <1>5 DEF a, u, q

LEMMA LeftUnit ==
  ASSUME NEW s, NEW t \in Nat, NEW r \in simulator_job_t, NEW b \in job_t, LeftAgrees(s, r, b, t)
  PROVE  /\ r.core_id = -1 => LeftAgrees(s, r, b, t + 1)
         /\ r.core_id # -1 => LeftAgrees(s, [r EXCEPT !.run_time = @ - 1], b, t + 1)
<1> DEFINE q == [r EXCEPT !.run_time = @ - 1]
<1>1. q.core_id = r.core_id /\ q.run_time = r.run_time - 1 /\ r.run_time \in Nat
  BY DEF simulator_job_t
<1>2. b.last_runtime \in Int
  BY DEF job_t
<1> HIDE DEF q
<1>3. r.core_id # -1 => LeftAgrees(s, q, b, t + 1)
  BY <1>1, <1>2 DEF LeftAgrees
<1>4. r.core_id = -1 => LeftAgrees(s, r, b, t + 1)
  BY DEF LeftAgrees
<1> QED BY <1>3, <1>4 DEF q
-----------------------------------------------------------------------------
\* The array after the move of its last element into place i.
LEMMA DeleteElements ==
  ASSUME NEW js \in Seq(simulator_job_t), NEW i \in DOMAIN js
  PROVE  /\ Delete(js, i) \in Seq(simulator_job_t)
         /\ DOMAIN Delete(js, i) = 1..(Len(js) - 1)
         /\ \A k \in 1..(Len(js) - 1) : Delete(js, i)[k] = js[IF k = i THEN Len(js) ELSE k]
<1> DEFINE last == Len(js)
           moved == [js EXCEPT ![i] = js[last]]
<1>1. last \in Nat \ {0} /\ last \in DOMAIN js /\ js[last] \in simulator_job_t /\ DOMAIN js = 1..last
  OBVIOUS
<1>2. moved \in Seq(simulator_job_t) /\ Len(moved) = last
  BY <1>1
<1>3. \A k \in 1..last : moved[k] = js[IF k = i THEN last ELSE k]
  BY <1>1
<1> HIDE DEF moved
<1>4. /\ SubSeq(moved, 1, last - 1) \in Seq(simulator_job_t)
      /\ Len(SubSeq(moved, 1, last - 1)) = last - 1
      /\ \A k \in 1..(last - 1) : SubSeq(moved, 1, last - 1)[k] = moved[k]
  BY <1>1, <1>2
<1>5. Delete(js, i) = SubSeq(moved, 1, last - 1)
  BY DEF Delete, moved
<1> QED BY <1>1, <1>3, <1>4, <1>5

LEMMA DeleteIds ==
  ASSUME NEW js \in Seq(simulator_job_t), NEW i \in DOMAIN js, IdsDiffer(js)
  PROVE  /\ IdsDiffer(Delete(js, i))
         /\ \A k \in DOMAIN Delete(js, i) :
              \E m \in DOMAIN js : Delete(js, i)[k] = js[m] /\ js[m].job_id # js[i].job_id
         /\ \A j : Known(js, j) /\ j # js[i].job_id => Known(Delete(js, i), j)
<1> DEFINE r == Delete(js, i)
           at(k) == IF k = i THEN Len(js) ELSE k
<1>1. /\ DOMAIN r = 1..(Len(js) - 1) /\ DOMAIN js = 1..Len(js) /\ Len(js) \in Nat \ {0}
      /\ \A k \in DOMAIN r : r[k] = js[at(k)]
  <2>1. DOMAIN js = 1..Len(js) /\ Len(js) \in Nat \ {0}
    OBVIOUS
  <2>2. DOMAIN r = 1..(Len(js) - 1) /\ \A k \in 1..(Len(js) - 1) : r[k] = js[at(k)]
    BY DeleteElements
  <2> QED BY <2>1, <2>2
<1> HIDE DEF r
<1>2. \A k \in DOMAIN r : at(k) \in DOMAIN js /\ at(k) # i
  BY <1>1
<1>3. \A k, m \in DOMAIN r : at(k) = at(m) => k = m
  BY <1>1
<1>4. \A k \in DOMAIN js : k # i => \E m \in DOMAIN r : at(m) = k
  <2> TAKE k \in DOMAIN js
  <2> HAVE k # i
  <2>1. CASE k = Len(js)
    <3>1. i \in DOMAIN r /\ at(i) = k
      BY <1>1, <2>1
    <3> QED BY <3>1
  <2>2. CASE k # Len(js)
    <3>1. k \in DOMAIN r /\ at(k) = k
      BY <1>1, <2>2
    <3> QED BY <3>1
  <2> QED BY <2>1, <2>2
<1> HIDE DEF at
<1>5. IdsDiffer(r)
  BY <1>1, <1>2, <1>3 DEF IdsDiffer
<1>6. \A k \in DOMAIN r : \E m \in DOMAIN js : r[k] = js[m] /\ js[m].job_id # js[i].job_id
  BY <1>1, <1>2 DEF IdsDiffer
<1>7. \A j : Known(js, j) /\ j # js[i].job_id => Known(r, j)
  BY <1>1, <1>4 DEF Known
<1> QED BY <1>5, <1>6, <1>7 DEF r

\* No job is on two of the cores `on'.
OneEach(on) == \A c, d \in Cores : on[c] = on[d] /\ on[c] # NoJob => c = d

\* The finished job leaves the array and its core.
LEMMA RemoveAgrees ==
  ASSUME NEW js, NEW s, NEW on \in [Cores -> JobNumbers \cup {NoJob}], NEW W, NEW A, NEW jt, NEW t,
         AllAgree(js, s, on, W, A, jt, t), OneEach(on),
         NEW i \in DOMAIN js, NEW c \in Cores, js[i].core_id = c
  PROVE  AllAgree(Delete(js, i), s, [on EXCEPT ![c] = NoJob], W, A, jt, t)
<1> DEFINE r == Delete(js, i)
           on0 == [on EXCEPT ![c] = NoJob]
           id == js[i].job_id
<1>1. js \in Seq(simulator_job_t) /\ IdsDiffer(js)
  BY DEF AllAgree
<1>2. c # -1 /\ NoJob \notin JobNumbers
  BY Pointers DEF NoJob
<1>3. on[c] = id /\ id \notin W
  BY <1>2 DEF AllAgree, Agrees
<1>4. /\ r \in Seq(simulator_job_t) /\ IdsDiffer(r)
      /\ \A k \in DOMAIN r : \E m \in DOMAIN js : r[k] = js[m] /\ js[m].job_id # id
      /\ \A j : Known(js, j) /\ j # id => Known(r, j)
  BY <1>1, DeleteElements, DeleteIds
<1>5. on0[c] = NoJob /\ \A d \in Cores : d # c => on0[d] = on[d]
  OBVIOUS
<1>6. js[i] \in simulator_job_t /\ id \in JobNumbers
  <2>1. js[i] \in simulator_job_t
    BY <1>1
  <2> QED BY <2>1 DEF simulator_job_t
<1> HIDE DEF r, on0
<1>7. ASSUME NEW k \in DOMAIN r PROVE Agrees(r[k], s, on0, W, A, jt, t)
  <2>1. PICK m \in DOMAIN js : r[k] = js[m] /\ js[m].job_id # id
    BY <1>4
  <2>2. js[m] \in simulator_job_t /\ Agrees(js[m], s, on, W, A, jt, t)
    BY <1>1 DEF AllAgree
  <2>3. js[m].job_id \in JobNumbers /\ js[m].core_id \in Cores \cup {-1}
    BY <2>2 DEF simulator_job_t
  <2> QED BY <1>2, <1>3, <1>5, <2>1, <2>2, <2>3 DEF Agrees
<1>8. \A j \in W : Known(r, j)
  BY <1>3, <1>4 DEF AllAgree
<1>9. \A d \in Cores : on0[d] # NoJob => Known(r, on0[d])
  <2> TAKE d \in Cores
  <2> HAVE on0[d] # NoJob
  <2>1. d # c /\ on0[d] = on[d]
    BY <1>5
  <2>2. on[d] # NoJob /\ Known(js, on[d])
    BY <2>1 DEF AllAgree
  <2>3. on[d] # id
    BY <1>3, <2>1, <2>2 DEF OneEach
  <2> QED BY <1>4, <2>1, <2>2, <2>3
<1>10. AllAgree(r, s, on0, W, A, jt, t)
  BY <1>4, <1>7, <1>8, <1>9 DEF AllAgree
<1> QED BY <1>10 DEF r, on0

\* Changes of elements that leave the ids alone.
LEMMA SameIds ==
  ASSUME NEW js \in Seq(simulator_job_t), IdsDiffer(js),
         NEW js2 \in [DOMAIN js -> simulator_job_t],
         \A k \in DOMAIN js : js2[k].job_id = js[k].job_id
  PROVE  /\ js2 \in Seq(simulator_job_t) /\ IdsDiffer(js2) /\ DOMAIN js2 = DOMAIN js
         /\ \A j : Known(js, j) => Known(js2, j)
<1>1. DOMAIN js = 1..Len(js) /\ Len(js) \in Nat
  OBVIOUS
<1>2. js2 \in Seq(simulator_job_t)
  BY <1>1
<1> QED BY <1>2 DEF IdsDiffer, Known

LEMMA CoreIdSet ==
  ASSUME NEW r \in simulator_job_t, NEW c \in Cores \cup {-1}
  PROVE  LET q == [r EXCEPT !.core_id = c]
         IN  /\ q \in simulator_job_t /\ q.core_id = c
             /\ q.job_id = r.job_id /\ q.run_time = r.run_time /\ q.arrived = r.arrived
             /\ q.job_id \in JobNumbers
  BY DEF simulator_job_t

\* The expired job is taken off its core and waits.
LEMMA UnsetAgrees ==
  ASSUME NEW js, NEW on \in [Cores -> JobNumbers \cup {NoJob}], NEW W, NEW A, NEW jt, NEW t,
         AllAgree(js, "RR", on, W, A, jt, t), OneEach(on),
         NEW i \in DOMAIN js, NEW c \in Cores, js[i].core_id = c, js[i].run_time # 0
  PROVE  AllAgree([js EXCEPT ![i].core_id = -1], "RR", [on EXCEPT ![c] = NoJob],
                  W \cup {js[i].job_id}, A, jt, t)
<1> DEFINE q == [js[i] EXCEPT !.core_id = -1]
           js2 == [js EXCEPT ![i] = q]
           on0 == [on EXCEPT ![c] = NoJob]
           id == js[i].job_id
           W2 == W \cup {id}
<1>1. js \in Seq(simulator_job_t) /\ IdsDiffer(js) /\ js[i] \in simulator_job_t
  BY DEF AllAgree
<1>2. c # -1 /\ NoJob \notin JobNumbers
  BY Pointers DEF NoJob
<1>3. on[c] = id /\ js[i].arrived
  BY <1>2 DEF AllAgree, Agrees
<1>4. /\ q \in simulator_job_t /\ q.core_id = -1 /\ q.job_id = id /\ q.run_time = js[i].run_time
      /\ q.arrived = js[i].arrived /\ id \in JobNumbers
  BY <1>1, CoreIdSet
<1> HIDE DEF q
<1>5. js2 \in [DOMAIN js -> simulator_job_t] /\ js2[i] = q /\ \A k \in DOMAIN js : k # i => js2[k] = js[k]
  BY <1>1, <1>4
<1> HIDE DEF js2
<1>6. /\ js2 \in Seq(simulator_job_t) /\ IdsDiffer(js2) /\ DOMAIN js2 = DOMAIN js
      /\ \A j : Known(js, j) => Known(js2, j)
  BY <1>1, <1>4, <1>5, SameIds
<1>7. on0[c] = NoJob /\ \A d \in Cores : d # c => on0[d] = on[d]
  OBVIOUS
<1> HIDE DEF on0
<1>8. ASSUME NEW k \in DOMAIN js2 PROVE Agrees(js2[k], "RR", on0, W2, A, jt, t)
  <2>1. CASE k = i
    <3>1. \A d \in Cores : on0[d] # id
      BY <1>2, <1>3, <1>4, <1>7 DEF OneEach
    <3> QED BY <1>3, <1>4, <1>5, <2>1, <3>1 DEF Agrees, LeftAgrees
  <2>2. CASE k # i
    <3>1. js2[k] = js[k] /\ js[k].job_id # id /\ js[k] \in simulator_job_t /\ Agrees(js[k], "RR", on, W, A, jt, t)
      BY <1>1, <1>5, <1>6, <2>2 DEF AllAgree, IdsDiffer
    <3>2. js[k].job_id \in JobNumbers /\ js[k].core_id \in Cores \cup {-1}
      BY <3>1 DEF simulator_job_t
    <3> QED BY <1>2, <1>3, <1>7, <3>1, <3>2 DEF Agrees
  <2> QED BY <2>1, <2>2
<1>9. \A j \in W2 : Known(js2, j)
  <2>1. Known(js, id)
    BY DEF Known
  <2> QED BY <1>6, <2>1 DEF AllAgree
<1>10. \A d \in Cores : on0[d] # NoJob => Known(js2, on0[d])
  BY <1>6, <1>7 DEF AllAgree
<1>11. AllAgree(js2, "RR", on0, W2, A, jt, t)
  BY <1>6, <1>8, <1>9, <1>10 DEF AllAgree
<1> QED BY <1>11 DEF js2, q, on0

\* A job that waits is put on the free core c.
LEMMA ResumeAgrees ==
  ASSUME NEW js, NEW s, NEW on \in [Cores -> JobNumbers \cup {NoJob}], NEW W, NEW A,
         NEW jt \in [JobNumbers -> job_t], NEW jt2, NEW t \in Nat,
         AllAgree(js, s, on, W, A, jt, t),
         NEW i \in DOMAIN js, NEW c \in Cores, on[c] = NoJob, js[i].job_id \in W,
         jt2[js[i].job_id] = Resumed(jt[js[i].job_id], t),
         \A j \in JobNumbers : j # js[i].job_id => jt2[j] = jt[j]
  PROVE  AllAgree([js EXCEPT ![i].core_id = c], s, [on EXCEPT ![c] = js[i].job_id],
                  W \ {js[i].job_id}, A, jt2, t)
<1> DEFINE q == [js[i] EXCEPT !.core_id = c]
           js2 == [js EXCEPT ![i] = q]
           id == js[i].job_id
           on2 == [on EXCEPT ![c] = id]
           W2 == W \ {id}
<1>1. js \in Seq(simulator_job_t) /\ IdsDiffer(js) /\ js[i] \in simulator_job_t
  BY DEF AllAgree
<1>2. c # -1 /\ NoJob \notin JobNumbers
  BY Pointers DEF NoJob
<1>3. js[i].core_id = -1 /\ js[i].arrived /\ LeftAgrees(s, js[i], jt[id], t)
  BY <1>2 DEF AllAgree, Agrees
<1>4. /\ q \in simulator_job_t /\ q.core_id = c /\ q.job_id = id /\ q.run_time = js[i].run_time
      /\ q.arrived = js[i].arrived /\ id \in JobNumbers
  BY <1>1, CoreIdSet
<1>5. LeftAgrees(s, q, jt2[id], t)
  BY <1>1, <1>3, <1>4, LeftResumed
<1> HIDE DEF q
<1>6. js2 \in [DOMAIN js -> simulator_job_t] /\ js2[i] = q /\ \A k \in DOMAIN js : k # i => js2[k] = js[k]
  BY <1>1, <1>4
<1> HIDE DEF js2
<1>7. /\ js2 \in Seq(simulator_job_t) /\ IdsDiffer(js2) /\ DOMAIN js2 = DOMAIN js
      /\ \A j : Known(js, j) => Known(js2, j)
  BY <1>1, <1>4, <1>6, SameIds
<1>8. on2[c] = id /\ \A d \in Cores : d # c => on2[d] = on[d]
  OBVIOUS
<1> HIDE DEF on2
<1>9. ASSUME NEW k \in DOMAIN js2 PROVE Agrees(js2[k], s, on2, W2, A, jt2, t)
  <2>1. CASE k = i
    BY <1>2, <1>3, <1>4, <1>5, <1>6, <1>8, <2>1 DEF Agrees
  <2>2. CASE k # i
    <3>1. js2[k] = js[k] /\ js[k].job_id # id /\ js[k] \in simulator_job_t /\ Agrees(js[k], s, on, W, A, jt, t)
      BY <1>1, <1>6, <1>7, <2>2 DEF AllAgree, IdsDiffer
    <3>2. js[k].job_id \in JobNumbers /\ js[k].core_id \in Cores \cup {-1}
      BY <3>1 DEF simulator_job_t
    <3>3. jt2[js[k].job_id] = jt[js[k].job_id]
      BY <3>1, <3>2
    <3> QED BY <1>2, <1>8, <3>1, <3>2, <3>3 DEF Agrees
  <2> QED BY <2>1, <2>2
<1>10. \A j \in W2 : Known(js2, j)
  BY <1>7 DEF AllAgree
<1>11. \A d \in Cores : on2[d] # NoJob => Known(js2, on2[d])
  <2>1. Known(js2, id)
    BY <1>7 DEF Known
  <2> QED BY <1>7, <1>8, <2>1 DEF AllAgree
<1>12. AllAgree(js2, s, on2, W2, A, jt2, t)
  BY <1>7, <1>9, <1>10, <1>11 DEF AllAgree
<1> QED BY <1>12 DEF js2, q, on2

\* An element as it is put on a core (or, -1, made to wait) on arrival, and
\* as it is thrown off its core; closed in what follows.
Arrived(r, c) == [r EXCEPT !.arrived = TRUE, !.core_id = c]
ThrownOff(r) == [r EXCEPT !.core_id = -1]

LEMMA ThrownOffSet ==
  ASSUME NEW r \in simulator_job_t
  PROVE  LET q == ThrownOff(r)
         IN  /\ q \in simulator_job_t /\ q.core_id = -1
             /\ q.job_id = r.job_id /\ q.run_time = r.run_time /\ q.arrived = r.arrived
  BY DEF simulator_job_t, ThrownOff

LEMMA ArrivedSet ==
  ASSUME NEW r \in simulator_job_t, NEW c \in Cores \cup {-1}
  PROVE  LET q == Arrived(r, c)
         IN  /\ q \in simulator_job_t /\ q.core_id = c
             /\ q.job_id = r.job_id /\ q.run_time = r.run_time /\ q.arrived
             /\ q.job_id \in JobNumbers
<1> DEFINE p == [r EXCEPT !.arrived = TRUE]
<1>1. /\ p \in simulator_job_t /\ p.arrived /\ p.job_id = r.job_id /\ p.run_time = r.run_time
  BY DEF simulator_job_t
<1> HIDE DEF p
<1> DEFINE q == [p EXCEPT !.core_id = c]
<1>2. /\ q \in simulator_job_t /\ q.core_id = c
      /\ q.job_id = p.job_id /\ q.run_time = p.run_time /\ q.arrived = p.arrived
      /\ q.job_id \in JobNumbers
  BY <1>1, CoreIdSet
<1> HIDE DEF q
<1>3. /\ q \in simulator_job_t /\ q.core_id = c
      /\ q.job_id = r.job_id /\ q.run_time = r.run_time /\ q.arrived
      /\ q.job_id \in JobNumbers
  BY <1>1, <1>2
<1> QED BY <1>3 DEF q, p, Arrived

\* The new job is put on core c; whoever was there waits.
LEMMA PutAgrees ==
  ASSUME NEW js, NEW js2, NEW s, NEW on \in [Cores -> JobNumbers \cup {NoJob}], NEW W, NEW A,
         NEW jt, NEW jt2, NEW t,
         AllAgree(js, s, on, W, A, jt, t), OneEach(on),
         NEW i \in DOMAIN js, NEW c \in Cores, ~ js[i].arrived,
         js2 \in [DOMAIN js -> simulator_job_t],
         js2[i] = Arrived(js[i], c),
         \A k \in DOMAIN js \ {i} :
           /\ js2[k] = IF js[k].core_id = c THEN ThrownOff(js[k]) ELSE js[k]
           /\ js[k].core_id = c => js[k].run_time # 0,
         \A k \in DOMAIN js : js2[k].arrived => LeftAgrees(s, js2[k], jt2[js[k].job_id], t)
  PROVE  AllAgree(js2, s, [on EXCEPT ![c] = js[i].job_id], W \cup ({on[c]} \ {NoJob}),
                  A \cup {js[i].job_id}, jt2, t)
<1> DEFINE j == js[i].job_id
           on2 == [on EXCEPT ![c] = j]
           W2 == W \cup ({on[c]} \ {NoJob})
           A2 == A \cup {j}
<1>1. js \in Seq(simulator_job_t) /\ IdsDiffer(js) /\ \A k \in DOMAIN js : js[k] \in simulator_job_t
  BY DEF AllAgree
<1>2. c # -1 /\ NoJob \notin JobNumbers
  BY Pointers DEF NoJob
<1>3. j \notin W /\ js[i].core_id = -1 /\ \A d \in Cores : on[d] # j
  BY DEF AllAgree, Agrees
<1>4. /\ js2[i].core_id = c /\ js2[i].job_id = j /\ js2[i].arrived /\ j \in JobNumbers
      /\ js2[i].run_time = js[i].run_time
  BY <1>1, ArrivedSet
<1>5. \A k \in DOMAIN js : js2[k].job_id = js[k].job_id
  BY <1>1, <1>4, ThrownOffSet
<1>6. /\ js2 \in Seq(simulator_job_t) /\ IdsDiffer(js2) /\ DOMAIN js2 = DOMAIN js
      /\ \A n : Known(js, n) => Known(js2, n)
  BY <1>1, <1>5, SameIds
<1>7. on2[c] = j /\ \A d \in Cores : d # c => on2[d] = on[d]
  OBVIOUS
<1> HIDE DEF on2
<1>8. ASSUME NEW k \in DOMAIN js2 PROVE Agrees(js2[k], s, on2, W2, A2, jt2, t)
  <2>1. k \in DOMAIN js /\ (js2[k].arrived => LeftAgrees(s, js2[k], jt2[js2[k].job_id], t))
    BY <1>5, <1>6
  <2>2. /\ Agrees(js[k], s, on, W, A, jt, t) /\ js[k].job_id \in JobNumbers
        /\ js[k].core_id \in Cores \cup {-1}
    BY <1>1, <2>1 DEF AllAgree, simulator_job_t
  <2>3. CASE k = i
    BY <1>2, <1>3, <1>4, <1>7, <2>1, <2>3 DEF Agrees
  <2>4. k # i => js[k].job_id # j
    BY <1>1, <2>1 DEF IdsDiffer
  <2>5. CASE k # i /\ js[k].core_id = c
    <3>1. js2[k].core_id = -1 /\ js2[k].arrived = js[k].arrived /\ js2[k].run_time = js[k].run_time
      BY <1>1, <2>1, <2>5, ThrownOffSet
    <3>2. on[c] = js[k].job_id /\ js[k].arrived /\ js[k].run_time # 0
      BY <1>2, <2>1, <2>2, <2>5 DEF Agrees
    <3>3. \A d \in Cores : on2[d] # js[k].job_id
      BY <1>2, <1>7, <2>2, <2>4, <2>5, <3>2 DEF OneEach
    <3> QED BY <1>2, <1>5, <2>1, <2>2, <3>1, <3>2, <3>3 DEF Agrees
  <2>6. CASE k # i /\ js[k].core_id # c
    <3>1. js2[k] = js[k]
      BY <2>1, <2>6
    <3>2. js[k].job_id # on[c]
      BY <1>2, <2>2, <2>6 DEF Agrees, OneEach
    <3> QED BY <1>7, <2>1, <2>2, <2>4, <2>6, <3>1, <3>2 DEF Agrees
  <2> QED BY <2>3, <2>5, <2>6
<1>9. \A n \in W2 : Known(js2, n)
  BY <1>6 DEF AllAgree
<1>10. \A d \in Cores : on2[d] # NoJob => Known(js2, on2[d])
  <2>1. Known(js, j)
    BY DEF Known
  <2> QED BY <1>6, <1>7, <2>1 DEF AllAgree
<1>11. AllAgree(js2, s, on2, W2, A2, jt2, t)
  BY <1>6, <1>8, <1>9, <1>10 DEF AllAgree
<1> QED BY <1>11 DEF on2

\* The new job waits.
LEMMA WaitAgrees ==
  ASSUME NEW js, NEW js2, NEW s, NEW on \in [Cores -> JobNumbers \cup {NoJob}], NEW W, NEW A,
         NEW jt, NEW jt2, NEW t,
         AllAgree(js, s, on, W, A, jt, t),
         NEW i \in DOMAIN js, ~ js[i].arrived,
         js2 \in [DOMAIN js -> simulator_job_t],
         js2[i] = Arrived(js[i], -1),
         \A k \in DOMAIN js \ {i} : js2[k] = js[k],
         \A k \in DOMAIN js : js2[k].arrived => LeftAgrees(s, js2[k], jt2[js[k].job_id], t)
  PROVE  AllAgree(js2, s, on, W \cup {js[i].job_id}, A \cup {js[i].job_id}, jt2, t)
<1> DEFINE j == js[i].job_id
           W2 == W \cup {j}
           A2 == A \cup {j}
<1>1. js \in Seq(simulator_job_t) /\ IdsDiffer(js) /\ \A k \in DOMAIN js : js[k] \in simulator_job_t
  BY DEF AllAgree
<1>2. /\ js[i].core_id = -1 /\ \A d \in Cores : on[d] # j
      /\ js[i].run_time # 0
  BY DEF AllAgree, Agrees
<1>3. /\ js2[i].core_id = -1 /\ js2[i].job_id = j /\ js2[i].arrived /\ j \in JobNumbers
      /\ js2[i].run_time = js[i].run_time
  BY <1>1, ArrivedSet
<1>4. \A k \in DOMAIN js : js2[k].job_id = js[k].job_id
  BY <1>3
<1>5. /\ js2 \in Seq(simulator_job_t) /\ IdsDiffer(js2) /\ DOMAIN js2 = DOMAIN js
      /\ \A n : Known(js, n) => Known(js2, n)
  BY <1>1, <1>4, SameIds
<1>6. ASSUME NEW k \in DOMAIN js2 PROVE Agrees(js2[k], s, on, W2, A2, jt2, t)
  <2>1. k \in DOMAIN js /\ (js2[k].arrived => LeftAgrees(s, js2[k], jt2[js2[k].job_id], t))
    BY <1>4, <1>5
  <2>2. CASE k = i
    BY <1>2, <1>3, <2>1, <2>2 DEF Agrees
  <2>3. CASE k # i
    <3>1. js2[k] = js[k] /\ js[k].job_id # j /\ Agrees(js[k], s, on, W, A, jt, t)
      BY <1>1, <2>1, <2>3 DEF AllAgree, IdsDiffer
    <3> QED BY <2>1, <3>1 DEF Agrees
  <2> QED BY <2>2, <2>3
<1>7. \A n \in W2 : Known(js2, n)
  <2>1. Known(js, j)
    BY DEF Known
  <2> QED BY <1>5, <2>1 DEF AllAgree
<1>8. \A d \in Cores : on[d] # NoJob => Known(js2, on[d])
  BY <1>5 DEF AllAgree
<1> QED BY <1>5, <1>6, <1>7, <1>8 DEF AllAgree

\* A time unit.
LEMMA UnitAgrees ==
  ASSUME NEW js, NEW js2, NEW s, NEW on, NEW W \in SUBSET JobNumbers, NEW A,
         NEW jt \in [JobNumbers -> job_t], NEW t \in Nat,
         AllAgree(js, s, on, W, A, jt, t),
         \A k \in DOMAIN js : js[k].run_time # 0,
         js2 = [k \in DOMAIN js |-> IF js[k].core_id # -1 THEN [js[k] EXCEPT !.run_time = @ - 1]
                                                        ELSE js[k]]
  PROVE  AllAgree(js2, s, on, W, A, jt, t + 1)
<1>1. js \in Seq(simulator_job_t) /\ IdsDiffer(js) /\ \A k \in DOMAIN js : js[k] \in simulator_job_t
  BY DEF AllAgree
<1>2. ASSUME NEW r \in simulator_job_t, r.run_time # 0
      PROVE  LET q == [r EXCEPT !.run_time = @ - 1]
             IN  /\ q \in simulator_job_t /\ q.job_id = r.job_id /\ q.core_id = r.core_id
                 /\ q.arrived = r.arrived
  BY <1>2 DEF simulator_job_t
<1>3. ASSUME NEW k \in DOMAIN js
      PROVE  /\ js2[k] \in simulator_job_t
             /\ js2[k].job_id = js[k].job_id /\ js2[k].core_id = js[k].core_id
             /\ js2[k].arrived = js[k].arrived
             /\ js[k].core_id = -1 => js2[k] = js[k]
             /\ js[k].core_id # -1 => js2[k] = [js[k] EXCEPT !.run_time = @ - 1]
  BY <1>1, <1>2
<1>4. js2 \in [DOMAIN js -> simulator_job_t]
  BY <1>3
<1>5. /\ js2 \in Seq(simulator_job_t) /\ IdsDiffer(js2) /\ DOMAIN js2 = DOMAIN js
      /\ \A n : Known(js, n) => Known(js2, n)
  BY <1>1, <1>3, <1>4, SameIds
<1>6. ASSUME NEW k \in DOMAIN js2 PROVE Agrees(js2[k], s, on, W, A, jt, t + 1)
  <2>1. k \in DOMAIN js /\ js[k] \in simulator_job_t /\ Agrees(js[k], s, on, W, A, jt, t)
    BY <1>1, <1>5 DEF AllAgree
  <2>2. js[k].job_id \in JobNumbers
    BY <2>1 DEF simulator_job_t
  <2>3. js2[k].arrived => LeftAgrees(s, js2[k], jt[js[k].job_id], t + 1)
    BY <1>3, <2>1, <2>2, LeftUnit DEF Agrees
  <2> QED BY <1>3, <2>1, <2>3 DEF Agrees
<1> QED BY <1>5, <1>6 DEF AllAgree
-----------------------------------------------------------------------------
\* Only the records of the jobs in the array matter.
LEMMA SameRecords ==
  ASSUME NEW js, NEW s, NEW on, NEW W, NEW A, NEW jt, NEW jt2, NEW t,
         AllAgree(js, s, on, W, A, jt, t),
         \A k \in DOMAIN js : jt2[js[k].job_id] = jt[js[k].job_id]
  PROVE  AllAgree(js, s, on, W, A, jt2, t)
  BY DEF AllAgree, Agrees

\* The records jt2 are jt after the library resumed job n, if there is one.
Served(n, jt, jt2, t) == /\ \A k \in JobNumbers : k # n => jt2[k] = jt[k]
                         /\ n # NoJob => jt2[n] = Resumed(jt[n], t)

\* What PollTo serves.
LEMMA PollServes ==
  ASSUME NEW c \in Cores, NEW q \in Seq(JobNumbers), IsInjective(q),
         NEW jt \in [JobNumbers -> job_t], time \in Nat, PollTo(c, q, jt, time)
  PROVE  /\ Assign(c, ret')
         /\ QueueJobs' = ToSet(q) \ {ret'}
         /\ ret' \in ToSet(q) \cup {NoJob}
         /\ Served(ret', jt, job', time)
<1> USE DEF Served
<1>1. CASE q = << >>
  <2>1. ret' = NoJob /\ job' = jt /\ job_queue' = << >> /\ Assign(c, ret')
    BY <1>1 DEF PollTo, Assign, priqueue_peek, priqueue_poll
  <2>2. QueueJobs' = {} /\ ToSet(q) = {}
    BY <1>1, <2>1 DEF QueueJobs, ToSet
  <2> QED BY <2>1, <2>2
<1>2. CASE q # << >>
  <2>1. /\ priqueue_peek(q, NoJob) = q[1] /\ q[1] \in JobNumbers
        /\ ToSet(q) = ToSet(priqueue_poll(q)) \cup {q[1]}
        /\ q[1] \notin ToSet(priqueue_poll(q))
    BY <1>2, PollElements
  <2>2. q[1] # NoJob
    BY <2>1, Pointers
  <2>3. /\ Assign(c, q[1]) /\ job_queue' = priqueue_poll(q) /\ ret' = q[1]
        /\ job' = [jt EXCEPT ![q[1]] = Resumed(jt[q[1]], time)]
    BY <2>1, <2>2 DEF PollTo, Assign
  <2>4. QueueJobs' = ToSet(priqueue_poll(q))
    BY <2>3 DEF QueueJobs
  <2> QED BY <2>1, <2>3, <2>4
<1> QED BY <1>1, <1>2

Placed(on, c, n) == [on EXCEPT ![c] = n]

\* The answer n of the library names a job that set_active_job finds.
LEMMA SetActiveAgrees ==
  ASSUME NEW js, NEW s, NEW on \in [Cores -> JobNumbers \cup {NoJob}], NEW W \in SUBSET JobNumbers,
         NEW A, NEW jt \in [JobNumbers -> job_t], NEW jt2, NEW t \in Nat,
         AllAgree(js, s, on, W, A, jt, t),
         NEW c \in Cores, on[c] = NoJob, NEW n \in W \cup {NoJob},
         Served(n, jt, jt2, t), set_active_job(n, c, js)
  PROVE  /\ AllAgree(jobs', s, Placed(on, c, n), W \ {n}, A, jt2, t)
         /\ phase' = phase
         /\ (\A k \in DOMAIN js : js[k].run_time # 0) => \A k \in DOMAIN jobs' : jobs'[k].run_time # 0
<1> USE DEF Placed, Served
<1>1. NoJob = -1 /\ NoJob \notin JobNumbers
  BY Pointers DEF NoJob
<1>2. \A k \in DOMAIN js : js[k] \in simulator_job_t /\ js[k].job_id \in JobNumbers
  <2>1. \A k \in DOMAIN js : js[k] \in simulator_job_t
    BY DEF AllAgree
  <2> QED BY <2>1 DEF simulator_job_t
<1>3. CASE n = NoJob
  <2>1. jobs' = js /\ phase' = phase
    BY <1>1, <1>3 DEF set_active_job
  <2>2. [on EXCEPT ![c] = n] = on /\ W \ {n} = W
    BY <1>1, <1>3
  <2>3. \A k \in DOMAIN js : jt2[js[k].job_id] = jt[js[k].job_id]
    BY <1>1, <1>2, <1>3
  <2>4. AllAgree(js, s, on, W, A, jt2, t)
    BY <2>3, SameRecords
  <2> QED BY <2>1, <2>2, <2>4, Zenon
<1>4. CASE n # NoJob
  <2> DEFINE found == {k \in DOMAIN js : js[k].job_id = n /\ js[k].arrived}
  <2>1. n \in W /\ n # -1
    BY <1>1, <1>4
  <2>2. \E k \in DOMAIN js : js[k].job_id = n
    BY <2>1 DEF AllAgree, Known
  <2>3. \A k \in DOMAIN js : js[k].job_id = n => js[k].arrived
    BY <2>1 DEF AllAgree, Agrees
  <2>4. found # {}
    BY <2>2, <2>3
  <2>5. PICK i \in found : jobs' = [js EXCEPT ![i].core_id = c] /\ phase' = phase
    BY <2>1, <2>4 DEF set_active_job
  <2>6. i \in DOMAIN js /\ js[i].job_id = n /\ js[i] \in simulator_job_t
    BY <1>2, <2>5
  <2>7. AllAgree(jobs', s, [on EXCEPT ![c] = n], W \ {n}, A, jt2, t)
    <3>1. /\ js[i].job_id \in W
          /\ jt2[js[i].job_id] = Resumed(jt[js[i].job_id], t)
          /\ \A k \in JobNumbers : k # js[i].job_id => jt2[k] = jt[k]
      BY <1>4, <2>1, <2>6
    <3>2. AllAgree([js EXCEPT ![i].core_id = c], s, [on EXCEPT ![c] = js[i].job_id],
                   W \ {js[i].job_id}, A, jt2, t)
      BY <2>6, <3>1, ResumeAgrees
    <3> QED BY <2>5, <2>6, <3>2, Zenon
  <2>8. (\A k \in DOMAIN js : js[k].run_time # 0) => \A k \in DOMAIN jobs' : jobs'[k].run_time # 0
    <3> DEFINE r == [js[i] EXCEPT !.core_id = c]
    <3>1. r.run_time = js[i].run_time
      BY <2>6, CoreIdSet
    <3>2. jobs' = [js EXCEPT ![i] = r]
      BY <2>5
    <3> HIDE DEF r
    <3> QED BY <3>1, <3>2
  <2>9. phase' = phase
    BY <2>5
  <2> HIDE DEF found
  <2> QED BY <2>7, <2>8, <2>9, Zenon
<1> QED BY <1>3, <1>4
-----------------------------------------------------------------------------
(***************************************************************************)
(* The invariant.  After the first loop of a time unit no job is left that *)
(* has nothing to do, so that whoever is thrown off its core has; and the  *)
(* jobs the simulator counts as alive are those the library has.           *)
(***************************************************************************)
NoneLeftToFinish == phase # "finish" => \A i \in DOMAIN jobs : jobs[i].run_time # 0
AliveCounted == /\ IsFiniteSet(CoreJobs \cup QueueJobs)
                /\ jobs_alive = Cardinality(CoreJobs \cup QueueJobs)
NeverGaveUp == phase \notin {"return 3", "abort"}

SimInv == /\ PlacesInv
          /\ AllAgree(jobs, the_scheme, core_arr, QueueJobs, arrived, job, time)
          /\ NoneLeftToFinish /\ AliveCounted /\ NeverGaveUp

\* What PlacesInv says of the arguments of AllAgree.
LEMMA LibraryTyped ==
  ASSUME PlacesInv
  PROVE  /\ core_arr \in [Cores -> JobNumbers \cup {NoJob}] /\ CoresTyped
         /\ OneEach(core_arr) /\ OneCoreEach
         /\ QueueJobs \in SUBSET JobNumbers /\ job_queue \in Seq(JobNumbers) /\ IsInjective(job_queue)
         /\ job \in [JobNumbers -> job_t] /\ time \in Nat
         /\ CoreJobs \cap QueueJobs = {}
         /\ CoreJobs \cup QueueJobs \subseteq arrived
<1>1. TypeOK /\ Conservation
  BY DEF PlacesInv
<1>2. QueueJobs \subseteq JobNumbers
  BY <1>1 DEF TypeOK, QueueJobs, ToSet
<1>3. OneEach(core_arr)
  BY <1>1 DEF Conservation, OneEach
<1>4. OneCoreEach
  BY <1>1 DEF Conservation, OneCoreEach
<1> QED BY <1>1, <1>2, <1>3, <1>4 DEF TypeOK, Conservation, CoresTyped

\* What AllAgree says of one element.
LEMMA ElementTyped ==
  ASSUME SimInv, NEW i \in DOMAIN jobs
  PROVE  /\ jobs[i] \in simulator_job_t /\ jobs[i].job_id \in JobNumbers
         /\ jobs[i].core_id \in Cores \cup {-1}
         /\ jobs[i].core_id # -1 =>
              /\ core_arr[jobs[i].core_id] = jobs[i].job_id
              /\ jobs[i].core_id \in Cores \ IdleCores
<1>1. jobs[i] \in simulator_job_t /\ Agrees(jobs[i], the_scheme, core_arr, QueueJobs, arrived, job, time)
  BY DEF SimInv, AllAgree
<1>2. jobs[i].job_id \in JobNumbers /\ jobs[i].core_id \in Cores \cup {-1}
  BY <1>1 DEF simulator_job_t
<1> QED BY <1>1, <1>2, Pointers DEF Agrees, IdleCores

-----------------------------------------------------------------------------
LEMMA JobFinishesKeeps == SimInv /\ JobFinishes => SimInv' /\ JobFinishedCall
<1> SUFFICES ASSUME SimInv, NEW i \in FinishedIndices, phase = "finish",
                    scheduler_job_finished(jobs[i].core_id, time),
                    jobs_alive' = jobs_alive - 1,
                    set_active_job(ret', jobs[i].core_id, Delete(jobs, i)),
                    time' = time
             PROVE  SimInv' /\ JobFinishedCall
  BY DEF JobFinishes
<1> DEFINE c == jobs[i].core_id
           j == jobs[i].job_id
           js == Delete(jobs, i)
           on0 == [core_arr EXCEPT ![c] = NoJob]
           jt == [job EXCEPT ![core_arr[c]] = WithStats(job[core_arr[c]], time)]
           W == QueueJobs
<1>1. /\ PlacesInv /\ AliveCounted
      /\ AllAgree(jobs, the_scheme, core_arr, W, arrived, job, time)
      /\ jobs \in Seq(simulator_job_t) /\ IdsDiffer(jobs)
  BY DEF SimInv, AllAgree
<1>2. i \in DOMAIN jobs /\ c # -1
  BY <1>1 DEF FinishedIndices, AllAgree, Agrees
<1>3. /\ core_arr[c] = j /\ j \in JobNumbers /\ c \in Cores /\ c \in Cores \ IdleCores
      /\ j \in CoreJobs
  <2>1. core_arr[c] = j /\ j \in JobNumbers /\ c \in Cores \ IdleCores
    BY <1>2, ElementTyped
  <2> QED BY <2>1, Pointers DEF CoreJobs
<1>4. JobFinishedCall /\ PlacesInv'
  <2>1. JobFinishedCall
    BY <1>3 DEF JobFinishedCall
  <2> QED BY <1>1, <2>1, PlacesFinished
<1>5. /\ core_arr \in [Cores -> JobNumbers \cup {NoJob}] /\ CoresTyped
      /\ OneEach(core_arr) /\ OneCoreEach
      /\ W \in SUBSET JobNumbers /\ job_queue \in Seq(JobNumbers) /\ IsInjective(job_queue)
      /\ job \in [JobNumbers -> job_t] /\ time \in Nat
      /\ CoreJobs \cap W = {} /\ CoreJobs \cup W \subseteq arrived
  BY <1>1, LibraryTyped
<1>6. jt \in [JobNumbers -> job_t] /\ \A k \in JobNumbers : k # j => jt[k] = job[k]
  BY <1>3, <1>5, WithStatsRecord
<1>7. /\ PollTo(c, job_queue, jt, time)
      /\ the_scheme' = the_scheme /\ arrived' = arrived
  BY DEF scheduler_job_finished
<1> HIDE DEF jt
<1>8. /\ Assign(c, ret') /\ QueueJobs' = W \ {ret'} /\ ret' \in W \cup {NoJob}
      /\ Served(ret', jt, job', time)
  BY <1>3, <1>5, <1>6, <1>7, PollServes DEF QueueJobs
<1>9. on0 \in [Cores -> JobNumbers \cup {NoJob}] /\ on0[c] = NoJob
  BY <1>3, <1>5
<1>10. Placed(on0, c, ret') = core_arr'
  BY <1>3, <1>5, <1>8 DEF Assign, Placed
<1>11. AllAgree(js, the_scheme, on0, W, arrived, jt, time)
  <2>1. AllAgree(js, the_scheme, on0, W, arrived, job, time)
    BY <1>1, <1>2, <1>3, <1>5, RemoveAgrees
  <2>2. \A k \in DOMAIN js : jt[js[k].job_id] = job[js[k].job_id]
    <3> TAKE k \in DOMAIN js
    <3>1. PICK m \in DOMAIN jobs : js[k] = jobs[m] /\ jobs[m].job_id # j
      BY <1>1, <1>2, DeleteIds
    <3>2. jobs[m].job_id \in JobNumbers
      BY ElementTyped
    <3> QED BY <1>6, <3>1, <3>2
  <2> HIDE DEF js, on0
  <2> QED BY <2>1, <2>2, SameRecords
<1> HIDE DEF c, j, js, on0, W
<1>12. set_active_job(ret', c, js)
  BY DEF c, js
<1>13. /\ AllAgree(jobs', the_scheme, Placed(on0, c, ret'), W \ {ret'}, arrived, job', time)
       /\ phase' = phase
  BY <1>3, <1>5, <1>6, <1>8, <1>9, <1>11, <1>12, SetActiveAgrees
<1>14. AllAgree(jobs', the_scheme', core_arr', QueueJobs', arrived', job', time')
  BY <1>7, <1>8, <1>10, <1>13, Zenon
<1>15. AliveCounted'
  <2>1. CoreJobs' = (CoreJobs \ {j}) \cup ({ret'} \ {NoJob})
    <3>1. ret' \in JobNumbers \cup {NoJob} /\ ret' \notin CoreJobs
      BY <1>5, <1>8, Pointers DEF CoreJobs
    <3> QED BY <1>3, <1>5, <1>8, <3>1, AssignCore
  <2>2. NoJob \notin W
    BY <1>5, Pointers
  <2>3. (CoreJobs \cup QueueJobs)' = (CoreJobs \cup W) \ {j}
    BY <1>3, <1>5, <1>8, <2>1, <2>2
  <2>4. IsFiniteSet(CoreJobs \cup W) /\ jobs_alive = Cardinality(CoreJobs \cup W) /\ j \in CoreJobs \cup W
    BY <1>1, <1>3 DEF AliveCounted, W
  <2>5. /\ IsFiniteSet((CoreJobs \cup W) \ {j})
        /\ Cardinality((CoreJobs \cup W) \ {j}) = Cardinality(CoreJobs \cup W) - 1
    BY <2>4, FS_RemoveElement
  <2> QED BY <2>3, <2>4, <2>5 DEF AliveCounted
<1> QED BY <1>4, <1>13, <1>14, <1>15 DEF SimInv, NoneLeftToFinish, NeverGaveUp

LEMMA QuantumExpiresKeeps == SimInv /\ QuantumExpires => SimInv' /\ QuantumExpiredCall
<1> SUFFICES ASSUME SimInv, NEW c \in Cores, NEW i \in DOMAIN jobs, jobs[i].core_id = c,
                    phase = "quantum", the_scheme = "RR",
                    scheduler_quantum_expired(c, time),
                    set_active_job(ret', c, [jobs EXCEPT ![i].core_id = -1]),
                    jobs_alive' = jobs_alive, time' = time
             PROVE  SimInv' /\ QuantumExpiredCall
  BY DEF QuantumExpires, ExpiredCores, OnCore, IsFirst
<1> DEFINE j == jobs[i].job_id
           js == [jobs EXCEPT ![i].core_id = -1]
           on0 == [core_arr EXCEPT ![c] = NoJob]
           q == OfferTo(job_queue, core_arr[c], job)
           W == QueueJobs
           W2 == W \cup {j}
<1>1. /\ PlacesInv /\ AliveCounted
      /\ AllAgree(jobs, the_scheme, core_arr, W, arrived, job, time)
      /\ \A k \in DOMAIN jobs : jobs[k].run_time # 0
  BY DEF SimInv, NoneLeftToFinish
<1>2. /\ core_arr[c] = j /\ j \in JobNumbers /\ c \in Cores \ IdleCores /\ j \in CoreJobs
  <2>1. jobs[i].core_id # -1
    BY Pointers DEF NoJob
  <2>2. core_arr[c] = j /\ j \in JobNumbers /\ c \in Cores \ IdleCores
    BY <2>1, ElementTyped
  <2> QED BY <2>2, Pointers DEF CoreJobs
<1>3. QuantumExpiredCall /\ PlacesInv'
  <2>1. QuantumExpiredCall
    BY <1>2 DEF QuantumExpiredCall
  <2> QED BY <1>1, <2>1, PlacesExpired
<1>4. /\ core_arr \in [Cores -> JobNumbers \cup {NoJob}] /\ CoresTyped
      /\ OneEach(core_arr) /\ OneCoreEach
      /\ W \in SUBSET JobNumbers /\ job_queue \in Seq(JobNumbers) /\ IsInjective(job_queue)
      /\ job \in [JobNumbers -> job_t] /\ time \in Nat
      /\ CoreJobs \cap W = {} /\ CoreJobs \cup W \subseteq arrived
  BY <1>1, LibraryTyped
<1>5. /\ PollTo(c, q, job, time)
      /\ the_scheme' = the_scheme /\ arrived' = arrived
  BY DEF scheduler_quantum_expired
<1>6. q \in Seq(JobNumbers) /\ ToSet(q) = W2 /\ IsInjective(q)
  BY <1>2, <1>4, OfferToElements DEF QueueJobs
<1> HIDE DEF q
<1>7. /\ Assign(c, ret') /\ QueueJobs' = W2 \ {ret'} /\ ret' \in W2 \cup {NoJob}
      /\ Served(ret', job, job', time)
  <2>1. /\ Assign(c, ret') /\ QueueJobs' = ToSet(q) \ {ret'} /\ ret' \in ToSet(q) \cup {NoJob}
        /\ Served(ret', job, job', time)
    BY <1>4, <1>5, <1>6, PollServes
  <2> QED BY <1>6, <2>1
<1>8. on0 \in [Cores -> JobNumbers \cup {NoJob}] /\ on0[c] = NoJob
  BY <1>4
<1>9. Placed(on0, c, ret') = core_arr'
  BY <1>4, <1>7 DEF Assign, Placed
<1>10. AllAgree(js, "RR", on0, W2, arrived, job, time)
  BY <1>1, <1>4, UnsetAgrees
<1>11. \A k \in DOMAIN js : js[k].run_time # 0
  <2> DEFINE r == [jobs[i] EXCEPT !.core_id = -1]
  <2>1. r.run_time = jobs[i].run_time
    <3>1. jobs[i] \in simulator_job_t
      BY ElementTyped
    <3> QED BY <3>1, CoreIdSet
  <2>2. js = [jobs EXCEPT ![i] = r]
    OBVIOUS
  <2> HIDE DEF r
  <2> QED BY <1>1, <2>1, <2>2
<1>12. set_active_job(ret', c, js)
  OBVIOUS
<1>13. W2 \in SUBSET JobNumbers
  BY <1>2, <1>4
<1> HIDE DEF j, js, on0, W, W2
<1>14. /\ AllAgree(jobs', "RR", Placed(on0, c, ret'), W2 \ {ret'}, arrived, job', time)
       /\ phase' = phase
       /\ \A k \in DOMAIN jobs' : jobs'[k].run_time # 0
  <2>1. job \in [JobNumbers -> job_t] /\ time \in Nat
    BY <1>4
  <2>2. ret' \in W2 \cup {NoJob} /\ Served(ret', job, job', time)
    BY <1>7
  <2>3. /\ AllAgree(jobs', "RR", Placed(on0, c, ret'), W2 \ {ret'}, arrived, job', time)
        /\ phase' = phase
        /\ (\A k \in DOMAIN js : js[k].run_time # 0) => \A k \in DOMAIN jobs' : jobs'[k].run_time # 0
    BY <1>8, <1>10, <1>12, <1>13, <2>1, <2>2, SetActiveAgrees, Zenon
  <2> QED BY <1>11, <2>3
<1>15. AllAgree(jobs', the_scheme', core_arr', QueueJobs', arrived', job', time')
  BY <1>5, <1>7, <1>9, <1>14, Zenon
<1>16. AliveCounted'
  <2>1. CoreJobs' = (CoreJobs \ {j}) \cup ({ret'} \ {NoJob})
    <3>1. ret' \in JobNumbers \cup {NoJob} /\ (ret' \notin CoreJobs \/ ret' = core_arr[c])
      BY <1>2, <1>4, <1>7, Pointers DEF CoreJobs, W2
    <3> QED BY <1>2, <1>4, <1>7, <3>1, AssignCore
  <2>2. NoJob \notin W2
    BY <1>13, Pointers
  <2>3. (CoreJobs \cup QueueJobs)' = CoreJobs \cup W
    BY <1>2, <1>7, <2>1, <2>2 DEF W2
  <2> QED BY <1>1, <2>3 DEF AliveCounted, W
<1> QED BY <1>3, <1>14, <1>15, <1>16 DEF SimInv, NoneLeftToFinish, NeverGaveUp

-----------------------------------------------------------------------------
\* The array after the arrival of its element i.
LEMMA PutOnCoreElements ==
  ASSUME NEW i \in DOMAIN jobs, jobs \in Seq(simulator_job_t), NEW c \in Cores \cup {-1}
  PROVE  /\ PutOnCore(i, c) \in [DOMAIN jobs -> simulator_job_t]
         /\ PutOnCore(i, c)[i] = Arrived(jobs[i], c)
         /\ \A k \in DOMAIN jobs \ {i} :
              PutOnCore(i, c)[k] =
                IF c # -1 /\ jobs[k].core_id = c THEN ThrownOff(jobs[k]) ELSE jobs[k]
<1> DEFINE js2 == PutOnCore(i, c)
<1>1. \A k \in DOMAIN jobs : jobs[k] \in simulator_job_t
  OBVIOUS
<1>2. /\ DOMAIN js2 = DOMAIN jobs
      /\ js2 = [k \in DOMAIN jobs |-> js2[k]]
  BY Zenon DEF PutOnCore
<1>3. js2[i] = Arrived(jobs[i], c)
  BY Zenon DEF PutOnCore, Arrived
<1>4. ASSUME NEW k \in DOMAIN jobs, k # i
      PROVE  /\ c # -1 /\ jobs[k].core_id = c => js2[k] = ThrownOff(jobs[k])
             /\ ~ (c # -1 /\ jobs[k].core_id = c) => js2[k] = jobs[k]
  BY <1>4, Zenon DEF PutOnCore, ThrownOff
<1> HIDE DEF js2
<1>5. ASSUME NEW k \in DOMAIN jobs PROVE js2[k] \in simulator_job_t
  <2>1. CASE k = i
    BY <1>1, <1>3, <2>1, ArrivedSet
  <2>2. CASE k # i
    BY <1>1, <1>4, <2>2, ThrownOffSet
  <2> QED BY <2>1, <2>2
<1>6. js2 \in [DOMAIN jobs -> simulator_job_t]
  BY <1>2, <1>5
<1> QED BY <1>3, <1>4, <1>6 DEF js2

\* The records as scheduler_new_job has charged them when it places element i.
RecordsFor(i) ==
  WithNewJob(jobs[i].job_id, NewJob(time, jobs[i].run_time, jobs[i].priority), time)

\* What the library has charged agrees with what the simulator counted.
LEMMA ChargesAgree ==
  ASSUME SimInv, NEW i \in DOMAIN jobs, ~ jobs[i].arrived,
         jobs[i].run_time \in Nat \ {0}, jobs[i].priority \in Int
  PROVE  LET jt == RecordsFor(i) IN
         /\ jt \in [JobNumbers -> job_t]
         /\ jt[jobs[i].job_id].remaining_time = jobs[i].run_time
         /\ \A k \in DOMAIN jobs \ {i} : jobs[k].arrived =>
              /\ LeftAgrees(the_scheme, jobs[k], jt[jobs[k].job_id], time)
              /\ jobs[k].core_id # -1 =>
                   LeftAgrees(the_scheme, ThrownOff(jobs[k]), Unstarted(jt[jobs[k].job_id], time), time)
<1> DEFINE j == jobs[i].job_id
           rt == jobs[i].run_time
           p == jobs[i].priority
           jt == RecordsFor(i)
<1> USE DEF RecordsFor
<1>1. /\ \A k \in DOMAIN jobs : jobs[k] \in simulator_job_t /\ jobs[k].job_id \in JobNumbers
      /\ TypeOK /\ time \in Nat /\ job \in [JobNumbers -> job_t]
  BY ElementTyped DEF SimInv, PlacesInv, TypeOK
<1>2. jt \in [JobNumbers -> job_t]
  BY <1>1, WithNewJobRecords
<1>3. /\ jt[j] = NewJob(time, rt, p)
      /\ \A n \in JobNumbers \ {j} : jt[n] = IF n \in CoreJobs THEN Charged(job[n], time) ELSE job[n]
  <2>1. j \in JobNumbers /\ j \notin CoreJobs
    <3>1. j \notin arrived /\ CoreJobs \cup QueueJobs \subseteq arrived
      BY LibraryTyped DEF SimInv, AllAgree, Agrees
    <3> QED BY <1>1, <3>1
  <2>2. jt[j] = NewJob(time, rt, p)
    BY <2>1, Zenon DEF WithNewJob
  <2>3. ASSUME NEW n \in JobNumbers, n # j, n \in CoreJobs PROVE jt[n] = Charged(job[n], time)
    BY <2>3, Zenon DEF WithNewJob
  <2>4. ASSUME NEW n \in JobNumbers, n # j, n \notin CoreJobs PROVE jt[n] = job[n]
    BY <2>4, Zenon DEF WithNewJob
  <2> QED BY <2>2, <2>3, <2>4
<1>4. jt[j].remaining_time = rt
  BY <1>3 DEF NewJob
<1>5. ASSUME NEW k \in DOMAIN jobs \ {i}, jobs[k].arrived
      PROVE  /\ LeftAgrees(the_scheme, jobs[k], jt[jobs[k].job_id], time)
             /\ jobs[k].core_id # -1 =>
                  LeftAgrees(the_scheme, ThrownOff(jobs[k]), Unstarted(jt[jobs[k].job_id], time), time)
  <2> DEFINE n == jobs[k].job_id
  <2>1. n \in JobNumbers /\ n # j /\ job[n] \in job_t
    BY <1>1 DEF SimInv, AllAgree, IdsDiffer
  <2>2. /\ LeftAgrees(the_scheme, jobs[k], job[n], time)
        /\ jobs[k].core_id = -1 => \A c \in Cores : core_arr[c] # n
    BY <1>5 DEF SimInv, AllAgree, Agrees
  <2>3. CASE jobs[k].core_id = -1
    <3>1. n \notin CoreJobs
      BY <2>2, <2>3 DEF CoreJobs
    <3> QED BY <1>3, <2>1, <2>2, <2>3, <3>1
  <2>4. CASE jobs[k].core_id # -1
    <3>1. n \in CoreJobs
      BY <2>1, <2>4, ElementTyped, Pointers DEF CoreJobs
    <3>2. jt[n] = Charged(job[n], time)
      BY <1>3, <2>1, <3>1
    <3>3. jobs[k] \in simulator_job_t
      BY <1>1
    <3> QED BY <1>1, <2>1, <2>2, <2>4, <3>2, <3>3, LeftCharged DEF ThrownOff
  <2> QED BY <2>3, <2>4
<1> QED BY <1>2, <1>4, <1>5

\* The jobs that are placed after job j was, and the count of the living.
LEMMA PlacedJobs ==
  ASSUME PlacesInv, AliveCounted, NEW j \in JobNumbers \ arrived, jobs_alive' = jobs_alive + 1,
         \/ CoreJobs' = CoreJobs \cup {j} /\ QueueJobs' = QueueJobs
         \/ CoreJobs' = CoreJobs /\ QueueJobs' = QueueJobs \cup {j}
         \/ \E c \in Cores : /\ CoreJobs' = (CoreJobs \ {core_arr[c]}) \cup {j}
                             /\ QueueJobs' = QueueJobs \cup ({core_arr[c]} \ {NoJob})
  PROVE  AliveCounted'
<1>1. j \notin CoreJobs \cup QueueJobs
  BY LibraryTyped
<1>2. NoJob \notin CoreJobs
  BY DEF CoreJobs
<1>3. \A c \in Cores : core_arr[c] \in CoreJobs \cup {NoJob}
  BY DEF CoreJobs
<1>4. (CoreJobs \cup QueueJobs)' = (CoreJobs \cup QueueJobs) \cup {j}
  BY <1>2, <1>3
<1>5. /\ IsFiniteSet((CoreJobs \cup QueueJobs) \cup {j})
      /\ Cardinality((CoreJobs \cup QueueJobs) \cup {j}) = Cardinality(CoreJobs \cup QueueJobs) + 1
  BY <1>1, FS_AddElement DEF AliveCounted
<1> QED BY <1>4, <1>5 DEF AliveCounted

LEMMA JobArrivesKeeps == SimInv /\ JobArrives => SimInv' /\ NewJobCall
<1> SUFFICES ASSUME SimInv, NEW i \in ArrivingIndices, phase = "arrive",
                    scheduler_new_job(jobs[i].job_id, time, jobs[i].run_time, jobs[i].priority),
                    jobs_alive' = jobs_alive + 1, jobs' = PutOnCore(i, ret'),
                    phase' = IF ret' \in Cores \cup {-1} THEN phase ELSE "return 3",
                    time' = time
             PROVE  SimInv' /\ NewJobCall
  BY DEF JobArrives
<1> DEFINE j == jobs[i].job_id
           rt == jobs[i].run_time
           p == jobs[i].priority
           jt == RecordsFor(i)
           W == QueueJobs
<1>1. /\ PlacesInv /\ AliveCounted
      /\ AllAgree(jobs, the_scheme, core_arr, W, arrived, job, time)
      /\ jobs \in Seq(simulator_job_t) /\ IdsDiffer(jobs)
      /\ \A k \in DOMAIN jobs : jobs[k].run_time # 0
  BY DEF SimInv, NoneLeftToFinish, AllAgree
<1>2. i \in DOMAIN jobs /\ ~ jobs[i].arrived
  BY DEF ArrivingIndices
<1>3. /\ j \in JobNumbers /\ j \notin arrived /\ j \notin W /\ Kind(jobs[i]) \in Kinds
      /\ \A d \in Cores : core_arr[d] # j
  <2>1. j \in JobNumbers
    BY <1>2, ElementTyped
  <2>2. Agrees(jobs[i], the_scheme, core_arr, W, arrived, job, time)
    BY <1>1, <1>2 DEF AllAgree
  <2> QED BY <1>2, <2>1, <2>2 DEF Agrees
<1>4. rt \in Nat \ {0} /\ p \in Int /\ Kind(jobs[i]).running_time = rt /\ Kind(jobs[i]).priority = p
  BY <1>3, KindsAssumption DEF Kind
<1>5. NewJobCall /\ PlacesInv'
  <2>1. NewJobCall
    BY <1>3, <1>4 DEF NewJobCall
  <2> QED BY <1>1, <2>1, PlacesNewJob
<1>6. /\ core_arr \in [Cores -> JobNumbers \cup {NoJob}] /\ CoresTyped
      /\ OneEach(core_arr) /\ OneCoreEach
      /\ W \in SUBSET JobNumbers /\ job_queue \in Seq(JobNumbers) /\ IsInjective(job_queue)
      /\ time \in Nat /\ TypeOK
  BY <1>1, LibraryTyped DEF PlacesInv
<1>7. /\ jt \in [JobNumbers -> job_t] /\ jt[j].remaining_time = rt
      /\ \A k \in DOMAIN jobs \ {i} : jobs[k].arrived =>
           /\ LeftAgrees(the_scheme, jobs[k], jt[jobs[k].job_id], time)
           /\ jobs[k].core_id # -1 =>
                LeftAgrees(the_scheme, ThrownOff(jobs[k]), Unstarted(jt[jobs[k].job_id], time), time)
  BY <1>2, <1>4, ChargesAgree
<1>8. /\ TakeIdleCore(j, jt, time) \/ PreemptWorst(j, jt, time) \/ Enqueue(j, jt)
      /\ arrived' = arrived \cup {j} /\ the_scheme' = the_scheme
  BY DEF scheduler_new_job, RecordsFor
<1>9. \A k \in DOMAIN jobs :
        /\ jobs[k] \in simulator_job_t /\ jobs[k].job_id \in JobNumbers
        /\ jobs[k].core_id \in Cores \cup {-1}
        /\ k # i => jobs[k].job_id # j
        /\ jobs[k].core_id # -1 => core_arr[jobs[k].core_id] = jobs[k].job_id /\ jobs[k].arrived
  <2>1. \A k \in DOMAIN jobs : Agrees(jobs[k], the_scheme, core_arr, W, arrived, job, time)
    BY <1>1 DEF AllAgree
  <2>2. \A k \in DOMAIN jobs : jobs[k].core_id # -1 => jobs[k].arrived
    BY <2>1 DEF Agrees
  <2> QED BY <1>1, <1>2, <2>2, ElementTyped DEF IdsDiffer
<1>10. /\ NoJob = -1 /\ NoJob \notin JobNumbers /\ NoJob \notin Cores
  BY Pointers DEF NoJob
<1> HIDE DEF jt
<1>11. ASSUME ret' \in Cores \cup {-1}
       PROVE  /\ jobs' \in [DOMAIN jobs -> simulator_job_t]
              /\ jobs'[i] = Arrived(jobs[i], ret')
              /\ \A k \in DOMAIN jobs \ {i} :
                   jobs'[k] = IF ret' # -1 /\ jobs[k].core_id = ret' THEN ThrownOff(jobs[k]) ELSE jobs[k]
              /\ phase' = phase
  <2>1. \A c \in Cores \cup {-1} :
          /\ PutOnCore(i, c) \in [DOMAIN jobs -> simulator_job_t]
          /\ PutOnCore(i, c)[i] = Arrived(jobs[i], c)
          /\ \A k \in DOMAIN jobs \ {i} :
               PutOnCore(i, c)[k] = IF c # -1 /\ jobs[k].core_id = c THEN ThrownOff(jobs[k]) ELSE jobs[k]
    BY <1>1, <1>2, PutOnCoreElements
  <2> QED BY <1>11, <2>1
<1> DEFINE Goal == /\ AllAgree(jobs', the_scheme, core_arr', QueueJobs', arrived \cup {j}, job', time)
                   /\ phase' = phase /\ AliveCounted'
\* A core c, idle or with the worst job, is given to the new one.
<1>12. ASSUME NEW c \in Cores, ret' = c, Assign(c, j), QueueJobs' = W \cup ({core_arr[c]} \ {NoJob}),
              job'[j] = Started(jt[j], time),
              core_arr[c] # NoJob => job'[core_arr[c]] = Unstarted(jt[core_arr[c]], time),
              \A n \in JobNumbers \ {j, core_arr[c]} : job'[n] = jt[n]
       PROVE  Goal
  <2>1. /\ jobs' \in [DOMAIN jobs -> simulator_job_t] /\ jobs'[i] = Arrived(jobs[i], c)
        /\ \A k \in DOMAIN jobs \ {i} :
             jobs'[k] = IF jobs[k].core_id = c THEN ThrownOff(jobs[k]) ELSE jobs[k]
        /\ phase' = phase
    BY <1>10, <1>11, <1>12
  <2>2. ASSUME NEW k \in DOMAIN jobs, jobs'[k].arrived
        PROVE  LeftAgrees(the_scheme, jobs'[k], job'[jobs[k].job_id], time)
    <3>1. CASE k = i
      <4>1. jt[j] \in job_t /\ jobs[i] \in simulator_job_t /\ c # -1
        BY <1>2, <1>3, <1>7, <1>9, <1>10
      <4>2. LeftAgrees(the_scheme, Arrived(jobs[i], c), Started(jt[j], time), time)
        BY <1>6, <1>7, <4>1, LeftStarted DEF Arrived
      <4> QED BY <1>12, <2>1, <3>1, <4>2
    <3>2. CASE k # i /\ jobs[k].core_id = c
      <4>1. core_arr[c] = jobs[k].job_id /\ jobs[k].arrived /\ jobs[k].core_id # -1 /\ core_arr[c] # NoJob
        BY <1>9, <1>10, <3>2
      <4> QED BY <1>7, <1>12, <2>1, <3>2, <4>1
    <3>3. CASE k # i /\ jobs[k].core_id # c
      <4>1. jobs'[k] = jobs[k] /\ jobs[k].arrived
        BY <2>1, <2>2, <3>3
      <4>2. jobs[k].job_id # core_arr[c]
        <5>1. Agrees(jobs[k], the_scheme, core_arr, W, arrived, job, time)
          BY <1>1 DEF AllAgree
        <5>2. CASE jobs[k].core_id = -1
          BY <5>1, <5>2 DEF Agrees
        <5>3. CASE jobs[k].core_id # -1
          <6>1. /\ core_arr[jobs[k].core_id] = jobs[k].job_id /\ jobs[k].core_id \in Cores
                /\ jobs[k].job_id # NoJob
            BY <1>9, <1>10, <5>3
          <6> QED BY <1>6, <3>3, <6>1 DEF OneEach
        <5> QED BY <5>2, <5>3
      <4> QED BY <1>7, <1>9, <1>12, <3>3, <4>1, <4>2
    <3> QED BY <3>1, <3>2, <3>3
  <2>3. AllAgree(jobs', the_scheme, [core_arr EXCEPT ![c] = j], W \cup ({core_arr[c]} \ {NoJob}),
                 arrived \cup {j}, job', time)
    BY <1>1, <1>2, <1>6, <2>1, <2>2, PutAgrees
  <2>4. CoreJobs' = (CoreJobs \ {core_arr[c]}) \cup {j}
    <3>1. j \notin CoreJobs
      BY <1>3 DEF CoreJobs
    <3> QED BY <1>3, <1>6, <1>12, <3>1, AssignJob
  <2>5. AliveCounted'
    BY <1>1, <1>3, <1>12, <2>4, PlacedJobs
  <2> QED BY <1>12, <2>1, <2>3, <2>5, Zenon DEF Assign
<1>13. ASSUME TakeIdleCore(j, jt, time) PROVE Goal
  <2>1. PICK c \in IdleCores : Assign(c, j) /\ ret' = c
    BY <1>13 DEF TakeIdleCore, Assign
  <2>2. job' = [jt EXCEPT ![j] = Started(jt[j], time)] /\ job_queue' = job_queue
    BY <1>13 DEF TakeIdleCore
  <2>3. c \in Cores /\ core_arr[c] = NoJob
    BY <2>1 DEF IdleCores
  <2>4. job'[j] = Started(jt[j], time) /\ \A n \in JobNumbers \ {j} : job'[n] = jt[n]
    BY <1>3, <1>7, <2>2
  <2>5. QueueJobs' = W \cup ({core_arr[c]} \ {NoJob})
    BY <2>2, <2>3 DEF QueueJobs
  <2> QED BY <1>12, <2>1, <2>3, <2>4, <2>5
<1>14. ASSUME PreemptWorst(j, jt, time) PROVE Goal
  <2>1. PICK c \in Cores :
          LET jt2 == [jt EXCEPT ![core_arr[c]] = Unstarted(jt[core_arr[c]], time),
                                ![j] = Started(jt[j], time)]
          IN  /\ IdleCores = {} /\ core_arr' = [core_arr EXCEPT ![c] = j]
              /\ job' = jt2 /\ job_queue' = OfferTo(job_queue, core_arr[c], jt2)
              /\ ret' = c
    BY <1>14 DEF PreemptWorst
  <2> DEFINE worst == core_arr[c]
             jt1 == [jt EXCEPT ![worst] = Unstarted(jt[worst], time)]
             jt2 == [jt1 EXCEPT ![j] = Started(jt[j], time)]
  <2>2. worst \in JobNumbers /\ worst # j /\ worst # NoJob
    BY <1>3, <1>6, <2>1 DEF IdleCores
  <2>3. job' = jt2 /\ job_queue' = OfferTo(job_queue, worst, jt2) /\ Assign(c, j) /\ ret' = c
    BY <2>1 DEF Assign
  <2>4. /\ DOMAIN jt1 = JobNumbers /\ jt1[worst] = Unstarted(jt[worst], time)
        /\ \A n \in JobNumbers \ {worst} : jt1[n] = jt[n]
    BY <1>7, <2>2
  <2> HIDE DEF jt1
  <2>5. jt2[j] = Started(jt[j], time) /\ \A n \in JobNumbers \ {j} : jt2[n] = jt1[n]
    BY <1>3, <2>4
  <2> HIDE DEF jt2
  <2>6. QueueJobs' = W \cup ({core_arr[c]} \ {NoJob})
    BY <1>6, <2>2, <2>3, OfferToElements DEF QueueJobs
  <2>7. /\ job'[j] = Started(jt[j], time) /\ job'[worst] = Unstarted(jt[worst], time)
        /\ \A n \in JobNumbers \ {j, worst} : job'[n] = jt[n]
    BY <2>2, <2>3, <2>4, <2>5
  <2> QED BY <1>12, <2>3, <2>6, <2>7
<1>15. ASSUME Enqueue(j, jt) PROVE Goal
  <2>1. job' = jt /\ ret' = -1 /\ core_arr' = core_arr /\ job_queue' = OfferTo(job_queue, j, jt)
    BY <1>10, <1>15 DEF Enqueue
  <2>2. QueueJobs' = W \cup {j} /\ CoreJobs' = CoreJobs
    BY <1>3, <1>6, <2>1, OfferToElements DEF QueueJobs, CoreJobs
  <2>3. /\ jobs' \in [DOMAIN jobs -> simulator_job_t] /\ jobs'[i] = Arrived(jobs[i], -1)
        /\ \A k \in DOMAIN jobs \ {i} : jobs'[k] = jobs[k]
        /\ phase' = phase
    BY <1>11, <2>1
  <2>4. ASSUME NEW k \in DOMAIN jobs, jobs'[k].arrived
        PROVE  LeftAgrees(the_scheme, jobs'[k], job'[jobs[k].job_id], time)
    <3>1. CASE k = i
      <4>1. jt[j] \in job_t /\ jobs[i] \in simulator_job_t
        BY <1>2, <1>3, <1>7, <1>9
      <4>2. LeftAgrees(the_scheme, Arrived(jobs[i], -1), jt[j], time)
        BY <1>6, <1>7, <4>1, LeftStarted DEF Arrived
      <4> QED BY <2>1, <2>3, <3>1, <4>2
    <3>2. CASE k # i
      BY <1>7, <2>1, <2>3, <2>4, <3>2
    <3> QED BY <3>1, <3>2
  <2>5. AllAgree(jobs', the_scheme, core_arr, W \cup {j}, arrived \cup {j}, job', time)
    BY <1>1, <1>2, <1>6, <2>3, <2>4, WaitAgrees
  <2>6. AliveCounted'
    BY <1>1, <1>3, <2>2, PlacedJobs
  <2> QED BY <2>1, <2>2, <2>3, <2>5, <2>6, Zenon
<1>16. Goal
  BY <1>8, <1>13, <1>14, <1>15
<1>17. AllAgree(jobs', the_scheme', core_arr', QueueJobs', arrived', job', time')
  BY <1>8, <1>16
<1>18. \A k \in DOMAIN jobs' : jobs'[k].run_time # 0
  <2>1. ret' \in Cores \cup {-1}
    BY <1>5, <1>8, <1>10, <1>13, <1>14, <1>15 DEF TakeIdleCore, IdleCores, PreemptWorst, Enqueue
  <2>2. DOMAIN jobs' = DOMAIN jobs
    BY <1>11, <2>1
  <2>3. \A k \in DOMAIN jobs : jobs'[k].run_time = jobs[k].run_time
    <3> TAKE k \in DOMAIN jobs
    <3>1. /\ Arrived(jobs[k], ret').run_time = jobs[k].run_time
          /\ ThrownOff(jobs[k]).run_time = jobs[k].run_time
      BY <1>9, <2>1, ArrivedSet, ThrownOffSet
    <3>2. CASE k = i
      BY <1>11, <2>1, <3>1, <3>2
    <3>3. CASE k # i
      BY <1>11, <2>1, <3>1, <3>3
    <3> QED BY <3>2, <3>3
  <2> QED BY <1>1, <2>2, <2>3
<1> QED BY <1>5, <1>16, <1>17, <1>18 DEF SimInv, NoneLeftToFinish, NeverGaveUp

-----------------------------------------------------------------------------
LEMMA RunTimeUnitKeeps == SimInv /\ RunTimeUnit => SimInv' /\ Tick
<1> SUFFICES ASSUME SimInv, RunTimeUnit PROVE SimInv' /\ Tick
  OBVIOUS
<1> DEFINE running == {i \in DOMAIN jobs : jobs[i].core_id # -1}
           A == AllAgree(jobs, the_scheme, core_arr, QueueJobs, arrived, job, time)
<1>1. /\ PlacesInv /\ AliveCounted /\ A
      /\ \A k \in DOMAIN jobs : jobs[k].run_time # 0
  BY DEF SimInv, NoneLeftToFinish, RunTimeUnit
<1>2. /\ time < MaxTime /\ time' = time + 1 /\ jobs_alive' = jobs_alive
      /\ the_scheme' = the_scheme /\ core_arr' = core_arr /\ job_queue' = job_queue
      /\ finished' = finished /\ job' = job /\ job_count' = job_count /\ ret' = ret
      /\ arrived' = arrived
  BY DEF RunTimeUnit
<1>3. Tick /\ PlacesInv'
  <2>1. Tick
    BY <1>2 DEF Tick
  <2> QED BY <1>1, <2>1, PlacesTick
<1>4. /\ QueueJobs \in SUBSET JobNumbers /\ job \in [JobNumbers -> job_t] /\ time \in Nat
      /\ OneEach(core_arr)
  BY <1>1, LibraryTyped
<1>5. AllAgree(jobs', the_scheme', core_arr', QueueJobs', arrived', job', time')
  <2>1. jobs' = [k \in DOMAIN jobs |-> IF jobs[k].core_id # -1 THEN [jobs[k] EXCEPT !.run_time = @ - 1]
                                                             ELSE jobs[k]]
    BY DEF RunTimeUnit
  <2>2. AllAgree(jobs', the_scheme, core_arr, QueueJobs, arrived, job, time + 1)
    BY <1>1, <1>4, <2>1, UnitAgrees
  <2> QED BY <1>2, <2>2 DEF QueueJobs
<1>6. ASSUME NEW c \in Cores PROVE ~ (Cardinality(OnCore(c)) > 1)
  <2>1. \A i, k \in OnCore(c) : i = k
    <3> TAKE i, k \in OnCore(c)
    <3>1. i \in DOMAIN jobs /\ k \in DOMAIN jobs /\ jobs[i].core_id = c /\ jobs[k].core_id = c /\ c # -1
      BY Pointers DEF OnCore, NoJob
    <3>2. core_arr[c] = jobs[i].job_id /\ core_arr[c] = jobs[k].job_id
      BY <3>1, ElementTyped
    <3> QED BY <1>1, <3>1, <3>2 DEF AllAgree, IdsDiffer
  <2>2. CASE OnCore(c) = {}
    BY <2>2, FS_EmptySet
  <2>3. CASE OnCore(c) # {}
    <3>1. PICK i : OnCore(c) = {i}
      BY <2>1, <2>3
    <3> QED BY <3>1, FS_Singleton
  <2> QED BY <2>2, <2>3
<1>7. jobs_alive > 0 => running # {}
  <2> SUFFICES ASSUME jobs_alive > 0 PROVE running # {}
    OBVIOUS
  <2>1. CoreJobs \cup QueueJobs # {}
    BY <1>1, FS_EmptySet DEF AliveCounted
  <2>2. \E c \in Cores : core_arr[c] # NoJob
    <3>1. CASE CoreJobs # {}
      BY <3>1 DEF CoreJobs
    <3>2. CASE QueueJobs # {}
      <4>1. job_queue # << >>
        BY <3>2 DEF QueueJobs, ToSet
      <4>2. IdleCores = {}
        BY <1>1, <4>1 DEF PlacesInv, WorkConserving
      <4> QED BY <4>2, Pointers DEF IdleCores
    <3> QED BY <2>1, <3>1, <3>2
  <2>3. PICK c \in Cores : core_arr[c] # NoJob
    BY <2>2
  <2>4. PICK k \in DOMAIN jobs : jobs[k].job_id = core_arr[c]
    BY <1>1, <2>3 DEF AllAgree, Known
  <2>5. Agrees(jobs[k], the_scheme, core_arr, QueueJobs, arrived, job, time)
    BY <1>1 DEF AllAgree
  <2>6. jobs[k].core_id # -1
    BY <2>4, <2>5 DEF Agrees
  <2> QED BY <2>6
<1>8. phase' = "finish"
  <2>1. phase' = CASE \E c \in Cores : Cardinality(OnCore(c)) > 1 -> "abort"
                   [] jobs_alive > 0 /\ running = {} -> "return 3"
                   [] OTHER -> "finish"
    BY DEF RunTimeUnit
  <2>2. ~ (\E c \in Cores : Cardinality(OnCore(c)) > 1) /\ ~ (jobs_alive > 0 /\ running = {})
    BY <1>6, <1>7
  <2> QED BY <2>1, <2>2, Zenon
<1>9. AliveCounted'
  BY <1>1, <1>2 DEF AliveCounted, CoreJobs, QueueJobs
<1> QED BY <1>3, <1>5, <1>8, <1>9 DEF SimInv, NoneLeftToFinish, NeverGaveUp

LEMMA PhaseEndsKeep ==
  SimInv /\ (AllFinishesSeen \/ AllQuantumsSeen \/ CleanUp \/ UNCHANGED vars)
    => SimInv' /\ UNCHANGED schedVars
<1> SUFFICES ASSUME SimInv, AllFinishesSeen \/ AllQuantumsSeen \/ CleanUp \/ UNCHANGED vars
             PROVE  SimInv' /\ UNCHANGED schedVars
  OBVIOUS
<1>1. UNCHANGED schedVars /\ jobs' = jobs /\ jobs_alive' = jobs_alive
  BY DEF AllFinishesSeen, AllQuantumsSeen, CleanUp, vars, simVars
<1>2. PlacesInv'
  BY <1>1, PlacesTick DEF SimInv
<1>3. AllAgree(jobs, the_scheme, core_arr, QueueJobs, arrived, job, time)'
  BY <1>1 DEF SimInv, schedVars, QueueJobs
<1>4. AliveCounted'
  BY <1>1 DEF SimInv, schedVars, AliveCounted, CoreJobs, QueueJobs
<1>5. NoneLeftToFinish' /\ NeverGaveUp'
  BY <1>1 DEF SimInv, NoneLeftToFinish, NeverGaveUp, AllFinishesSeen, AllQuantumsSeen, CleanUp,
              FinishedIndices, vars, simVars
<1> QED BY <1>1, <1>2, <1>3, <1>4, <1>5 DEF SimInv

LEMMA SimStarts == Init => SimInv /\ SchedInit
<1> SUFFICES ASSUME Init PROVE SimInv
  BY DEF Init
<1>1. PlacesInv
  BY PlacesInit DEF Init
<1>2. QueueJobs = {} /\ CoreJobs = {} /\ arrived = {} /\ core_arr = [c \in Cores |-> NoJob]
  BY DEF Init, SchedInit, scheduler_start_up, QueueJobs, CoreJobs, ToSet
<1>3. AliveCounted /\ NoneLeftToFinish /\ NeverGaveUp
  BY <1>2, FS_EmptySet DEF Init, AliveCounted, NoneLeftToFinish, NeverGaveUp
<1> DEFINE n == Len(input)
<1>4. n \in Nat /\ DOMAIN input = 1..n /\ jobs = [i \in 1..n |-> LoadedJob(i - 1, input[i])]
  BY JobListsAssumption DEF Init
<1>5. ASSUME NEW i \in 1..n
      PROVE  /\ jobs[i] \in simulator_job_t /\ jobs[i].job_id = i - 1 /\ jobs[i].core_id = -1
             /\ ~ jobs[i].arrived /\ Kind(jobs[i]) \in Kinds /\ jobs[i].run_time # 0
             /\ jobs[i].job_id \in JobNumbers
  <2>1. /\ input[i] \in [arrival_time : Int, run_time : Nat, priority : Int]
        /\ i - 1 \in JobNumbers
        /\ [running_time |-> input[i].run_time, priority |-> input[i].priority] \in Kinds
    <3>1. input \in JobLists /\ i \in DOMAIN input
      BY <1>4 DEF Init
    <3> DEFINE Line == [arrival_time : Int, run_time : Nat, priority : Int]
    <3>2. input \in Seq(Line)
      BY <3>1, JobListsAssumption
    <3>3. /\ i - 1 \in JobNumbers
          /\ [running_time |-> input[i].run_time, priority |-> input[i].priority] \in Kinds
      BY <3>1, JobListsAssumption
    <3>4. input[i] \in Line
      <4> HIDE DEF Line
      <4> QED BY <3>1, <3>2
    <3> QED BY <3>3, <3>4, Zenon
  <2>2. input[i].run_time # 0
    BY <2>1, KindsAssumption
  <2> QED BY <1>4, <2>1, <2>2 DEF LoadedJob, simulator_job_t, Kind
<1>6. jobs \in Seq(simulator_job_t) /\ DOMAIN jobs = 1..n
  BY <1>4, <1>5
<1>7. IdsDiffer(jobs)
  BY <1>4, <1>5, <1>6 DEF IdsDiffer
<1>8. AllAgree(jobs, the_scheme, core_arr, QueueJobs, arrived, job, time)
  BY <1>2, <1>5, <1>6, <1>7, Pointers DEF AllAgree, Agrees
<1> QED BY <1>1, <1>3, <1>8 DEF SimInv
-----------------------------------------------------------------------------
LEMMA StepKeeps == SimInv /\ [Next]_vars => SimInv' /\ [SchedNext]_schedVars
  BY JobFinishesKeeps, QuantumExpiresKeeps, JobArrivesKeeps, RunTimeUnitKeeps, PhaseEndsKeep
     DEF Next, SchedNext

\* The two views agree, in the form in which it is inductive.
THEOREM SimulatorInvariant == Spec => []SimInv
<1>1. Init => SimInv
  BY SimStarts
<1>2. SimInv /\ [Next]_vars => SimInv'
  BY StepKeeps
<1> QED BY <1>1, <1>2, PTL DEF Spec

(* The simulator makes only calls that the library allows, for any number  *)
(* of cores, any file, scheme and quantum: it implements SchedSpec.        *)
THEOREM EveryCallIsLegal == Spec => LibraryUsedLegally
<1>1. Init => SchedInit
  BY DEF Init
<1>2. SimInv /\ [Next]_vars => [SchedNext]_schedVars
  BY StepKeeps
<1> QED BY <1>1, <1>2, SimulatorInvariant, PTL DEF Spec, LibraryUsedLegally, SchedSpec

(* So what is proved of the library with any legal caller holds inside the *)
(* simulator: no job is lost, and no core idles while a job waits.         *)
THEOREM SimulatorLosesNoJob == Spec => [](Conservation /\ WorkConserving)
  BY EveryCallIsLegal, JobsConserved, CoresWorkConserving, PTL DEF LibraryUsedLegally

(* main() never gives up with `return 3' on an answer of the library, and  *)
(* its assertion that no two jobs run on one core never fails.             *)
THEOREM MainNeverGivesUp == Spec => []NeverGaveUp
<1>1. SimInv => NeverGaveUp
  BY DEF SimInv
<1> QED BY <1>1, SimulatorInvariant, PTL

(* The simulator and the library agree on who runs where, on who has       *)
(* arrived and is not done, on their number, and on what is left of each.  *)
THEOREM BothViewsAgree == Spec => []ViewsAgree
<1>1. SimInv => ViewsAgree
  <2> SUFFICES ASSUME SimInv PROVE ViewsAgree
    OBVIOUS
  <2>1. \A i \in DOMAIN jobs :
          /\ Agrees(jobs[i], the_scheme, core_arr, QueueJobs, arrived, job, time)
          /\ jobs[i].job_id \in JobNumbers /\ jobs[i].core_id \in Cores \cup {-1}
    BY ElementTyped DEF SimInv, AllAgree
  <2>2. core_arr \in [Cores -> JobNumbers \cup {NoJob}] /\ OneEach(core_arr)
    BY LibraryTyped DEF SimInv
  <2>3. ASSUME NEW c \in Cores
        PROVE  {jobs[i].job_id : i \in OnCore(c)} = {core_arr[c]} \ {NoJob}
    <3>1. c # -1
      BY Pointers DEF NoJob
    <3>2. \A i \in OnCore(c) : jobs[i].job_id = core_arr[c] /\ core_arr[c] # NoJob
      BY <2>1, <3>1, Pointers DEF OnCore, Agrees
    <3>3. ASSUME core_arr[c] # NoJob PROVE \E i \in OnCore(c) : jobs[i].job_id = core_arr[c]
      <4>1. PICK i \in DOMAIN jobs : jobs[i].job_id = core_arr[c]
        BY <3>3 DEF SimInv, AllAgree, Known
      <4>2. jobs[i].core_id # -1
        BY <2>1, <4>1 DEF Agrees
      <4>3. core_arr[jobs[i].core_id] = core_arr[c] /\ jobs[i].core_id \in Cores
        BY <2>1, <4>1, <4>2 DEF Agrees
      <4>4. jobs[i].core_id = c
        BY <2>2, <3>3, <4>3 DEF OneEach
      <4> QED BY <4>1, <4>4 DEF OnCore
    <3> QED BY <3>2, <3>3
  <2>4. {jobs[i].job_id : i \in {k \in DOMAIN jobs : jobs[k].arrived}} = CoreJobs \cup QueueJobs
    <3>1. ASSUME NEW i \in DOMAIN jobs, jobs[i].arrived
          PROVE  jobs[i].job_id \in CoreJobs \cup QueueJobs
      BY <2>1, <3>1, Pointers DEF Agrees, CoreJobs
    <3>2. ASSUME NEW j \in CoreJobs \cup QueueJobs
          PROVE  \E i \in DOMAIN jobs : jobs[i].arrived /\ jobs[i].job_id = j
      <4>1. \E i \in DOMAIN jobs : jobs[i].job_id = j
        BY DEF SimInv, AllAgree, Known, CoreJobs
      <4>2. PICK i \in DOMAIN jobs : jobs[i].job_id = j
        BY <4>1
      <4>3. jobs[i].arrived
        BY <2>1, <4>2 DEF Agrees, CoreJobs
      <4> QED BY <4>2, <4>3
    <3> QED BY <3>1, <3>2
  <2>5. jobs_alive = Cardinality(CoreJobs \cup QueueJobs)
    BY DEF SimInv, AliveCounted
  <2>6. ASSUME the_scheme # "RR", NEW i \in DOMAIN jobs, jobs[i].arrived
        PROVE  job[jobs[i].job_id].remaining_time = jobs[i].run_time
                 + IF jobs[i].core_id = -1 THEN 0 ELSE time - job[jobs[i].job_id].last_runtime
    BY <2>1, <2>6 DEF Agrees, LeftAgrees
  <2> QED BY <2>3, <2>4, <2>5, <2>6 DEF ViewsAgree
<1> QED BY <1>1, SimulatorInvariant, PTL
-----------------------------------------------------------------------------
(***************************************************************************)
(* What PSJF and PPRI execute in the simulator: the jobs that are best by  *)
(* the input file and by the time that remains.  The library keeps its     *)
(* order by its own records; the views above relate what is left of a job  *)
(* to them, and here follow the priority and the arrival time.             *)
(***************************************************************************)

\* Two records, of the library or of the simulator, are of the same line.
SameLine(a, b) == a.priority = b.priority /\ a.arrival_time = b.arrival_time
\* The element r of the array was q before, on whatever core.
SameElement(r, q) == r.job_id = q.job_id /\ r.arrived = q.arrived /\ SameLine(r, q)

AsRead(js, jt) == \A i \in DOMAIN js : js[i].arrived => SameLine(jt[js[i].job_id], js[i])

LEMMA SameLineKeys == ASSUME NEW a, NEW b, SameKeys(a, b) PROVE SameLine(a, b)
  BY DEF SameKeys, SameLine

LEMMA WithStatsLine == ASSUME NEW t \in Nat, NEW a \in job_t PROVE SameLine(WithStats(a, t), a)
<1> DEFINE w == (t - a.arrival_time) - a.running_time
           b == [a EXCEPT !.waiting_time = w]
           v == a.first_runtime - a.arrival_time
           d == [b EXCEPT !.response_time = v]
           u == t - a.arrival_time
<1>1. w \in Int /\ v \in Int /\ u \in Int
  BY DEF job_t
<1>2. WithStats(a, t) = [d EXCEPT !.turnaround_time = u]
  BY Zenon DEF WithStats
<1> HIDE DEF w, v, u
<1>3. b \in job_t /\ SameLine(b, a)
  BY <1>1 DEF job_t, SameLine
<1> HIDE DEF b
<1>4. d \in job_t /\ SameLine(d, b)
  BY <1>1, <1>3 DEF job_t, SameLine
<1> HIDE DEF d
<1>5. SameLine([d EXCEPT !.turnaround_time = u], d)
  BY <1>1, <1>4 DEF job_t, SameLine
<1> QED BY <1>2, <1>3, <1>4, <1>5 DEF SameLine

LEMMA NewAndCharged ==
  ASSUME NEW t \in Nat
  PROVE  /\ \A a \in job_t : SameLine(Charged(a, t), a)
         /\ \A rt \in Nat \ {0}, p \in Int : /\ NewJob(t, rt, p).priority = p
                                             /\ NewJob(t, rt, p).arrival_time = t
<1>1. ASSUME NEW a \in job_t PROVE SameLine(Charged(a, t), a)
  <2> DEFINE left == a.remaining_time - (t - a.last_runtime)
             b == [a EXCEPT !.remaining_time = left]
  <2>1. left \in Int
    BY DEF job_t
  <2>2. Charged(a, t) = [b EXCEPT !.last_runtime = t]
    BY Zenon DEF Charged
  <2> HIDE DEF left
  <2>3. b \in job_t /\ SameLine(b, a)
    BY <2>1 DEF job_t, SameLine
  <2> HIDE DEF b
  <2>4. SameLine([b EXCEPT !.last_runtime = t], b)
    BY <2>3 DEF job_t, SameLine
  <2> QED BY <2>2, <2>3, <2>4 DEF SameLine
<1> QED BY <1>1 DEF NewJob
-----------------------------------------------------------------------------
\* The calls of the library leave what the file said of the jobs announced.
LEMMA PollKeepsLines ==
  ASSUME NEW c \in Cores, NEW q \in Seq(JobNumbers), NEW t \in Nat,
         NEW jt \in [JobNumbers -> job_t], PollTo(c, q, jt, t)
  PROVE  \A k \in JobNumbers : SameLine(job'[k], jt[k])
<1>1. CASE q = << >>
  BY <1>1, PollRecords DEF SameLine
<1>2. CASE q # << >>
  BY <1>2, PollRecords, SameLineKeys
<1> QED BY <1>1, <1>2

LEMMA FinishedKeepsLines ==
  ASSUME PlacesInv, NEW c \in Cores \ IdleCores, scheduler_job_finished(c, time)
  PROVE  \A k \in JobNumbers : SameLine(job'[k], job[k])
<1> DEFINE j == core_arr[c]
           jt == [job EXCEPT ![j] = WithStats(job[j], time)]
<1>1. /\ j \in JobNumbers /\ job \in [JobNumbers -> job_t]
      /\ job_queue \in Seq(JobNumbers) /\ time \in Nat
  BY DEF PlacesInv, TypeOK, IdleCores
<1>2. job[j] \in job_t /\ WithStats(job[j], time) \in job_t /\ SameLine(WithStats(job[j], time), job[j])
  BY <1>1, WithStatsRecord, WithStatsLine
<1>3. jt \in [JobNumbers -> job_t] /\ \A k \in JobNumbers : SameLine(jt[k], job[k])
  BY <1>1, <1>2 DEF SameLine
<1>4. PollTo(c, job_queue, jt, time)
  BY DEF scheduler_job_finished
<1> HIDE DEF jt
<1>5. \A k \in JobNumbers : SameLine(job'[k], jt[k])
  BY <1>1, <1>3, <1>4, PollKeepsLines
<1> QED BY <1>3, <1>5 DEF SameLine

LEMMA ExpiredKeepsLines ==
  ASSUME PlacesInv, NEW c \in Cores \ IdleCores, scheduler_quantum_expired(c, time)
  PROVE  \A k \in JobNumbers : SameLine(job'[k], job[k])
<1> DEFINE q == OfferTo(job_queue, core_arr[c], job)
<1>1. /\ core_arr[c] \in JobNumbers /\ job \in [JobNumbers -> job_t]
      /\ job_queue \in Seq(JobNumbers) /\ time \in Nat
  BY DEF PlacesInv, TypeOK, IdleCores
<1>2. q \in Seq(JobNumbers)
  BY <1>1, OfferToElements
<1>3. PollTo(c, q, job, time)
  BY DEF scheduler_quantum_expired
<1> QED BY <1>1, <1>2, <1>3, PollKeepsLines

\* So does a new job; its own record gets what it was announced with.
LEMMA NewJobLines ==
  ASSUME PlacesInv, NEW j \in JobNumbers \ arrived, NEW rt \in Nat \ {0}, NEW p \in Int,
         scheduler_new_job(j, time, rt, p)
  PROVE  /\ \A k \in arrived : SameLine(job'[k], job[k])
         /\ job'[j].priority = p /\ job'[j].arrival_time = time
<1> DEFINE jt == WithNewJob(j, NewJob(time, rt, p), time)
<1>1. /\ TypeOK /\ time \in Nat /\ job \in [JobNumbers -> job_t] /\ arrived \subseteq JobNumbers
      /\ core_arr \in [Cores -> JobNumbers \cup {NoJob}]
  BY DEF PlacesInv, TypeOK
<1>2. jt \in [JobNumbers -> job_t]
  BY <1>1, WithNewJobRecords
<1>3. /\ \A k \in arrived : SameLine(jt[k], job[k])
      /\ jt[j].priority = p /\ jt[j].arrival_time = time
  <2>1. /\ jt[j] = NewJob(time, rt, p)
        /\ \A k \in JobNumbers : k # j => jt[k] = Charged(job[k], time) \/ jt[k] = job[k]
    <3>0. j \in JobNumbers /\ j \notin CoreJobs
      BY LibraryTyped
    <3>1. jt[j] = NewJob(time, rt, p)
      BY <3>0, Zenon DEF WithNewJob
    <3>2. ASSUME NEW k \in JobNumbers, k # j, k \in CoreJobs PROVE jt[k] = Charged(job[k], time)
      BY <3>2, Zenon DEF WithNewJob
    <3>3. ASSUME NEW k \in JobNumbers, k # j, k \notin CoreJobs PROVE jt[k] = job[k]
      BY <3>3, Zenon DEF WithNewJob
    <3> QED BY <3>1, <3>2, <3>3
  <2>2. \A k \in JobNumbers : job[k] \in job_t
    BY <1>1
  <2> HIDE DEF jt
  <2>3. jt[j].priority = p /\ jt[j].arrival_time = time
    BY <1>1, <2>1, NewAndCharged
  <2>4. \A k \in arrived : SameLine(jt[k], job[k])
    <3> TAKE k \in arrived
    <3>1. k \in JobNumbers /\ k # j /\ job[k] \in job_t
      BY <1>1, <2>2
    <3>2. SameLine(Charged(job[k], time), job[k])
      BY <1>1, <3>1, NewAndCharged
    <3> QED BY <2>1, <3>1, <3>2 DEF SameLine
  <2> QED BY <2>3, <2>4
<1>4. TakeIdleCore(j, jt, time) \/ PreemptWorst(j, jt, time) \/ Enqueue(j, jt)
  BY DEF scheduler_new_job
<1> HIDE DEF jt
<1>5. \A k \in JobNumbers : SameLine(job'[k], jt[k])
  <2>1. jt[j] \in job_t /\ SameLine(Started(jt[j], time), jt[j])
    <3>1. jt[j] \in job_t
      BY <1>2
    <3> QED BY <1>1, <3>1, StartedRecord, SameLineKeys
  <2>2. CASE TakeIdleCore(j, jt, time)
    <3>1. job' = [jt EXCEPT ![j] = Started(jt[j], time)]
      BY <2>2 DEF TakeIdleCore
    <3> QED BY <1>2, <2>1, <3>1 DEF SameLine
  <2>3. CASE PreemptWorst(j, jt, time)
    <3>1. PICK c \in Cores :
            job' = [jt EXCEPT ![core_arr[c]] = Unstarted(jt[core_arr[c]], time),
                              ![j] = Started(jt[j], time)] /\ IdleCores = {}
      BY <2>3 DEF PreemptWorst
    <3> DEFINE w == core_arr[c]
               jt1 == [jt EXCEPT ![w] = Unstarted(jt[w], time)]
    <3>2. w \in JobNumbers /\ jt[w] \in job_t
      BY <1>1, <1>2, <3>1 DEF IdleCores
    <3>3. SameLine(Unstarted(jt[w], time), jt[w])
      BY <1>1, <3>2, UnstartedRecord, SameLineKeys
    <3>4. \A k \in JobNumbers : SameLine(jt1[k], jt[k])
      BY <1>2, <3>2, <3>3 DEF SameLine
    <3>5. job' = [jt1 EXCEPT ![j] = Started(jt[j], time)] /\ DOMAIN jt1 = JobNumbers
      BY <1>2, <3>1
    <3> HIDE DEF jt1
    <3> QED BY <2>1, <3>4, <3>5 DEF SameLine
  <2>4. CASE Enqueue(j, jt)
    BY <2>4 DEF Enqueue, SameLine
  <2> QED BY <1>4, <2>2, <2>3, <2>4
<1> QED BY <1>1, <1>3, <1>5 DEF SameLine
-----------------------------------------------------------------------------
\* The simulator moves elements and changes their core_id and run_time only.
LEMMA ElementChanges ==
  ASSUME NEW r \in simulator_job_t
  PROVE  /\ \A c : SameElement([r EXCEPT !.core_id = c], r)
         /\ \A n : SameElement([r EXCEPT !.run_time = n], r)
         /\ \A c : LET a == Arrived(r, c) IN a.job_id = r.job_id /\ a.arrived /\ SameLine(a, r)
  BY DEF simulator_job_t, SameElement, SameLine, Arrived

LEMMA SetActiveElements ==
  ASSUME NEW js \in Seq(simulator_job_t), NEW n, NEW c, set_active_job(n, c, js)
  PROVE  DOMAIN jobs' = DOMAIN js /\ \A m \in DOMAIN js : SameElement(jobs'[m], js[m])
<1>1. CASE jobs' = js
  BY <1>1 DEF SameElement, SameLine
<1>2. CASE jobs' # js
  <2>1. PICK i \in DOMAIN js : jobs' = [js EXCEPT ![i].core_id = c]
    BY <1>2 DEF set_active_job
  <2>2. js[i] \in simulator_job_t
    OBVIOUS
  <2> DEFINE r == [js[i] EXCEPT !.core_id = c]
  <2>3. SameElement(r, js[i])
    BY <2>2, ElementChanges
  <2>4. jobs' = [js EXCEPT ![i] = r]
    BY <2>1
  <2> HIDE DEF r
  <2> QED BY <2>3, <2>4 DEF SameElement, SameLine
<1> QED BY <1>1, <1>2

\* Elements that were there before, with records that say the same of them.
LEMMA AsReadKept ==
  ASSUME SimInv, AsRead(jobs, job), \A k \in JobNumbers : SameLine(job'[k], job[k]),
         \A m \in DOMAIN jobs' : \E i \in DOMAIN jobs : SameElement(jobs'[m], jobs[i])
  PROVE  AsRead(jobs', job')
<1> SUFFICES ASSUME NEW m \in DOMAIN jobs', jobs'[m].arrived
             PROVE  SameLine(job'[jobs'[m].job_id], jobs'[m])
  BY DEF AsRead
<1>1. PICK i \in DOMAIN jobs : SameElement(jobs'[m], jobs[i])
  OBVIOUS
<1>2. jobs[i].job_id \in JobNumbers
  BY ElementTyped
<1> QED BY <1>1, <1>2 DEF AsRead, SameElement, SameLine

LEMMA JobFinishesAsRead == SimInv /\ AsRead(jobs, job) /\ JobFinishes => AsRead(jobs', job')
<1> SUFFICES ASSUME SimInv, AsRead(jobs, job), NEW i \in FinishedIndices,
                    scheduler_job_finished(jobs[i].core_id, time),
                    set_active_job(ret', jobs[i].core_id, Delete(jobs, i))
             PROVE  AsRead(jobs', job')
  BY DEF JobFinishes
<1>1. /\ PlacesInv /\ jobs \in Seq(simulator_job_t) /\ i \in DOMAIN jobs /\ IdsDiffer(jobs)
      /\ jobs[i].core_id # -1
  BY DEF SimInv, AllAgree, FinishedIndices, Agrees
<1>2. jobs[i].core_id \in Cores \ IdleCores
  BY <1>1, ElementTyped
<1>3. \A k \in JobNumbers : SameLine(job'[k], job[k])
  BY <1>1, <1>2, FinishedKeepsLines
<1> DEFINE js == Delete(jobs, i)
<1>4. js \in Seq(simulator_job_t) /\ \A m \in DOMAIN js : \E k \in DOMAIN jobs : js[m] = jobs[k]
  BY <1>1, DeleteElements, DeleteIds
<1>5. DOMAIN jobs' = DOMAIN js /\ \A m \in DOMAIN js : SameElement(jobs'[m], js[m])
  BY <1>4, SetActiveElements
<1> HIDE DEF js
<1>6. \A m \in DOMAIN jobs' : \E k \in DOMAIN jobs : SameElement(jobs'[m], jobs[k])
  BY <1>4, <1>5
<1> QED BY <1>3, <1>6, AsReadKept

LEMMA QuantumExpiresAsRead == SimInv /\ AsRead(jobs, job) /\ QuantumExpires => AsRead(jobs', job')
<1> SUFFICES ASSUME SimInv, AsRead(jobs, job), NEW c \in Cores, NEW i \in DOMAIN jobs,
                    jobs[i].core_id = c, scheduler_quantum_expired(c, time),
                    set_active_job(ret', c, [jobs EXCEPT ![i].core_id = -1])
             PROVE  AsRead(jobs', job')
  BY DEF QuantumExpires, ExpiredCores, OnCore, IsFirst
<1>1. PlacesInv /\ jobs \in Seq(simulator_job_t) /\ jobs[i] \in simulator_job_t
  BY ElementTyped DEF SimInv, AllAgree
<1>2. c # -1
  BY Pointers DEF NoJob
<1>3. c \in Cores \ IdleCores
  BY <1>2, ElementTyped
<1>4. \A k \in JobNumbers : SameLine(job'[k], job[k])
  BY <1>1, <1>3, ExpiredKeepsLines
<1> DEFINE r == ThrownOff(jobs[i])
           js == [jobs EXCEPT ![i] = r]
<1>5. r \in simulator_job_t /\ SameElement(r, jobs[i])
  BY <1>1, ThrownOffSet, ElementChanges DEF ThrownOff
<1>6. js = [jobs EXCEPT ![i].core_id = -1]
  BY DEF ThrownOff
<1> HIDE DEF r
<1>7. js \in Seq(simulator_job_t) /\ DOMAIN js = DOMAIN jobs
  BY <1>1, <1>5
<1>8. \A m \in DOMAIN jobs : SameElement(js[m], jobs[m])
  BY <1>1, <1>5 DEF SameElement, SameLine
<1> HIDE DEF js
<1>9. DOMAIN jobs' = DOMAIN js /\ \A m \in DOMAIN js : SameElement(jobs'[m], js[m])
  BY <1>6, <1>7, SetActiveElements
<1>10. \A m \in DOMAIN jobs' : \E k \in DOMAIN jobs : SameElement(jobs'[m], jobs[k])
  BY <1>7, <1>8, <1>9 DEF SameElement, SameLine
<1> QED BY <1>4, <1>10, AsReadKept

LEMMA JobArrivesAsRead == SimInv /\ AsRead(jobs, job) /\ JobArrives => AsRead(jobs', job')
<1> SUFFICES ASSUME SimInv, AsRead(jobs, job), JobArrives PROVE AsRead(jobs', job')
  OBVIOUS
<1>1. PICK i \in ArrivingIndices :
        /\ phase = "arrive"
        /\ scheduler_new_job(jobs[i].job_id, time, jobs[i].run_time, jobs[i].priority)
        /\ jobs' = PutOnCore(i, ret')
  BY DEF JobArrives
<1>2. /\ i \in DOMAIN jobs /\ ~ jobs[i].arrived /\ jobs[i].arrival_time = time
      /\ PlacesInv /\ jobs \in Seq(simulator_job_t) /\ IdsDiffer(jobs)
  BY DEF ArrivingIndices, SimInv, AllAgree
<1>3. /\ jobs[i].job_id \in JobNumbers \ arrived /\ jobs[i].run_time \in Nat \ {0}
      /\ jobs[i].priority \in Int
  <2>1. Agrees(jobs[i], the_scheme, core_arr, QueueJobs, arrived, job, time)
    BY <1>2 DEF SimInv, AllAgree
  <2>2. jobs[i] \in simulator_job_t /\ jobs[i].job_id \in JobNumbers
    BY <1>2, ElementTyped
  <2> QED BY <1>1, <1>2, <2>1, <2>2 DEF Agrees, simulator_job_t, SimInv, NoneLeftToFinish
<1>4. /\ \A k \in arrived : SameLine(job'[k], job[k])
      /\ SameLine(job'[jobs[i].job_id], jobs[i])
  BY <1>1, <1>2, <1>3, NewJobLines DEF SameLine
<1>5. ret' \in Cores \cup {-1}
  BY <1>1, <1>2, <1>3, NewJobMoves DEF PlacesInv, NoJob
<1>6. /\ DOMAIN jobs' = DOMAIN jobs
      /\ jobs'[i] = Arrived(jobs[i], ret')
      /\ \A k \in DOMAIN jobs \ {i} : jobs'[k] = ThrownOff(jobs[k]) \/ jobs'[k] = jobs[k]
  BY <1>1, <1>2, <1>5, PutOnCoreElements
<1> SUFFICES ASSUME NEW m \in DOMAIN jobs, jobs'[m].arrived
             PROVE  SameLine(job'[jobs'[m].job_id], jobs'[m])
  BY <1>6 DEF AsRead
<1>7. jobs[m] \in simulator_job_t
  BY ElementTyped
<1>8. CASE m = i
  <2>1. jobs'[m].job_id = jobs[i].job_id /\ SameLine(jobs'[m], jobs[i])
    BY <1>6, <1>7, <1>8, ElementChanges
  <2> QED BY <1>4, <2>1 DEF SameLine
<1>9. CASE m # i
  <2>1. SameElement(ThrownOff(jobs[m]), jobs[m])
    BY <1>7, ElementChanges DEF ThrownOff
  <2>2. SameElement(jobs'[m], jobs[m])
    BY <1>6, <1>9, <2>1 DEF SameElement, SameLine
  <2>3. Agrees(jobs[m], the_scheme, core_arr, QueueJobs, arrived, job, time)
    BY DEF SimInv, AllAgree
  <2>4. jobs[m].arrived
    BY <2>2 DEF SameElement
  <2>5. jobs[m].job_id \in arrived
    <3>1. CoreJobs \cup QueueJobs \subseteq arrived
      BY <1>2, LibraryTyped
    <3>2. CASE jobs[m].core_id # -1
      <4>1. core_arr[jobs[m].core_id] = jobs[m].job_id /\ jobs[m].core_id \in Cores \ IdleCores
        BY <3>2, ElementTyped
      <4> QED BY <3>1, <4>1 DEF CoreJobs, IdleCores
    <3> QED BY <2>3, <2>4, <3>1, <3>2 DEF Agrees
  <2> QED BY <1>4, <2>2, <2>4, <2>5 DEF AsRead, SameElement, SameLine
<1> QED BY <1>8, <1>9

LEMMA OthersAsRead ==
  SimInv /\ AsRead(jobs, job)
         /\ (RunTimeUnit \/ AllFinishesSeen \/ AllQuantumsSeen \/ CleanUp \/ UNCHANGED vars)
    => AsRead(jobs', job')
<1> SUFFICES ASSUME SimInv, AsRead(jobs, job),
                    RunTimeUnit \/ AllFinishesSeen \/ AllQuantumsSeen \/ CleanUp \/ UNCHANGED vars
             PROVE  AsRead(jobs', job')
  OBVIOUS
<1>1. job' = job
  BY DEF RunTimeUnit, AllFinishesSeen, AllQuantumsSeen, CleanUp, vars, schedVars
<1>2. CASE jobs' = jobs
  BY <1>1, <1>2
<1>3. CASE RunTimeUnit
  <2>1. jobs' = [k \in DOMAIN jobs |-> IF jobs[k].core_id # -1 THEN [jobs[k] EXCEPT !.run_time = @ - 1]
                                                             ELSE jobs[k]]
    BY <1>3 DEF RunTimeUnit
  <2>2. ASSUME NEW m \in DOMAIN jobs PROVE SameElement(jobs'[m], jobs[m])
    <3>1. SameElement([jobs[m] EXCEPT !.run_time = @ - 1], jobs[m]) /\ SameElement(jobs[m], jobs[m])
      BY ElementTyped, ElementChanges DEF SameElement, SameLine
    <3> QED BY <2>1, <3>1, Zenon
  <2>3. DOMAIN jobs' = DOMAIN jobs
    BY <2>1
  <2>4. \A k \in JobNumbers : SameLine(job'[k], job[k])
    BY <1>1 DEF SameLine
  <2> QED BY <2>2, <2>3, <2>4, AsReadKept
<1> QED BY <1>2, <1>3 DEF AllFinishesSeen, AllQuantumsSeen, CleanUp, vars, simVars
-----------------------------------------------------------------------------
\* The records of the jobs that arrived still say what the file said.
THEOREM RecordsStayAsRead == Spec => []AsRead(jobs, job)
<1>1. Init => AsRead(jobs, job)
  BY DEF Init, AsRead, LoadedJob
<1>2. SimInv /\ AsRead(jobs, job) /\ [Next]_vars => AsRead(jobs', job')
  BY JobFinishesAsRead, QuantumExpiresAsRead, JobArrivesAsRead, OthersAsRead DEF Next
<1>3. SimInv /\ AsRead(jobs, job) /\ [Next]_vars => AsRead(jobs, job)'
  BY <1>2
<1> QED BY <1>1, <1>3, SimulatorInvariant, PTL DEF Spec

(* In PSJF and PPRI no job waits that is better, by the file and the time  *)
(* that really remains, than one that is executed: for any number of       *)
(* cores, any file and any collision of arrivals and completions.          *)
THEOREM TheBestAreExecuted == Spec => []RunsTheBest
<1>1. SimInv /\ OrderInv /\ AsRead(jobs, job) => RunsTheBest
  <2> SUFFICES ASSUME SimInv, OrderInv, AsRead(jobs, job), Preemptive,
                      NEW i \in DOMAIN jobs, NEW k \in DOMAIN jobs,
                      jobs[i].core_id # -1, jobs[k].core_id = -1, jobs[k].arrived
               PROVE  LET key(n) == IF the_scheme = "PSJF" THEN jobs[n].run_time ELSE jobs[n].priority
                      IN  \/ key(i) < key(k)
                          \/ key(i) = key(k) /\ jobs[i].arrival_time <= jobs[k].arrival_time
    BY DEF RunsTheBest
  <2> DEFINE a == job[jobs[i].job_id]
             b == job[jobs[k].job_id]
  <2>1. /\ Agrees(jobs[i], the_scheme, core_arr, QueueJobs, arrived, job, time)
        /\ Agrees(jobs[k], the_scheme, core_arr, QueueJobs, arrived, job, time)
        /\ jobs[i] \in simulator_job_t /\ jobs[k] \in simulator_job_t
    BY ElementTyped DEF SimInv, AllAgree
  <2>2. jobs[i].job_id \in CoreJobs /\ jobs[i].job_id \in JobNumbers
    <3>1. /\ core_arr[jobs[i].core_id] = jobs[i].job_id /\ jobs[i].core_id \in Cores \ IdleCores
          /\ jobs[i].job_id \in JobNumbers
      BY ElementTyped
    <3> QED BY <3>1 DEF CoreJobs, IdleCores
  <2>3. jobs[k].job_id \in QueueJobs /\ jobs[k].job_id \in JobNumbers
    BY <2>1, ElementTyped DEF Agrees
  <2>4. /\ a \in job_t /\ b \in job_t /\ time \in Nat
        /\ SameLine(a, jobs[i]) /\ SameLine(b, jobs[k])
    BY <2>1, <2>2, <2>3, LibraryTyped DEF SimInv, AsRead, Agrees
  <2>5. the_scheme \in Preempting /\ the_scheme \in Ordering /\ the_scheme # "RR"
    BY DEF Preemptive, Preempting, Ordering
  <2>6. CompOf(the_scheme, b, a) >= 0 /\ a.last_runtime <= time
    BY <2>2, <2>3, <2>5, NoneBetterMeans DEF OrderInv, NoneBetter, ChargedBefore
  <2>7. /\ the_scheme = "PSJF" =>
             CompOf(the_scheme, b, a) = IF b.remaining_time # a.remaining_time
                                        THEN b.remaining_time - a.remaining_time
                                        ELSE b.arrival_time - a.arrival_time
        /\ the_scheme # "PSJF" =>
             CompOf(the_scheme, b, a) = IF b.priority # a.priority THEN b.priority - a.priority
                                        ELSE b.arrival_time - a.arrival_time
    BY <2>4, <2>5, CompKeys DEF Preempting
  <2>8. /\ a.remaining_time = jobs[i].run_time + (time - a.last_runtime)
        /\ b.remaining_time = jobs[k].run_time
    BY <2>1, <2>5 DEF Agrees, LeftAgrees, simulator_job_t
  <2> HIDE DEF a, b
  <2>9. /\ a.last_runtime \in Int /\ a.remaining_time \in Int /\ b.remaining_time \in Int
        /\ a.priority = jobs[i].priority /\ a.arrival_time = jobs[i].arrival_time
        /\ b.priority = jobs[k].priority /\ b.arrival_time = jobs[k].arrival_time
        /\ jobs[i].priority \in Int /\ jobs[k].priority \in Int
        /\ jobs[i].arrival_time \in Int /\ jobs[k].arrival_time \in Int
        /\ jobs[i].run_time \in Nat /\ jobs[k].run_time \in Nat
    BY <2>1, <2>4 DEF SameLine, job_t, simulator_job_t
  <2> QED BY <2>4, <2>6, <2>7, <2>8, <2>9
<1>2. Spec => []OrderInv
  BY EveryCallIsLegal, OrderInvariant, PTL DEF LibraryUsedLegally
<1> QED BY <1>1, <1>2, SimulatorInvariant, RecordsStayAsRead, PTL
-----------------------------------------------------------------------------
(***************************************************************************)
(* What the timing diagram shows.  The library never sees the time units   *)
(* run: it derives its statistics from the times of its calls, and they    *)
(* are those of the diagram.                                               *)
(***************************************************************************)

\* When a job came, how long it runs and, if it ran, when it did first.
SameSpan(b, a) == b.arrival_time = a.arrival_time /\ b.running_time = a.running_time
SameHistory(b, a) == SameSpan(b, a) /\ b.first_runtime = a.first_runtime

LEMMA SpanOfCharged ==
  ASSUME NEW t \in Nat, NEW a \in job_t
  PROVE  SameHistory(Charged(a, t), a)
<1> DEFINE left == a.remaining_time - (t - a.last_runtime)
           b == [a EXCEPT !.remaining_time = left]
<1>1. left \in Int
  BY DEF job_t
<1>2. Charged(a, t) = [b EXCEPT !.last_runtime = t]
  BY Zenon DEF Charged
<1> HIDE DEF left
<1>3. b \in job_t /\ SameHistory(b, a)
  BY <1>1 DEF job_t, SameHistory, SameSpan
<1> HIDE DEF b
<1>4. SameHistory([b EXCEPT !.last_runtime = t], b)
  BY <1>3 DEF job_t, SameHistory, SameSpan
<1> QED BY <1>2, <1>3, <1>4 DEF SameHistory, SameSpan

LEMMA SpanOfStarted ==
  ASSUME NEW t \in Nat, NEW a \in job_t
  PROVE  SameSpan(Started(a, t), a) /\ Started(a, t).first_runtime = t
<1> DEFINE b == [a EXCEPT !.first_runtime = t]
<1>1. b \in job_t /\ SameSpan(b, a) /\ b.first_runtime = t
  BY DEF job_t, SameSpan
<1>2. Started(a, t) = [b EXCEPT !.last_runtime = t]
  BY Zenon DEF Started
<1> HIDE DEF b
<1>3. SameHistory([b EXCEPT !.last_runtime = t], b)
  BY <1>1 DEF job_t, SameHistory, SameSpan
<1> QED BY <1>1, <1>2, <1>3 DEF SameHistory, SameSpan

LEMMA SpanOfUnstarted ==
  ASSUME NEW t \in Nat, NEW a \in job_t
  PROVE  /\ SameSpan(Unstarted(a, t), a)
         /\ Unstarted(a, t).first_runtime = IF a.first_runtime = t THEN -1 ELSE a.first_runtime
<1> DEFINE f == IF a.first_runtime = t THEN -1 ELSE a.first_runtime
           l == IF a.last_runtime = t THEN -1 ELSE a.last_runtime
           b == [a EXCEPT !.first_runtime = f]
<1>1. f \in Int /\ l \in Int
  BY DEF job_t
<1>2. Unstarted(a, t) = [b EXCEPT !.last_runtime = l]
  BY Zenon DEF Unstarted
<1> HIDE DEF f, l
<1>3. b \in job_t /\ SameSpan(b, a) /\ b.first_runtime = f
  BY <1>1 DEF job_t, SameSpan
<1> HIDE DEF b
<1>4. SameHistory([b EXCEPT !.last_runtime = l], b)
  BY <1>1, <1>3 DEF job_t, SameHistory, SameSpan
<1>5. SameSpan(Unstarted(a, t), a) /\ Unstarted(a, t).first_runtime = f
  BY <1>2, <1>3, <1>4 DEF SameHistory, SameSpan
<1> QED BY <1>5 DEF f

LEMMA SpanOfResumed ==
  ASSUME NEW t \in Nat, NEW a \in job_t
  PROVE  /\ SameSpan(Resumed(a, t), a)
         /\ Resumed(a, t).first_runtime = IF a.first_runtime = -1 THEN t ELSE a.first_runtime
<1> DEFINE f == IF a.first_runtime = -1 THEN t ELSE a.first_runtime
           b == [a EXCEPT !.first_runtime = f]
<1>1. f \in Int
  BY DEF job_t
<1>2. Resumed(a, t) = [b EXCEPT !.last_runtime = t]
  BY Zenon DEF Resumed
<1> HIDE DEF f
<1>3. b \in job_t /\ SameSpan(b, a) /\ b.first_runtime = f
  BY <1>1 DEF job_t, SameSpan
<1> HIDE DEF b
<1>4. SameHistory([b EXCEPT !.last_runtime = t], b)
  BY <1>3 DEF job_t, SameHistory, SameSpan
<1>5. SameSpan(Resumed(a, t), a) /\ Resumed(a, t).first_runtime = f
  BY <1>2, <1>3, <1>4 DEF SameHistory, SameSpan
<1> QED BY <1>5 DEF f

LEMMA SpanWithStats ==
  ASSUME NEW t \in Nat, NEW a \in job_t
  PROVE  LET b == WithStats(a, t)
         IN  /\ SameHistory(b, a)
             /\ b.waiting_time = (t - a.arrival_time) - a.running_time
             /\ b.response_time = a.first_runtime - a.arrival_time
             /\ b.turnaround_time = t - a.arrival_time
<1> DEFINE w == (t - a.arrival_time) - a.running_time
           b == [a EXCEPT !.waiting_time = w]
           v == a.first_runtime - a.arrival_time
           d == [b EXCEPT !.response_time = v]
           u == t - a.arrival_time
           e == [d EXCEPT !.turnaround_time = u]
<1>1. w \in Int /\ v \in Int /\ u \in Int
  BY DEF job_t
<1>2. WithStats(a, t) = e
  BY Zenon DEF WithStats
<1> HIDE DEF w, v, u
<1>3. b \in job_t /\ SameHistory(b, a) /\ b.waiting_time = w
  BY <1>1 DEF job_t, SameHistory, SameSpan
<1> HIDE DEF b
<1>4. d \in job_t /\ SameHistory(d, b) /\ d.waiting_time = b.waiting_time /\ d.response_time = v
  BY <1>1, <1>3 DEF job_t, SameHistory, SameSpan
<1> HIDE DEF d
<1>5. /\ SameHistory(e, d) /\ e.waiting_time = d.waiting_time
      /\ e.response_time = d.response_time /\ e.turnaround_time = u
  BY <1>1, <1>4 DEF job_t, SameHistory, SameSpan
<1> HIDE DEF e
<1>6. /\ SameHistory(e, a) /\ e.waiting_time = w /\ e.response_time = v /\ e.turnaround_time = u
  BY <1>3, <1>4, <1>5 DEF SameHistory, SameSpan
<1> QED BY <1>2, <1>6 DEF w, v, u
-----------------------------------------------------------------------------
\* What the calls do to the places and the records of the jobs.
FinishMoves(j, t) ==
  /\ ret' \in QueueJobs \cup {NoJob}
  /\ CoreJobs' = (CoreJobs \ {j}) \cup ({ret'} \ {NoJob})
  /\ FinishedJobs' = FinishedJobs \cup {j} /\ Len(finished') = Len(finished) + 1
  /\ arrived' = arrived /\ the_scheme' = the_scheme
  /\ job'[j] = WithStats(job[j], t)
  /\ ret' # NoJob => job'[ret'] = Resumed(job[ret'], t)
  /\ \A n \in JobNumbers \ {j, ret'} : job'[n] = job[n]

LEMMA FinishedRecords ==
  ASSUME PlacesInv, NEW c \in Cores \ IdleCores, scheduler_job_finished(c, time)
  PROVE  FinishMoves(core_arr[c], time) /\ Assign(c, ret')
<1> DEFINE j == core_arr[c]
           jt == [job EXCEPT ![j] = WithStats(job[j], time)]
<1>1. /\ core_arr \in [Cores -> JobNumbers \cup {NoJob}] /\ CoresTyped
      /\ OneCoreEach
      /\ job_queue \in Seq(JobNumbers) /\ IsInjective(job_queue)
      /\ job \in [JobNumbers -> job_t] /\ time \in Nat
      /\ CoreJobs \cap QueueJobs = {}
  BY LibraryTyped
<1>2. j \in JobNumbers /\ j \in CoreJobs /\ j \notin QueueJobs
  BY <1>1 DEF IdleCores, CoreJobs
<1>3. /\ jt \in [JobNumbers -> job_t] /\ jt[j] = WithStats(job[j], time)
      /\ \A k \in JobNumbers : k # j => jt[k] = job[k]
  BY <1>1, <1>2, WithStatsRecord
<1>4. /\ PollTo(c, job_queue, jt, time) /\ finished' = priqueue_offer(finished, j, {})
      /\ the_scheme' = the_scheme /\ arrived' = arrived
  BY DEF scheduler_job_finished
<1> HIDE DEF jt
<1>5. /\ Assign(c, ret') /\ QueueJobs' = QueueJobs \ {ret'} /\ ret' \in QueueJobs \cup {NoJob}
      /\ Served(ret', jt, job', time)
  BY <1>1, <1>3, <1>4, PollServes DEF QueueJobs
<1>6. CoreJobs' = (CoreJobs \ {j}) \cup ({ret'} \ {NoJob})
  <2>1. ret' \in JobNumbers \cup {NoJob} /\ ret' \notin CoreJobs
    <3>1. QueueJobs \subseteq JobNumbers
      BY LibraryTyped
    <3> QED BY <1>1, <1>5, <3>1 DEF CoreJobs
  <2> QED BY <1>1, <1>5, <2>1, AssignCore
<1>7. FinishedJobs' = FinishedJobs \cup {j} /\ Len(finished') = Len(finished) + 1
  <2>1. finished \in Seq(JobNumbers) /\ {} \in SUBSET (DOMAIN finished)
    BY DEF PlacesInv, TypeOK
  <2>2. /\ Len(priqueue_offer(finished, j, {})) = Len(finished) + 1
        /\ ToSet(priqueue_offer(finished, j, {})) = ToSet(finished) \cup {j}
    BY <1>2, <2>1, OfferElements
  <2> QED BY <1>4, <2>2 DEF FinishedJobs
<1>8. ret' # j
  BY <1>2, <1>5, Pointers
<1>9. ret' # NoJob => ret' \in JobNumbers /\ jt[ret'] = job[ret']
  <2>1. QueueJobs \subseteq JobNumbers
    BY LibraryTyped
  <2> QED BY <1>3, <1>5, <1>8, <2>1
<1>10. /\ job'[j] = WithStats(job[j], time)
       /\ ret' # NoJob => job'[ret'] = Resumed(job[ret'], time)
       /\ \A n \in JobNumbers \ {j, ret'} : job'[n] = job[n]
  BY <1>2, <1>3, <1>5, <1>8, <1>9 DEF Served
<1> HIDE DEF j
<1>11. FinishMoves(j, time)
  BY <1>4, <1>5, <1>6, <1>7, <1>10 DEF FinishMoves
<1> QED BY <1>5, <1>11 DEF j

ExpireMoves(j, t) ==
  /\ ret' \in QueueJobs \cup {j}
  /\ CoreJobs' = (CoreJobs \ {j}) \cup {ret'}
  /\ finished' = finished /\ arrived' = arrived /\ the_scheme' = the_scheme
  /\ job'[ret'] = Resumed(job[ret'], t)
  /\ \A n \in JobNumbers \ {ret'} : job'[n] = job[n]

LEMMA ExpiredRecords ==
  ASSUME PlacesInv, NEW c \in Cores \ IdleCores, scheduler_quantum_expired(c, time)
  PROVE  ExpireMoves(core_arr[c], time) /\ Assign(c, ret')
<1> DEFINE j == core_arr[c]
           q == OfferTo(job_queue, core_arr[c], job)
<1>1. /\ core_arr \in [Cores -> JobNumbers \cup {NoJob}] /\ CoresTyped
      /\ OneCoreEach
      /\ job_queue \in Seq(JobNumbers) /\ IsInjective(job_queue)
      /\ job \in [JobNumbers -> job_t] /\ time \in Nat
      /\ CoreJobs \cap QueueJobs = {}
  BY LibraryTyped
<1>2. j \in JobNumbers /\ j \in CoreJobs /\ j \notin QueueJobs
  BY <1>1 DEF IdleCores, CoreJobs
<1>3. q \in Seq(JobNumbers) /\ ToSet(q) = QueueJobs \cup {j} /\ IsInjective(q)
  BY <1>1, <1>2, OfferToElements DEF QueueJobs
<1>4. PollTo(c, q, job, time) /\ finished' = finished /\ the_scheme' = the_scheme /\ arrived' = arrived
  BY DEF scheduler_quantum_expired
<1> HIDE DEF q
<1>5. q # << >>
  BY <1>3 DEF ToSet
<1>6. priqueue_peek(q, NoJob) = q[1] /\ q[1] \in JobNumbers /\ q[1] \in ToSet(q)
  BY <1>3, <1>5, PollElements
<1>7. ret' # NoJob
  BY <1>4, <1>6, Pointers DEF PollTo
<1>8. /\ Assign(c, ret') /\ ret' \in ToSet(q) \cup {NoJob}
      /\ Served(ret', job, job', time)
  BY <1>1, <1>3, <1>4, PollServes
<1>9. ret' \in QueueJobs \cup {j} /\ ret' \in JobNumbers
  BY <1>3, <1>4, <1>6, <1>7, <1>8 DEF PollTo
<1>10. CoreJobs' = (CoreJobs \ {j}) \cup {ret'}
  <2>1. ret' \notin CoreJobs \/ ret' = core_arr[c]
    BY <1>1, <1>9
  <2>2. CoreJobs' = (CoreJobs \ {j}) \cup ({ret'} \ {NoJob})
    BY <1>1, <1>8, <1>9, <2>1, AssignCore
  <2> QED BY <1>7, <2>2
<1> HIDE DEF j
<1>11. ExpireMoves(j, time)
  BY <1>4, <1>7, <1>8, <1>9, <1>10 DEF ExpireMoves, Served
<1> QED BY <1>8, <1>11 DEF j

\* A new job gets a core c, idle or taken from the worst job, or waits.
NewMoves(j, rt, t) ==
  /\ arrived' = arrived \cup {j} /\ finished' = finished /\ the_scheme' = the_scheme
  /\ job'[j].arrival_time = t /\ job'[j].running_time = rt
  /\ \A n \in JobNumbers \ (CoreJobs \cup {j}) : job'[n] = job[n]
  /\ \/ \E c \in Cores :
          /\ ret' = c /\ Assign(c, j)
          /\ CoreJobs' = (CoreJobs \ {core_arr[c]}) \cup {j}
          /\ job'[j].first_runtime = t
          /\ core_arr[c] # NoJob =>
               LET b == job'[core_arr[c]]
                   a == job[core_arr[c]]
               IN  SameSpan(b, a) /\ b.first_runtime = IF a.first_runtime = t THEN -1 ELSE a.first_runtime
          /\ \A n \in JobNumbers \ {j, core_arr[c]} : SameHistory(job'[n], job[n])
     \/ /\ ret' = NoJob /\ core_arr' = core_arr /\ CoreJobs' = CoreJobs
        /\ job'[j].first_runtime = -1
        /\ \A n \in JobNumbers \ {j} : SameHistory(job'[n], job[n])

LEMMA NewJobMovesTo ==
  ASSUME PlacesInv, NEW j \in JobNumbers \ arrived, NEW rt \in Nat \ {0}, NEW p \in Int,
         scheduler_new_job(j, time, rt, p)
  PROVE  NewMoves(j, rt, time)
<1> DEFINE jt == WithNewJob(j, NewJob(time, rt, p), time)
<1>1. /\ core_arr \in [Cores -> JobNumbers \cup {NoJob}] /\ CoresTyped
      /\ OneCoreEach
      /\ job \in [JobNumbers -> job_t] /\ time \in Nat /\ CoreJobs \subseteq JobNumbers
      /\ j \notin CoreJobs
  BY LibraryTyped DEF CoreJobs
<1>2. jt \in [JobNumbers -> job_t]
  BY WithNewJobRecords DEF PlacesInv
<1>3. /\ jt[j] = NewJob(time, rt, p)
      /\ \A n \in JobNumbers \ (CoreJobs \cup {j}) : jt[n] = job[n]
      /\ \A n \in CoreJobs : jt[n] = Charged(job[n], time)
  BY <1>1 DEF WithNewJob
<1>4. /\ TakeIdleCore(j, jt, time) \/ PreemptWorst(j, jt, time) \/ Enqueue(j, jt)
      /\ arrived' = arrived \cup {j} /\ finished' = finished /\ the_scheme' = the_scheme
  BY DEF scheduler_new_job
<1> HIDE DEF jt
<1>5. /\ jt[j].arrival_time = time /\ jt[j].running_time = rt /\ jt[j].first_runtime = -1
      /\ jt[j] \in job_t
  BY <1>2, <1>3 DEF NewJob
<1>6. \A n \in JobNumbers \ {j} : SameHistory(jt[n], job[n])
  <2> TAKE n \in JobNumbers \ {j}
  <2>1. CASE n \in CoreJobs
    BY <1>1, <1>3, <2>1, SpanOfCharged
  <2>2. CASE n \notin CoreJobs
    BY <1>3, <2>2 DEF SameHistory, SameSpan
  <2> QED BY <2>1, <2>2
<1>7. SameSpan(Started(jt[j], time), jt[j]) /\ Started(jt[j], time).first_runtime = time
  BY <1>1, <1>5, SpanOfStarted
<1>8. ASSUME NEW c \in Cores, ret' = c, Assign(c, j),
             job'[j] = Started(jt[j], time),
             core_arr[c] # NoJob => job'[core_arr[c]] = Unstarted(jt[core_arr[c]], time),
             \A n \in JobNumbers \ {j, core_arr[c]} : job'[n] = jt[n]
      PROVE  NewMoves(j, rt, time)
  <2> DEFINE w == core_arr[c]
             a == job[w]
             b == job'[w]
  <2>1. CoreJobs' = (CoreJobs \ {w}) \cup {j}
    BY <1>1, <1>8, AssignJob
  <2>2. job'[j].arrival_time = time /\ job'[j].running_time = rt /\ job'[j].first_runtime = time
    BY <1>5, <1>7, <1>8 DEF SameSpan
  <2>3. ASSUME w # NoJob
        PROVE  SameSpan(b, a) /\ b.first_runtime = IF a.first_runtime = time THEN -1 ELSE a.first_runtime
    <3>1. w \in JobNumbers /\ w # j /\ w \in CoreJobs
      BY <1>1, <2>3 DEF CoreJobs
    <3>2. jt[w] \in job_t /\ b = Unstarted(jt[w], time) /\ SameHistory(jt[w], a)
      BY <1>2, <1>6, <1>8, <2>3, <3>1
    <3>3. /\ SameSpan(b, jt[w])
          /\ b.first_runtime = IF jt[w].first_runtime = time THEN -1 ELSE jt[w].first_runtime
      BY <1>1, <3>2, SpanOfUnstarted
    <3> HIDE DEF a, b
    <3> QED BY <3>2, <3>3 DEF SameHistory, SameSpan
  <2>4. \A n \in JobNumbers \ {j, w} : SameHistory(job'[n], job[n])
    BY <1>6, <1>8
  <2>5. \A n \in JobNumbers \ (CoreJobs \cup {j}) : job'[n] = job[n]
    <3>1. w # NoJob => w \in CoreJobs
      BY DEF CoreJobs
    <3>2. NoJob \notin JobNumbers
      BY Pointers
    <3> QED BY <1>3, <1>8, <3>1, <3>2
  <2> QED BY <1>4, <1>8, <2>1, <2>2, <2>3, <2>4, <2>5 DEF NewMoves
<1>9. CASE TakeIdleCore(j, jt, time)
  <2>1. PICK c \in IdleCores : Assign(c, j) /\ ret' = c
    BY <1>9 DEF TakeIdleCore, Assign
  <2>2. job' = [jt EXCEPT ![j] = Started(jt[j], time)]
    BY <1>9 DEF TakeIdleCore
  <2>3. c \in Cores /\ core_arr[c] = NoJob
    BY <2>1 DEF IdleCores
  <2>4. job'[j] = Started(jt[j], time) /\ \A n \in JobNumbers \ {j} : job'[n] = jt[n]
    BY <1>2, <2>2
  <2> QED BY <1>8, <2>1, <2>3, <2>4
<1>10. CASE PreemptWorst(j, jt, time)
  <2>1. PICK c \in Cores :
          LET jt2 == [jt EXCEPT ![core_arr[c]] = Unstarted(jt[core_arr[c]], time),
                                ![j] = Started(jt[j], time)]
          IN  /\ IdleCores = {} /\ core_arr' = [core_arr EXCEPT ![c] = j]
              /\ job' = jt2 /\ ret' = c
    BY <1>10 DEF PreemptWorst
  <2> DEFINE worst == core_arr[c]
             jt1 == [jt EXCEPT ![worst] = Unstarted(jt[worst], time)]
             jt2 == [jt1 EXCEPT ![j] = Started(jt[j], time)]
  <2>2. worst \in JobNumbers /\ worst # j /\ worst # NoJob
    BY <1>1, <2>1 DEF IdleCores, CoreJobs
  <2>3. job' = jt2 /\ Assign(c, j) /\ ret' = c
    BY <2>1 DEF Assign
  <2>4. /\ DOMAIN jt1 = JobNumbers /\ jt1[worst] = Unstarted(jt[worst], time)
        /\ \A n \in JobNumbers \ {worst} : jt1[n] = jt[n]
    BY <1>2, <2>2
  <2> HIDE DEF jt1
  <2>5. jt2[j] = Started(jt[j], time) /\ \A n \in JobNumbers \ {j} : jt2[n] = jt1[n]
    BY <2>4
  <2> HIDE DEF jt2
  <2>6. /\ job'[j] = Started(jt[j], time) /\ job'[worst] = Unstarted(jt[worst], time)
        /\ \A n \in JobNumbers \ {j, worst} : job'[n] = jt[n]
    BY <2>2, <2>3, <2>4, <2>5
  <2> QED BY <1>8, <2>3, <2>6
<1>11. CASE Enqueue(j, jt)
  <2>1. job' = jt /\ ret' = NoJob /\ core_arr' = core_arr
    BY <1>11 DEF Enqueue
  <2>2. CoreJobs' = CoreJobs
    BY <2>1 DEF CoreJobs
  <2> QED BY <1>3, <1>4, <1>5, <1>6, <2>1, <2>2 DEF NewMoves
<1> QED BY <1>4, <1>9, <1>10, <1>11
-----------------------------------------------------------------------------
\* The line of the input file that job j is read from.
Line(j) == input[j + 1]

\* U are the units in which a job ran of which the file says l and the record b.
StatsSay(U, l, b) ==
  /\ Cardinality(U) = l.run_time
  /\ b.response_time = Min(U) - 1 - l.arrival_time
  /\ b.turnaround_time = Max(U) - l.arrival_time
  /\ b.waiting_time = Cardinality({u \in l.arrival_time + 1 .. Max(U) : u \notin U})

\* A record tells the first time unit in which job j really ran, or that in
\* which it will: who is on a core without having run was put there just now.
Began(U, b, j, C, t) ==
  b.first_runtime = IF U # {} THEN Min(U) - 1 ELSE IF j \in C THEN t ELSE -1

\* What the diagram and the file say of an element of the array.
ElementHistory(r) ==
  /\ r.job_id \in Int /\ r.job_id + 1 \in DOMAIN input
  /\ r.arrival_time = Line(r.job_id).arrival_time
  /\ Cardinality(UnitsOf(r.job_id)) + r.run_time = Line(r.job_id).run_time
  /\ r.run_time = 0 => time \in UnitsOf(r.job_id)

\* And of a job that has arrived.
JobHistory(j) ==
  /\ j \in Int /\ j + 1 \in DOMAIN input
  /\ Line(j).arrival_time <= time
  /\ \A u \in UnitsOf(j) : Line(j).arrival_time < u
  /\ job[j].arrival_time = Line(j).arrival_time
  /\ job[j].running_time = Line(j).run_time
  /\ Began(UnitsOf(j), job[j], j, CoreJobs, time)
  /\ j \in FinishedJobs => StatsSay(UnitsOf(j), Line(j), job[j])

DiagramTyped ==
  /\ core_timing_diagram \in [Cores -> Seq(JobNumbers \cup {NoJob})]
  /\ \A c \in Cores : Len(core_timing_diagram[c]) = time

\* A job that has not run since it was put on its core has its whole quantum.
ClocksFresh ==
  the_scheme = "RR" =>
    /\ quantum \in Nat \ {0} /\ DOMAIN quantum_clock = Cores
    /\ \A c \in Cores \ IdleCores : UnitsOf(core_arr[c]) = {} => quantum_clock[c] = quantum

\* The invariant: what the diagram says of every job, and it says it of each once.
HistoryInv ==
  /\ input \in JobLists
  /\ DiagramTyped
  /\ \A i \in DOMAIN jobs : ElementHistory(jobs[i])
  /\ \A j \in JobNumbers \ arrived : UnitsOf(j) = {}
  /\ \A j \in arrived : JobHistory(j)
  /\ ClocksFresh
-----------------------------------------------------------------------------
LEMMA LineTyped ==
  ASSUME input \in JobLists, NEW n \in DOMAIN input
  PROVE  /\ input[n].run_time \in Nat \ {0} /\ input[n].arrival_time \in Int
         /\ input[n].priority \in Int
         /\ Len(input) \in Nat /\ DOMAIN input = 1..Len(input)
<1> DEFINE Record == [arrival_time : Int, run_time : Nat, priority : Int]
<1>1. /\ input \in Seq(Record)
      /\ [running_time |-> input[n].run_time, priority |-> input[n].priority] \in Kinds
  BY JobListsAssumption
<1>2. input[n] \in Record
  <2> HIDE DEF Record
  <2> QED BY <1>1
<1>3. Len(input) \in Nat /\ DOMAIN input = 1..Len(input)
  <2> HIDE DEF Record
  <2> QED BY <1>1
<1>4. input[n].run_time \in Nat \ {0}
  <2> DEFINE k == [running_time |-> input[n].run_time, priority |-> input[n].priority]
  <2>1. k \in [running_time : Nat \ {0}, priority : Int]
    BY <1>1, KindsAssumption
  <2>2. k.running_time = input[n].run_time /\ k.running_time \in Nat \ {0}
    BY <2>1
  <2> QED BY <2>2
<1> QED BY <1>2, <1>3, <1>4

\* Steps that let no time pass leave the diagram, and the units.
LEMMA SameUnits ==
  ASSUME UNCHANGED << core_timing_diagram, time >>
  PROVE  \A j : UnitsOf(j)' = UnitsOf(j)
  BY DEF UnitsOf

LEMMA UnitsTyped ==
  ASSUME NEW j, time \in Nat
  PROVE  UnitsOf(j) \in SUBSET (1..time) /\ IsFiniteSet(UnitsOf(j))
<1>1. UnitsOf(j) \in SUBSET (1..time)
  BY DEF UnitsOf
<1>2. IsFiniteSet(1..time)
  BY FS_Interval
<1> QED BY <1>1, <1>2, FS_Subset

LEMMA MinOfSome ==
  ASSUME NEW n \in Nat, NEW S \in SUBSET (1..n), S # {}
  PROVE  Min(S) \in S /\ \A x \in S : Min(S) <= x
<1>1. PICK m \in S : \A x \in S : m <= x
  <2>1. S \in SUBSET Nat
    OBVIOUS
  <2> QED BY <2>1, LeastOf
<1> QED BY <1>1 DEF Min

LEMMA MaxIsGreatest ==
  ASSUME NEW n \in Nat, NEW S \in SUBSET (1..n), S # {}
  PROVE  Max(S) \in S /\ \A x \in S : x <= Max(S)
<1>1. Max(S) \in S
  BY MaxOfSome
<1> DEFINE T == {(n + 1) - x : x \in S}
<1>2. T \in SUBSET (1..n) /\ T # {}
  OBVIOUS
<1>3. PICK m \in T : \A y \in T : m <= y
  <2>1. T \in SUBSET Nat
    BY <1>2
  <2> QED BY <1>2, <2>1, LeastOf
<1>4. PICK g \in S : m = (n + 1) - g
  BY <1>3
<1>5. \A x \in S : g >= x
  <2> TAKE x \in S
  <2>1. (n + 1) - x \in T
    OBVIOUS
  <2>2. m <= (n + 1) - x
    BY <1>3, <2>1
  <2> QED BY <1>4, <2>2
<1>6. \E m1 \in S : \A x \in S : m1 >= x
  BY <1>4, <1>5
<1>7. \A x \in S : Max(S) >= x
  BY <1>6 DEF Max
<1> QED BY <1>1, <1>7

\* The first unit of a job, as the records tell it.
LEMMA BeganTells ==
  ASSUME NEW n \in Nat, NEW U \in SUBSET (1..n), NEW b, NEW j, NEW C, Began(U, b, j, C, n)
  PROVE  /\ U # {} => b.first_runtime = Min(U) - 1 /\ b.first_runtime \in 0..(n - 1)
         /\ U = {} => b.first_runtime = IF j \in C THEN n ELSE -1
<1>1. U # {} => Min(U) \in 1..n
  BY MinOfSome
<1> DEFINE m == Min(U)
<1>2. U # {} => b.first_runtime = m - 1
  BY DEF Began
<1>3. U = {} => b.first_runtime = IF j \in C THEN n ELSE -1
  BY DEF Began
<1>4. U # {} => m - 1 \in 0..(n - 1)
  <2> SUFFICES ASSUME U # {} PROVE m - 1 \in 0..(n - 1)
    OBVIOUS
  <2>1. m \in 1..n
    BY <1>1
  <2> HIDE DEF m
  <2> QED BY <2>1
<1> QED BY <1>2, <1>3, <1>4
-----------------------------------------------------------------------------
\* The statistics that scheduler_job_finished computes at time n.
LEMMA StatsOfDiagram ==
  ASSUME NEW n \in Nat, NEW U \in SUBSET (1..n), n \in U, NEW l, NEW a, NEW b,
         l.run_time \in Nat, l.arrival_time \in Int, Cardinality(U) = l.run_time,
         \A u \in U : l.arrival_time < u,
         a.arrival_time = l.arrival_time, a.running_time = l.run_time, a.first_runtime = Min(U) - 1,
         b.waiting_time = (n - a.arrival_time) - a.running_time,
         b.response_time = a.first_runtime - a.arrival_time,
         b.turnaround_time = n - a.arrival_time
  PROVE  StatsSay(U, l, b)
<1>1. Max(U) = n
  <2> DEFINE m == Max(U)
  <2>1. m \in U /\ n <= m
    BY MaxIsGreatest
  <2> HIDE DEF m
  <2>2. m \in 1..n
    BY <2>1
  <2>3. m = n
    BY <2>1, <2>2
  <2> QED BY <2>3 DEF m
<1> DEFINE A == l.arrival_time
           I == A + 1 .. n
           W == {u \in A + 1 .. Max(U) : u \notin U}
<1>2. A \in Int /\ A + 1 <= n
  OBVIOUS
<1>3. IsFiniteSet(I) /\ Cardinality(I) = n - A
  <2> HIDE DEF A
  <2>1. A + 1 \in Int /\ n \in Int
    BY <1>2
  <2>2. IsFiniteSet(I) /\ Cardinality(I) = IF A + 1 > n THEN 0 ELSE n - (A + 1) + 1
    BY <2>1, FS_Interval
  <2> QED BY <1>2, <2>2
<1>4. W = I \ U /\ U \subseteq I /\ I \cap U = U
  <2>1. \A u \in U : u \in Int /\ A < u /\ u <= n
    OBVIOUS
  <2>2. U \subseteq I
    <3> HIDE DEF A
    <3>1. \A u \in Int : A < u /\ u <= n => u \in A + 1 .. n
      BY <1>2
    <3> QED BY <2>1, <3>1
  <2>3. W = I \ U
    BY <1>1
  <2> HIDE DEF I
  <2> QED BY <2>2, <2>3
<1>5. Cardinality(W) = Cardinality(I) - Cardinality(U)
  <2> HIDE DEF I, W
  <2>1. Cardinality(I \ U) = Cardinality(I) - Cardinality(I \cap U)
    BY <1>3, FS_Difference
  <2> QED BY <1>4, <2>1
<1>6. Cardinality(W) = (n - A) - l.run_time
  BY <1>3, <1>5
<1>7. b.waiting_time = (n - A) - l.run_time
  OBVIOUS
<1>8. b.response_time = Min(U) - 1 - A
  OBVIOUS
<1>9. b.turnaround_time = Max(U) - A
  BY <1>1
<1> QED BY <1>6, <1>7, <1>8, <1>9 DEF StatsSay

LEMMA JobHistoryKept ==
  ASSUME HistoryInv, UNCHANGED << input, core_timing_diagram, time >>, NEW j \in arrived,
         SameSpan(job'[j], job[j]),
         Began(UnitsOf(j), job'[j], j, CoreJobs', time),
         j \in FinishedJobs' => StatsSay(UnitsOf(j), Line(j), job'[j])
  PROVE  JobHistory(j)'
<1>1. JobHistory(j) /\ UnitsOf(j)' = UnitsOf(j) /\ Line(j)' = Line(j)
  BY SameUnits DEF HistoryInv, Line
<1> QED BY <1>1 DEF JobHistory, SameSpan

\* The simulator moves elements and changes core_id; only time changes run_time.
SameTimes(r, q) == r.job_id = q.job_id /\ r.arrival_time = q.arrival_time /\ r.run_time = q.run_time

LEMMA HistoryKept ==
  ASSUME SimInv, HistoryInv, UNCHANGED << input, core_timing_diagram, time >>,
         \A m \in DOMAIN jobs' : \E i \in DOMAIN jobs : SameTimes(jobs'[m], jobs[i]),
         arrived \subseteq arrived', \A j \in arrived' : JobHistory(j)', ClocksFresh'
  PROVE  HistoryInv'
<1>1. \A j : UnitsOf(j)' = UnitsOf(j) /\ Line(j)' = Line(j)
  BY SameUnits DEF Line
<1>2. ASSUME NEW m \in DOMAIN jobs' PROVE ElementHistory(jobs[m])'
  <2>1. PICK i \in DOMAIN jobs : SameTimes(jobs'[m], jobs[i])
    OBVIOUS
  <2>2. ElementHistory(jobs[i])
    BY DEF HistoryInv
  <2> QED BY <1>1, <2>1, <2>2 DEF ElementHistory, SameTimes
<1>3. \A j \in JobNumbers \ arrived' : UnitsOf(j)' = {}
  BY <1>1 DEF HistoryInv
<1>4. DiagramTyped'
  BY DEF HistoryInv, DiagramTyped
<1> QED BY <1>2, <1>3, <1>4 DEF HistoryInv

LEMMA TimesKept ==
  ASSUME NEW r \in simulator_job_t
  PROVE  /\ \A c : SameTimes([r EXCEPT !.core_id = c], r)
         /\ \A c : SameTimes(Arrived(r, c), r)
         /\ SameTimes(ThrownOff(r), r)
  BY DEF simulator_job_t, SameTimes, Arrived, ThrownOff

LEMMA SetActiveTimes ==
  ASSUME NEW js \in Seq(simulator_job_t), NEW n, NEW c, set_active_job(n, c, js)
  PROVE  DOMAIN jobs' = DOMAIN js /\ \A m \in DOMAIN js : SameTimes(jobs'[m], js[m])
<1>1. CASE jobs' = js
  BY <1>1 DEF SameTimes
<1>2. CASE jobs' # js
  <2>1. PICK i \in DOMAIN js : jobs' = [js EXCEPT ![i].core_id = c]
    BY <1>2 DEF set_active_job
  <2>2. js[i] \in simulator_job_t
    OBVIOUS
  <2> DEFINE r == [js[i] EXCEPT !.core_id = c]
  <2>3. SameTimes(r, js[i])
    BY <2>2, TimesKept
  <2>4. jobs' = [js EXCEPT ![i] = r]
    BY <2>1
  <2> HIDE DEF r
  <2> QED BY <2>3, <2>4 DEF SameTimes
<1> QED BY <1>1, <1>2

\* Who waits and is put on a core: its first run is this one, or was before.
LEMMA ResumedBegan ==
  ASSUME NEW n \in Nat, NEW U \in SUBSET (1..n), NEW a \in job_t, NEW j, NEW C, NEW C2,
         Began(U, a, j, C, n), U # {} \/ j \notin C, j \in C2
  PROVE  SameSpan(Resumed(a, n), a) /\ Began(U, Resumed(a, n), j, C2, n)
<1> DEFINE b == Resumed(a, n)
<1>1. SameSpan(b, a) /\ b.first_runtime = IF a.first_runtime = -1 THEN n ELSE a.first_runtime
  BY SpanOfResumed
<1>2. /\ U # {} => a.first_runtime = Min(U) - 1 /\ a.first_runtime \in 0..(n - 1)
      /\ U = {} => a.first_runtime = IF j \in C THEN n ELSE -1
  BY BeganTells
<1> HIDE DEF b
<1>3. ASSUME U = {} PROVE Began(U, b, j, C2, n)
  BY <1>1, <1>2, <1>3 DEF Began
<1>4. ASSUME U # {} PROVE Began(U, b, j, C2, n)
  <2>1. a.first_runtime # -1
    BY <1>2, <1>4
  <2> QED BY <1>1, <1>2, <1>4, <2>1 DEF Began
<1>5. SameSpan(b, a) /\ Began(U, b, j, C2, n)
  BY <1>1, <1>3, <1>4
<1> QED BY <1>5 DEF b
-----------------------------------------------------------------------------
\* The types that the steps below start from.
LEMMA HistoryTyped ==
  ASSUME SimInv
  PROVE  /\ time \in Nat /\ job \in [JobNumbers -> job_t] /\ arrived \subseteq JobNumbers
         /\ core_arr \in [Cores -> JobNumbers \cup {NoJob}]
         /\ CoreJobs \cap QueueJobs = {} /\ (CoreJobs \cup QueueJobs) \cap FinishedJobs = {}
         /\ CoreJobs \cup QueueJobs \cup FinishedJobs = arrived
         /\ NoJob \notin JobNumbers /\ OneEach(core_arr)
         /\ \A c \in Cores \ IdleCores : core_arr[c] \in CoreJobs
<1>1. PlacesInv
  BY DEF SimInv
<1>2. \A c \in Cores \ IdleCores : core_arr[c] \in CoreJobs
  BY DEF IdleCores, CoreJobs
<1> QED BY <1>1, <1>2, LibraryTyped, Pointers DEF PlacesInv, TypeOK, Conservation

\* A core that is given a job gets a new quantum; the other cores keep theirs.
LEMMA ClocksKept ==
  ASSUME HistoryInv, NEW c \in Cores, quantum_clock' = ResetClock(c), quantum' = quantum,
         UNCHANGED << core_timing_diagram, time >>, the_scheme' = the_scheme,
         \A d \in Cores \ {c} : core_arr'[d] = core_arr[d]
  PROVE  ClocksFresh'
<1> SUFFICES ASSUME the_scheme = "RR"
             PROVE  /\ quantum \in Nat \ {0} /\ DOMAIN quantum_clock' = Cores
                    /\ \A d \in Cores \ IdleCores' : (UnitsOf(core_arr[d]) = {})' => quantum_clock'[d] = quantum
  BY DEF ClocksFresh
<1>1. /\ quantum \in Nat \ {0} /\ DOMAIN quantum_clock = Cores
      /\ \A d \in Cores \ IdleCores : UnitsOf(core_arr[d]) = {} => quantum_clock[d] = quantum
  BY DEF HistoryInv, ClocksFresh
<1>2. quantum_clock' = [quantum_clock EXCEPT ![c] = quantum]
  BY Pointers DEF ResetClock, NoJob
<1>3. \A d \in Cores \ {c} : d \notin IdleCores' => d \notin IdleCores
  BY DEF IdleCores
<1>4. \A d \in Cores \ {c} : (UnitsOf(core_arr[d]))' = UnitsOf(core_arr[d])
  BY DEF UnitsOf
<1> QED BY <1>1, <1>2, <1>3, <1>4

\* What a call does to the history: jobs finish, or arrive now.
Grows == /\ UNCHANGED << core_timing_diagram, time, input >>
         /\ FinishedJobs \subseteq FinishedJobs'
         /\ \A j \in arrived' \ arrived : Line(j).arrival_time = time

LEMMA JobFinishesHistory == SimInv /\ HistoryInv /\ JobFinishes => HistoryInv' /\ Grows
<1> SUFFICES ASSUME SimInv, HistoryInv, NEW i \in FinishedIndices,
                    scheduler_job_finished(jobs[i].core_id, time),
                    quantum_clock' = ResetClock(jobs[i].core_id),
                    set_active_job(ret', jobs[i].core_id, Delete(jobs, i)),
                    UNCHANGED << time, quantum, core_timing_diagram, input >>
             PROVE  HistoryInv' /\ Grows
  BY DEF JobFinishes
<1> DEFINE c == jobs[i].core_id
           j0 == jobs[i].job_id
<1>1. /\ PlacesInv /\ jobs \in Seq(simulator_job_t) /\ i \in DOMAIN jobs /\ IdsDiffer(jobs)
      /\ c # -1 /\ jobs[i].run_time = 0
  BY DEF SimInv, AllAgree, FinishedIndices, Agrees
<1>2. c \in Cores \ IdleCores /\ core_arr[c] = j0 /\ j0 \in JobNumbers
  BY <1>1, ElementTyped
<1>3. FinishMoves(j0, time) /\ Assign(c, ret')
  BY <1>1, <1>2, FinishedRecords
<1>4. /\ time \in Nat /\ job \in [JobNumbers -> job_t] /\ arrived \subseteq JobNumbers
      /\ CoreJobs \cap QueueJobs = {} /\ (CoreJobs \cup QueueJobs) \cap FinishedJobs = {}
      /\ CoreJobs \cup QueueJobs \cup FinishedJobs = arrived /\ NoJob \notin JobNumbers
      /\ j0 \in CoreJobs
  BY <1>2, HistoryTyped
<1>5. \A m \in DOMAIN jobs' : \E k \in DOMAIN jobs : SameTimes(jobs'[m], jobs[k])
  <2> DEFINE js == Delete(jobs, i)
  <2>1. js \in Seq(simulator_job_t) /\ \A m \in DOMAIN js : \E k \in DOMAIN jobs : js[m] = jobs[k]
    BY <1>1, DeleteElements, DeleteIds
  <2>2. DOMAIN jobs' = DOMAIN js /\ \A m \in DOMAIN js : SameTimes(jobs'[m], js[m])
    BY <2>1, SetActiveTimes
  <2> HIDE DEF js
  <2> QED BY <2>1, <2>2
<1>6. ElementHistory(jobs[i])
  BY <1>1 DEF HistoryInv
<1> HIDE DEF c, j0
<1>7. ASSUME NEW j \in arrived PROVE JobHistory(j)'
  <2> DEFINE U == UnitsOf(j)
             l == Line(j)
             a == job[j]
             b == job'[j]
  <2>1. JobHistory(j) /\ j \in JobNumbers /\ a \in job_t
    BY <1>4 DEF HistoryInv
  <2>2. U \in SUBSET (1..time)
    BY <1>4, UnitsTyped
  <2>3. Began(U, a, j, CoreJobs, time)
    BY <2>1 DEF JobHistory
  <2>4. CASE j = j0
    <3>1. l.run_time \in Nat \ {0} /\ l.arrival_time \in Int
      BY <2>1, LineTyped DEF JobHistory, Line, HistoryInv
    <3>2. Cardinality(U) = l.run_time /\ time \in U
      <4>1. Cardinality(U) + jobs[i].run_time = l.run_time /\ time \in U
        BY <1>1, <1>6, <2>4 DEF ElementHistory, j0
      <4>2. Cardinality(U) \in Nat
        BY <1>4, UnitsTyped, FS_CardinalityType
      <4> QED BY <1>1, <4>1, <4>2
    <3>3. b = WithStats(a, time)
      BY <1>3, <2>4 DEF FinishMoves
    <3> HIDE DEF U, a, b
    <3>4. /\ SameHistory(b, a)
          /\ b.waiting_time = (time - a.arrival_time) - a.running_time
          /\ b.response_time = a.first_runtime - a.arrival_time
          /\ b.turnaround_time = time - a.arrival_time
      BY <1>4, <2>1, <3>3, SpanWithStats
    <3>5. a.first_runtime = Min(U) - 1
      BY <2>3, <3>2 DEF Began
    <3>6. StatsSay(U, l, b)
      <4>1. /\ \A u \in U : l.arrival_time < u
            /\ a.arrival_time = l.arrival_time /\ a.running_time = l.run_time
        BY <2>1 DEF JobHistory, U, a
      <4> HIDE DEF l
      <4> QED BY <1>4, <2>2, <3>1, <3>2, <3>4, <3>5, <4>1, StatsOfDiagram
    <3>7. Began(U, b, j, CoreJobs', time)
      BY <3>2, <3>4, <3>5 DEF Began, SameHistory
    <3> QED BY <3>4, <3>6, <3>7, JobHistoryKept DEF SameHistory, U, l, a, b
  <2>5. CASE j = ret'
    <3>1. j \in QueueJobs /\ j \notin FinishedJobs' /\ j \in CoreJobs' /\ b = Resumed(a, time) /\ j \notin CoreJobs
      BY <1>3, <1>4, <2>1, <2>5 DEF FinishMoves
    <3> HIDE DEF U, a, b
    <3>2. SameSpan(b, a) /\ Began(U, b, j, CoreJobs', time)
      BY <1>4, <2>1, <2>2, <2>3, <3>1, ResumedBegan
    <3> QED BY <3>1, <3>2, JobHistoryKept DEF U, a, b
  <2>6. CASE j # j0 /\ j # ret'
    <3>1. b = a /\ (j \in CoreJobs' <=> j \in CoreJobs) /\ (j \in FinishedJobs' <=> j \in FinishedJobs)
      BY <1>3, <2>1, <2>6 DEF FinishMoves
    <3>2. j \in FinishedJobs => StatsSay(U, l, a)
      BY <2>1 DEF JobHistory
    <3>3. Began(U, b, j, CoreJobs', time)
      BY <2>3, <3>1 DEF Began
    <3> QED BY <3>1, <3>2, <3>3, JobHistoryKept DEF SameSpan
  <2> QED BY <2>4, <2>5, <2>6
<1>8. ClocksFresh'
  BY <1>2, <1>3, ClocksKept DEF FinishMoves, Assign, c
<1>9. arrived' = arrived
  BY <1>3 DEF FinishMoves
<1>10. Grows
  BY <1>3 DEF FinishMoves, Grows
<1> QED BY <1>5, <1>7, <1>8, <1>9, <1>10, HistoryKept

LEMMA QuantumExpiresHistory == SimInv /\ HistoryInv /\ QuantumExpires => HistoryInv' /\ Grows
<1> SUFFICES ASSUME SimInv, HistoryInv, NEW c \in Cores, NEW i \in DOMAIN jobs,
                    jobs[i].core_id = c, the_scheme = "RR", quantum_clock[c] = 0,
                    scheduler_quantum_expired(c, time),
                    quantum_clock' = ResetClock(c),
                    set_active_job(ret', c, [jobs EXCEPT ![i].core_id = -1]),
                    UNCHANGED << time, quantum, core_timing_diagram, input >>
             PROVE  HistoryInv' /\ Grows
  BY DEF QuantumExpires, ExpiredCores, OnCore, IsFirst
<1> DEFINE j0 == core_arr[c]
<1>1. PlacesInv /\ jobs \in Seq(simulator_job_t) /\ jobs[i] \in simulator_job_t
  BY ElementTyped DEF SimInv, AllAgree
<1>2. c # -1 /\ c \in Cores \ IdleCores
  <2>1. c # -1
    BY Pointers DEF NoJob
  <2> QED BY <2>1, ElementTyped
<1>3. ExpireMoves(j0, time) /\ Assign(c, ret')
  BY <1>1, <1>2, ExpiredRecords
<1>4. /\ time \in Nat /\ job \in [JobNumbers -> job_t] /\ arrived \subseteq JobNumbers
      /\ CoreJobs \cap QueueJobs = {} /\ (CoreJobs \cup QueueJobs) \cap FinishedJobs = {}
      /\ CoreJobs \cup QueueJobs \cup FinishedJobs = arrived /\ NoJob \notin JobNumbers
      /\ j0 \in CoreJobs
  BY <1>2, HistoryTyped
<1>5. \A m \in DOMAIN jobs' : \E k \in DOMAIN jobs : SameTimes(jobs'[m], jobs[k])
  <2> DEFINE r == ThrownOff(jobs[i])
             js == [jobs EXCEPT ![i] = r]
  <2>1. r \in simulator_job_t /\ SameTimes(r, jobs[i])
    BY <1>1, ThrownOffSet, TimesKept
  <2>2. js = [jobs EXCEPT ![i].core_id = -1]
    BY DEF ThrownOff
  <2> HIDE DEF r
  <2>3. js \in Seq(simulator_job_t) /\ DOMAIN js = DOMAIN jobs
    BY <1>1, <2>1
  <2>4. \A m \in DOMAIN jobs : SameTimes(js[m], jobs[m])
    BY <1>1, <2>1 DEF SameTimes
  <2> HIDE DEF js
  <2>5. DOMAIN jobs' = DOMAIN js /\ \A m \in DOMAIN js : SameTimes(jobs'[m], js[m])
    BY <2>2, <2>3, SetActiveTimes
  <2> QED BY <2>3, <2>4, <2>5 DEF SameTimes
<1>6. UnitsOf(j0) # {}
  BY <1>2 DEF HistoryInv, ClocksFresh
<1>7. ASSUME NEW j \in arrived PROVE JobHistory(j)'
  <2> DEFINE U == UnitsOf(j)
             l == Line(j)
             a == job[j]
             b == job'[j]
  <2>1. JobHistory(j) /\ j \in JobNumbers /\ a \in job_t
    BY <1>4 DEF HistoryInv
  <2>2. U \in SUBSET (1..time)
    BY <1>4, UnitsTyped
  <2>3. Began(U, a, j, CoreJobs, time)
    BY <2>1 DEF JobHistory
  <2>4. j \in FinishedJobs' <=> j \in FinishedJobs
    BY <1>3 DEF ExpireMoves, FinishedJobs
  <2>5. CASE j = ret'
    <3>1. j \notin FinishedJobs' /\ j \in CoreJobs' /\ b = Resumed(a, time) /\ (U # {} \/ j \notin CoreJobs)
      BY <1>3, <1>4, <1>6, <2>4, <2>5 DEF ExpireMoves
    <3> HIDE DEF U, a, b
    <3>2. SameSpan(b, a) /\ Began(U, b, j, CoreJobs', time)
      BY <1>4, <2>1, <2>2, <2>3, <3>1, ResumedBegan
    <3> QED BY <3>1, <3>2, JobHistoryKept DEF U, a, b
  <2>6. CASE j # ret'
    <3>1. b = a /\ (j # j0 => (j \in CoreJobs' <=> j \in CoreJobs))
      BY <1>3, <2>1, <2>6 DEF ExpireMoves
    <3>2. j \in FinishedJobs => StatsSay(U, l, a)
      BY <2>1 DEF JobHistory
    <3>3. Began(U, b, j, CoreJobs', time)
      BY <1>6, <2>3, <3>1 DEF Began
    <3> QED BY <2>4, <3>1, <3>2, <3>3, JobHistoryKept DEF SameSpan
  <2> QED BY <2>5, <2>6
<1>8. ClocksFresh'
  BY <1>2, <1>3, ClocksKept DEF ExpireMoves, Assign
<1>9. arrived' = arrived
  BY <1>3 DEF ExpireMoves
<1>10. Grows
  BY <1>3 DEF ExpireMoves, FinishedJobs, Grows
<1> QED BY <1>5, <1>7, <1>8, <1>9, <1>10, HistoryKept

\* Who is thrown off its core: if it has not run there, it has not run at all.
LEMMA UnstartedBegan ==
  ASSUME NEW n \in Nat, NEW U \in SUBSET (1..n), NEW a, NEW b, NEW j, NEW C, NEW C2,
         Began(U, a, j, C, n), j \in C, j \notin C2,
         b.first_runtime = IF a.first_runtime = n THEN -1 ELSE a.first_runtime
  PROVE  Began(U, b, j, C2, n)
<1>1. /\ U # {} => a.first_runtime = Min(U) - 1 /\ a.first_runtime \in 0..(n - 1)
      /\ U = {} => a.first_runtime = n
  BY BeganTells
<1>2. CASE U = {}
  BY <1>1, <1>2 DEF Began
<1>3. CASE U # {}
  <2>1. a.first_runtime # n
    BY <1>1, <1>3
  <2> QED BY <1>1, <1>3, <2>1 DEF Began
<1> QED BY <1>2, <1>3

LEMMA JobArrivesHistory == SimInv /\ HistoryInv /\ JobArrives => HistoryInv' /\ Grows
<1> SUFFICES ASSUME SimInv, HistoryInv, NEW i \in ArrivingIndices, phase = "arrive",
                    NEW j0, j0 = jobs[i].job_id, NEW rt, rt = jobs[i].run_time,
                    scheduler_new_job(j0, time, rt, jobs[i].priority),
                    jobs' = PutOnCore(i, ret'), quantum_clock' = ResetClock(ret'),
                    UNCHANGED << time, quantum, core_timing_diagram, input >>
             PROVE  HistoryInv' /\ Grows
  BY DEF JobArrives
<1>1. /\ i \in DOMAIN jobs /\ ~ jobs[i].arrived /\ jobs[i].arrival_time = time
      /\ PlacesInv /\ jobs \in Seq(simulator_job_t) /\ IdsDiffer(jobs)
  BY DEF ArrivingIndices, SimInv, AllAgree
<1>2. /\ j0 \in JobNumbers \ arrived /\ rt \in Nat \ {0}
      /\ jobs[i].priority \in Int
  <2>1. Agrees(jobs[i], the_scheme, core_arr, QueueJobs, arrived, job, time)
    BY <1>1 DEF SimInv, AllAgree
  <2>2. jobs[i] \in simulator_job_t /\ j0 \in JobNumbers
    BY <1>1, ElementTyped
  <2> QED BY <1>1, <2>1, <2>2 DEF Agrees, simulator_job_t, SimInv, NoneLeftToFinish
<1>3. NewMoves(j0, rt, time)
  BY <1>1, <1>2, NewJobMovesTo
<1>4. /\ time \in Nat /\ job \in [JobNumbers -> job_t] /\ arrived \subseteq JobNumbers
      /\ core_arr \in [Cores -> JobNumbers \cup {NoJob}] /\ NoJob \notin Cores /\ OneEach(core_arr)
      /\ CoreJobs \cap QueueJobs = {} /\ (CoreJobs \cup QueueJobs) \cap FinishedJobs = {}
      /\ CoreJobs \cup QueueJobs \cup FinishedJobs = arrived /\ NoJob \notin JobNumbers
  BY HistoryTyped, Pointers
<1>5. ret' \in Cores \cup {-1}
  BY <1>3 DEF NewMoves, NoJob
<1>6. \A m \in DOMAIN jobs' : \E k \in DOMAIN jobs : SameTimes(jobs'[m], jobs[k])
  <2>1. /\ DOMAIN jobs' = DOMAIN jobs
        /\ jobs'[i] = Arrived(jobs[i], ret')
        /\ \A k \in DOMAIN jobs \ {i} : jobs'[k] = ThrownOff(jobs[k]) \/ jobs'[k] = jobs[k]
    BY <1>1, <1>5, PutOnCoreElements
  <2>2. ASSUME NEW m \in DOMAIN jobs PROVE SameTimes(jobs'[m], jobs[m])
    <3>1. jobs[m] \in simulator_job_t
      BY ElementTyped
    <3>2. SameTimes(Arrived(jobs[m], ret'), jobs[m]) /\ SameTimes(ThrownOff(jobs[m]), jobs[m])
      BY <3>1, TimesKept
    <3> QED BY <2>1, <3>2 DEF SameTimes
  <2> QED BY <2>1, <2>2
<1>7. ElementHistory(jobs[i]) /\ UnitsOf(j0) = {}
  BY <1>1, <1>2 DEF HistoryInv
\* The new job itself.
<1>8. JobHistory(j0)'
  <2>1. /\ j0 \in Int /\ j0 + 1 \in DOMAIN input /\ Line(j0).arrival_time = time
        /\ Cardinality(UnitsOf(j0)) + rt = Line(j0).run_time
    BY <1>1, <1>7 DEF ElementHistory
  <2>2. Line(j0).run_time = rt
    BY <1>2, <1>7, <2>1, FS_EmptySet
  <2>3. UnitsOf(j0)' = {} /\ Line(j0)' = Line(j0)
    BY <1>7, SameUnits DEF Line
  <2>4. j0 \notin FinishedJobs'
    BY <1>2, <1>3, <1>4 DEF NewMoves, FinishedJobs
  <2>5. job'[j0].arrival_time = time /\ job'[j0].running_time = rt
    BY <1>3 DEF NewMoves
  <2>6. job'[j0].first_runtime = IF j0 \in CoreJobs' THEN time ELSE -1
    <3>1. j0 \notin CoreJobs
      BY <1>2, <1>4
    <3> QED BY <1>3, <3>1 DEF NewMoves
  <2>7. Began(UnitsOf(j0)', job'[j0], j0, CoreJobs', time')
    BY <2>3, <2>6 DEF Began
  <2>8. Line(j0).arrival_time <= time
    BY <1>4, <2>1
  <2> QED BY <2>1, <2>2, <2>3, <2>4, <2>5, <2>7, <2>8 DEF JobHistory
<1>9. ASSUME NEW j \in arrived PROVE JobHistory(j)'
  <2> DEFINE U == UnitsOf(j)
             l == Line(j)
             a == job[j]
             b == job'[j]
  <2>1. JobHistory(j) /\ j \in JobNumbers /\ a \in job_t /\ j # j0
    BY <1>2, <1>4 DEF HistoryInv
  <2>2. U \in SUBSET (1..time)
    BY <1>4, UnitsTyped
  <2>3. Began(U, a, j, CoreJobs, time)
    BY <2>1 DEF JobHistory
  <2>4. j \in FinishedJobs' => StatsSay(U, l, b)
    <3>1. FinishedJobs' = FinishedJobs
      BY <1>3 DEF NewMoves, FinishedJobs
    <3>2. j \in FinishedJobs => b = a
      BY <1>3, <1>4, <2>1 DEF NewMoves
    <3> QED BY <2>1, <3>1, <3>2 DEF JobHistory
  <2>5. SameSpan(b, a) /\ Began(U, b, j, CoreJobs', time)
    <3>1. CASE SameHistory(b, a) /\ (j \in CoreJobs' <=> j \in CoreJobs)
      BY <2>3, <3>1 DEF Began, SameHistory
    <3>2. ASSUME NEW c \in Cores, core_arr[c] = j, CoreJobs' = (CoreJobs \ {j}) \cup {j0},
                 SameSpan(b, a), b.first_runtime = IF a.first_runtime = time THEN -1 ELSE a.first_runtime
          PROVE  SameSpan(b, a) /\ Began(U, b, j, CoreJobs', time)
      <4>1. j \in CoreJobs /\ j \notin CoreJobs'
        BY <1>4, <2>1, <3>2 DEF CoreJobs
      <4> HIDE DEF U, a, b
      <4> QED BY <1>4, <2>2, <2>3, <3>2, <4>1, UnstartedBegan
    <3>3. CASE ret' = NoJob
      BY <1>3, <1>4, <2>1, <3>1, <3>3 DEF NewMoves
    <3>4. CASE ret' # NoJob
      <4>1. PICK c \in Cores :
              /\ CoreJobs' = (CoreJobs \ {core_arr[c]}) \cup {j0}
              /\ core_arr[c] # NoJob =>
                   LET b2 == job'[core_arr[c]]
                       a2 == job[core_arr[c]]
                   IN  /\ SameSpan(b2, a2)
                       /\ b2.first_runtime = IF a2.first_runtime = time THEN -1 ELSE a2.first_runtime
              /\ \A n \in JobNumbers \ {j0, core_arr[c]} : SameHistory(job'[n], job[n])
        BY <1>3, <3>4 DEF NewMoves
      <4>2. CASE core_arr[c] = j
        <5>1. j # NoJob
          BY <1>4, <2>1
        <5> QED BY <3>2, <4>1, <4>2, <5>1
      <4>3. CASE core_arr[c] # j
        BY <2>1, <3>1, <4>1, <4>3
      <4> QED BY <4>2, <4>3
    <3> QED BY <3>3, <3>4
  <2> QED BY <2>4, <2>5, JobHistoryKept
<1>10. ClocksFresh'
  <2>1. CASE ret' = NoJob
    <3>1. core_arr' = core_arr /\ quantum_clock' = quantum_clock /\ the_scheme' = the_scheme
      BY <1>3, <1>4, <2>1 DEF NewMoves, ResetClock, NoJob
    <3>2. \A c \in Cores : (UnitsOf(core_arr[c]))' = UnitsOf(core_arr[c])
      BY <3>1 DEF UnitsOf
    <3>3. IdleCores' = IdleCores
      BY <3>1 DEF IdleCores
    <3> QED BY <3>1, <3>2, <3>3 DEF HistoryInv, ClocksFresh
  <2>2. CASE ret' # NoJob
    <3>1. PICK c \in Cores : ret' = c /\ Assign(c, j0)
      BY <1>3, <2>2 DEF NewMoves
    <3>2. the_scheme' = the_scheme
      BY <1>3 DEF NewMoves
    <3> QED BY <3>1, <3>2, ClocksKept DEF Assign
  <2> QED BY <2>1, <2>2
<1>11. arrived' = arrived \cup {j0}
  BY <1>3 DEF NewMoves
<1>12. Grows
  BY <1>1, <1>3, <1>7, <1>11 DEF NewMoves, FinishedJobs, ElementHistory, Grows
<1> QED BY <1>6, <1>8, <1>9, <1>10, <1>11, <1>12, HistoryKept
-----------------------------------------------------------------------------
\* A time unit appends to the diagram whom the library has on the cores.
LEMMA DiagramExtended ==
  ASSUME SimInv, DiagramTyped, RunTimeUnit
  PROVE  /\ DiagramTyped' /\ time' = time + 1
         /\ \A c \in Cores :
              /\ core_timing_diagram'[c][time + 1] = core_arr[c]
              /\ \A u \in 1..time : core_timing_diagram'[c][u] = core_timing_diagram[c][u]
<1>1. /\ time' = time + 1 /\ core_timing_diagram' = Extended(core_timing_diagram)
      /\ core_arr \in [Cores -> JobNumbers \cup {NoJob}] /\ OneEach(core_arr) /\ time \in Nat
  BY HistoryTyped DEF RunTimeUnit
<1>2. ASSUME NEW c \in Cores
      PROVE  core_arr[c] = IF OnCore(c) = {} THEN NoJob ELSE jobs[CHOOSE i \in OnCore(c) : TRUE].job_id
  <2>1. CASE OnCore(c) = {}
    <3>1. ASSUME core_arr[c] # NoJob PROVE FALSE
      <4>1. PICK i \in DOMAIN jobs : jobs[i].job_id = core_arr[c]
        BY <3>1 DEF SimInv, AllAgree, Known
      <4>2. Agrees(jobs[i], the_scheme, core_arr, QueueJobs, arrived, job, time)
        BY DEF SimInv, AllAgree
      <4>3. jobs[i].core_id # -1 /\ jobs[i].core_id \in Cores /\ core_arr[jobs[i].core_id] = core_arr[c]
        BY <4>1, <4>2, ElementTyped DEF Agrees
      <4>4. jobs[i].core_id = c
        BY <1>1, <3>1, <4>3 DEF OneEach
      <4> QED BY <2>1, <4>4 DEF OnCore
    <3> QED BY <2>1, <3>1
  <2>2. CASE OnCore(c) # {}
    <3>1. PICK i \in OnCore(c) : i = CHOOSE k \in OnCore(c) : TRUE
      BY <2>2
    <3>2. jobs[i].core_id = c /\ c # -1 /\ i \in DOMAIN jobs
      BY Pointers DEF OnCore, NoJob
    <3>3. core_arr[c] = jobs[i].job_id
      BY <3>2, ElementTyped
    <3> QED BY <2>2, <3>1, <3>3
  <2> QED BY <2>1, <2>2
<1>3. /\ DOMAIN core_timing_diagram' = Cores
      /\ core_timing_diagram' = [c \in Cores |-> core_timing_diagram'[c]]
      /\ \A c \in Cores : core_timing_diagram'[c] = Append(core_timing_diagram[c], core_arr[c])
  <2> DEFINE x(c) == IF OnCore(c) = {} THEN NoJob ELSE jobs[CHOOSE i \in OnCore(c) : TRUE].job_id
  <2>1. core_timing_diagram' = [c \in Cores |-> Append(core_timing_diagram[c], x(c))]
    BY <1>1, Zenon DEF Extended
  <2>2. \A c \in Cores : core_arr[c] = x(c)
    BY <1>2, Zenon
  <2> HIDE DEF x
  <2> QED BY <2>1, <2>2
<1>4. ASSUME NEW c \in Cores
      PROVE  /\ core_timing_diagram'[c] \in Seq(JobNumbers \cup {NoJob})
             /\ Len(core_timing_diagram'[c]) = time + 1
             /\ core_timing_diagram'[c][time + 1] = core_arr[c]
             /\ \A u \in 1..time : core_timing_diagram'[c][u] = core_timing_diagram[c][u]
  <2> DEFINE S == JobNumbers \cup {NoJob}
             q == core_timing_diagram[c]
             x == core_arr[c]
  <2>1. q \in Seq(S) /\ x \in S /\ Len(q) = time
    BY <1>1 DEF DiagramTyped
  <2>2. core_timing_diagram'[c] = Append(q, x)
    BY <1>3
  <2> HIDE DEF S, q, x
  <2>3. /\ Append(q, x) \in Seq(S) /\ Len(Append(q, x)) = time + 1 /\ Append(q, x)[time + 1] = x
        /\ \A u \in 1..time : Append(q, x)[u] = q[u]
    BY <1>1, <2>1
  <2> QED BY <2>2, <2>3 DEF S, q, x
<1>5. core_timing_diagram' \in [Cores -> Seq(JobNumbers \cup {NoJob})]
  <2> DEFINE S == Seq(JobNumbers \cup {NoJob})
             d == core_timing_diagram'
  <2>1. d = [c \in Cores |-> d[c]] /\ \A c \in Cores : d[c] \in S
    BY <1>3, <1>4
  <2> HIDE DEF S, d
  <2>2. d \in [Cores -> S]
    BY <2>1
  <2> QED BY <2>2 DEF S, d
<1> QED BY <1>1, <1>4, <1>5 DEF DiagramTyped

LEMMA UnitsExtended ==
  ASSUME SimInv, DiagramTyped, RunTimeUnit, NEW j \in JobNumbers
  PROVE  (UnitsOf(j))' = UnitsOf(j) \cup (IF j \in CoreJobs THEN {time + 1} ELSE {})
<1>1. /\ time' = time + 1 /\ time \in Nat /\ j # NoJob
      /\ \A c \in Cores :
           /\ core_timing_diagram'[c][time + 1] = core_arr[c]
           /\ \A u \in 1..time : core_timing_diagram'[c][u] = core_timing_diagram[c][u]
  BY DiagramExtended, HistoryTyped
<1> DEFINE U2 == {u \in 1..(time + 1) : \E c \in Cores : core_timing_diagram'[c][u] = j}
<1>2. (UnitsOf(j))' = U2
  BY <1>1 DEF UnitsOf
<1>3. (\E c \in Cores : core_timing_diagram'[c][time + 1] = j) <=> j \in CoreJobs
  BY <1>1 DEF CoreJobs
<1>4. \A u \in 1..time : u \in U2 <=> u \in UnitsOf(j)
  BY <1>1 DEF UnitsOf
<1>5. 1..(time + 1) = (1..time) \cup {time + 1} /\ UnitsOf(j) \subseteq 1..time /\ time + 1 \notin 1..time
  BY <1>1 DEF UnitsOf
<1>6. time + 1 \in U2 <=> j \in CoreJobs
  BY <1>1, <1>3
<1>7. U2 \subseteq (1..time) \cup {time + 1}
  BY <1>5
<1> HIDE DEF U2
<1> QED BY <1>2, <1>4, <1>5, <1>6, <1>7

\* Who runs for the first time was put on its core in this unit, or has
\* been on it since without having run.
LEMMA UnitBegan ==
  ASSUME NEW n \in Nat, NEW U \in SUBSET (1..n), NEW b, NEW j, NEW C, Began(U, b, j, C, n)
  PROVE  /\ j \in C => Began(U \cup {n + 1}, b, j, C, n + 1)
         /\ j \notin C => Began(U, b, j, C, n + 1)
<1> DEFINE V == U \cup {n + 1}
<1>1. V \in SUBSET (1..(n + 1)) /\ V # {} /\ n + 1 \in Nat
  OBVIOUS
<1> DEFINE m == Min(V)
           k == Min(U)
<1>2. m \in V /\ \A x \in V : m <= x
  BY <1>1, MinOfSome
<1>3. U # {} => k \in U /\ \A x \in U : k <= x
  BY MinOfSome
<1>4. U # {} => m = k
  <2> SUFFICES ASSUME U # {} PROVE m = k
    OBVIOUS
  <2> HIDE DEF m, k
  <2>1. k \in 1..n /\ k \in V
    BY <1>3
  <2>2. m <= k /\ m \in 1..n + 1
    BY <1>1, <1>2, <2>1
  <2>3. m # n + 1
    BY <2>1, <2>2
  <2>4. m \in U
    BY <1>2, <2>3
  <2>5. k <= m
    BY <1>3, <2>4
  <2> QED BY <2>1, <2>2, <2>5
<1>5. U = {} => m = n + 1
  BY <1>2
<1>6. ASSUME j \in C PROVE Began(V, b, j, C, n + 1)
  <2>1. CASE U = {}
    <3>1. b.first_runtime = n
      BY <1>6, <2>1 DEF Began
    <3>2. b.first_runtime = m - 1
      BY <1>5, <2>1, <3>1
    <3> QED BY <1>1, <3>2 DEF Began
  <2>2. CASE U # {}
    <3>1. b.first_runtime = k - 1
      BY <2>2 DEF Began
    <3>2. b.first_runtime = m - 1
      BY <1>4, <2>2, <3>1
    <3> QED BY <1>1, <3>2 DEF Began
  <2> QED BY <2>1, <2>2
<1>7. ASSUME j \notin C PROVE Began(U, b, j, C, n + 1)
  BY <1>7 DEF Began
<1> QED BY <1>6, <1>7

LEMMA RunTimeUnitHistory == SimInv /\ HistoryInv /\ RunTimeUnit => HistoryInv'
<1> SUFFICES ASSUME SimInv, HistoryInv, RunTimeUnit PROVE HistoryInv'
  OBVIOUS
<1>1. /\ time \in Nat /\ arrived \subseteq JobNumbers
      /\ CoreJobs \cap QueueJobs = {} /\ (CoreJobs \cup QueueJobs) \cap FinishedJobs = {}
      /\ CoreJobs \cup QueueJobs \cup FinishedJobs = arrived
      /\ \A c \in Cores \ IdleCores : core_arr[c] \in CoreJobs
      /\ DiagramTyped
  BY HistoryTyped DEF HistoryInv
<1>2. /\ time' = time + 1 /\ input' = input /\ job' = job /\ arrived' = arrived
      /\ CoreJobs' = CoreJobs /\ FinishedJobs' = FinishedJobs /\ the_scheme' = the_scheme
      /\ IdleCores' = IdleCores /\ core_arr' = core_arr
      /\ quantum' = quantum /\ DOMAIN quantum_clock' = Cores
      /\ \A k \in DOMAIN jobs : jobs[k].run_time # 0
  BY DEF RunTimeUnit, CoreJobs, FinishedJobs, IdleCores, SimInv, NoneLeftToFinish
<1>3. DiagramTyped'
  BY <1>1, DiagramExtended
<1>4. ASSUME NEW j \in JobNumbers
      PROVE  /\ j \in CoreJobs => (UnitsOf(j))' = UnitsOf(j) \cup {time + 1}
             /\ j \notin CoreJobs => (UnitsOf(j))' = UnitsOf(j)
             /\ UnitsOf(j) \in SUBSET (1..time) /\ IsFiniteSet(UnitsOf(j))
  BY <1>1, UnitsExtended, UnitsTyped
<1>5. \A j : (Line(j))' = Line(j)
  BY <1>2 DEF Line
<1>6. ASSUME NEW m \in DOMAIN jobs' PROVE ElementHistory(jobs[m])'
  <2>1. m \in DOMAIN jobs
    BY DEF RunTimeUnit
  <2>2. jobs'[m] = IF jobs[m].core_id # -1 THEN [jobs[m] EXCEPT !.run_time = @ - 1] ELSE jobs[m]
    BY <2>1 DEF RunTimeUnit
  <2> DEFINE r == jobs[m]
             q == jobs'[m]
  <2>3. /\ r \in simulator_job_t /\ ElementHistory(r) /\ r.run_time # 0
        /\ Agrees(r, the_scheme, core_arr, QueueJobs, arrived, job, time)
    BY <1>2, <2>1, ElementTyped DEF SimInv, AllAgree, HistoryInv
  <2> DEFINE less == [r EXCEPT !.run_time = @ - 1]
  <2>4. /\ less.job_id = r.job_id /\ less.arrival_time = r.arrival_time /\ less.run_time = r.run_time - 1
        /\ r.job_id \in JobNumbers /\ r.run_time \in Nat
    BY <2>3 DEF simulator_job_t
  <2> SUFFICES ASSUME NEW j0, j0 = r.job_id PROVE ElementHistory(jobs[m])'
    OBVIOUS
  <2> DEFINE U == UnitsOf(j0)
  <2>5. /\ j0 \in Int /\ j0 + 1 \in DOMAIN input /\ r.arrival_time = Line(j0).arrival_time
        /\ Cardinality(U) + r.run_time = Line(j0).run_time
        /\ Cardinality(U) \in Nat /\ U \in SUBSET (1..time) /\ IsFiniteSet(U)
    BY <1>4, <2>3, <2>4, FS_CardinalityType DEF ElementHistory
  <2>6. CASE r.core_id = -1
    <3>1. j0 \notin CoreJobs /\ q = r
      BY <2>2, <2>3, <2>6 DEF Agrees, CoreJobs
    <3>2. (UnitsOf(j0))' = UnitsOf(j0)
      BY <1>4, <2>4, <3>1
    <3> QED BY <1>2, <1>5, <2>3, <2>5, <3>1, <3>2 DEF ElementHistory
  <2>7. CASE r.core_id # -1
    <3>1. j0 \in CoreJobs
      BY <1>1, <2>1, <2>7, ElementTyped
    <3>2. q = less
      BY <2>2, <2>7
    <3> DEFINE V == U \cup {time + 1}
    <3>3. (UnitsOf(j0))' = V
      BY <1>4, <2>4, <3>1
    <3>4. time + 1 \notin U
      BY <1>1, <2>5
    <3> HIDE DEF U, less
    <3>5. Cardinality(V) = Cardinality(U) + 1
      BY <2>5, <3>4, FS_AddElement
    <3>6. Cardinality(V) + q.run_time = Line(j0).run_time
      BY <2>4, <2>5, <3>2, <3>5
    <3>7. time + 1 \in V
      OBVIOUS
    <3> HIDE DEF V
    <3> QED BY <1>2, <1>5, <2>4, <2>5, <3>2, <3>3, <3>6, <3>7 DEF ElementHistory
  <2> QED BY <2>6, <2>7
<1>7. ASSUME NEW j \in JobNumbers \ arrived' PROVE (UnitsOf(j))' = {}
  BY <1>1, <1>2, <1>4 DEF HistoryInv
<1>8. ASSUME NEW j \in arrived' PROVE JobHistory(j)'
  <2>1. JobHistory(j) /\ j \in JobNumbers
    BY <1>1, <1>2 DEF HistoryInv
  <2> DEFINE U == UnitsOf(j)
             l == Line(j)
  <2>2. /\ j \in Int /\ j + 1 \in DOMAIN input /\ l.arrival_time <= time
        /\ \A u \in U : l.arrival_time < u
        /\ job[j].arrival_time = l.arrival_time /\ job[j].running_time = l.run_time
        /\ Began(U, job[j], j, CoreJobs, time)
        /\ j \in FinishedJobs => StatsSay(U, l, job[j])
    BY <2>1 DEF JobHistory
  <2>3. l.arrival_time \in Int
    BY <2>2, LineTyped DEF HistoryInv, Line
  <2>4. U \in SUBSET (1..time)
    BY <1>4, <2>1
  <2>5. /\ j \in CoreJobs => Began(U \cup {time + 1}, job[j], j, CoreJobs, time + 1)
        /\ j \notin CoreJobs => Began(U, job[j], j, CoreJobs, time + 1)
    <3> HIDE DEF U
    <3> QED BY <1>1, <2>2, <2>4, UnitBegan
  <2>6. CASE j \in CoreJobs
    <3>1. (UnitsOf(j))' = U \cup {time + 1} /\ j \notin FinishedJobs
      BY <1>1, <1>4, <2>1, <2>6
    <3>2. \A u \in U \cup {time + 1} : l.arrival_time < u
      BY <1>1, <2>2, <2>3
    <3>3. l.arrival_time <= time + 1
      BY <1>1, <2>2, <2>3
    <3> HIDE DEF U, l
    <3> QED BY <1>2, <1>5, <2>2, <2>5, <2>6, <3>1, <3>2, <3>3 DEF JobHistory, l
  <2>7. CASE j \notin CoreJobs
    <3>1. (UnitsOf(j))' = U
      BY <1>4, <2>1, <2>7
    <3>3. l.arrival_time <= time + 1
      BY <1>1, <2>2, <2>3
    <3> HIDE DEF U, l
    <3> QED BY <1>2, <1>5, <2>2, <2>5, <2>7, <3>1, <3>3 DEF JobHistory, l
  <2> QED BY <2>6, <2>7
<1>9. ClocksFresh'
  <2>1. \A c \in Cores \ IdleCores : (UnitsOf(core_arr[c]))' # {}
    <3> TAKE c \in Cores \ IdleCores
    <3> SUFFICES ASSUME NEW j, j = core_arr[c] PROVE (UnitsOf(core_arr[c]))' # {}
      OBVIOUS
    <3>1. j \in JobNumbers /\ j \in CoreJobs
      BY <1>1
    <3>2. (UnitsOf(j))' # {}
      BY <1>4, <3>1
    <3>3. (UnitsOf(core_arr[c]))' = (UnitsOf(j))'
      BY <1>2 DEF UnitsOf
    <3> QED BY <3>2, <3>3
  <2> QED BY <1>2, <2>1 DEF HistoryInv, ClocksFresh
<1>10. input' \in JobLists
  BY <1>2 DEF HistoryInv
<1> QED BY <1>3, <1>6, <1>7, <1>8, <1>9, <1>10 DEF HistoryInv

LEMMA PhaseEndsHistory ==
  HistoryInv /\ (AllFinishesSeen \/ AllQuantumsSeen \/ CleanUp \/ UNCHANGED vars) => HistoryInv' /\ Grows
<1> SUFFICES ASSUME HistoryInv, AllFinishesSeen \/ AllQuantumsSeen \/ CleanUp \/ UNCHANGED vars
             PROVE  HistoryInv' /\ Grows
  OBVIOUS
<1>1. /\ input' = input /\ core_timing_diagram' = core_timing_diagram /\ time' = time
      /\ jobs' = jobs /\ arrived' = arrived /\ job' = job /\ core_arr' = core_arr
      /\ finished' = finished /\ the_scheme' = the_scheme
      /\ quantum' = quantum /\ quantum_clock' = quantum_clock
  BY DEF AllFinishesSeen, AllQuantumsSeen, CleanUp, vars, schedVars, simVars
<1>2. /\ CoreJobs' = CoreJobs /\ FinishedJobs' = FinishedJobs /\ IdleCores' = IdleCores
      /\ \A j : (UnitsOf(j))' = UnitsOf(j) /\ (Line(j))' = Line(j)
      /\ \A c \in Cores : (UnitsOf(core_arr[c]))' = UnitsOf(core_arr[c])
  BY <1>1 DEF CoreJobs, FinishedJobs, IdleCores, UnitsOf, Line
<1>3. DiagramTyped' /\ ClocksFresh'
  BY <1>1, <1>2 DEF HistoryInv, DiagramTyped, ClocksFresh
<1>4. ASSUME NEW i \in DOMAIN jobs' PROVE ElementHistory(jobs[i])'
  BY <1>1, <1>2 DEF HistoryInv, ElementHistory
<1>5. ASSUME NEW j \in arrived' PROVE JobHistory(j)'
  BY <1>1, <1>2 DEF HistoryInv, JobHistory
<1>6. Grows
  BY <1>1, <1>2 DEF Grows
<1> QED BY <1>1, <1>2, <1>3, <1>4, <1>5, <1>6 DEF HistoryInv

LEMMA HistoryStarts == Init => HistoryInv
<1> SUFFICES ASSUME Init PROVE HistoryInv
  OBVIOUS
<1>1. SimInv /\ time = 0 /\ arrived = {} /\ input \in JobLists
  BY SimStarts DEF Init, SchedInit, scheduler_start_up
<1>2. \A j : UnitsOf(j) = {}
  BY <1>1 DEF UnitsOf
<1>3. DiagramTyped
  <2> DEFINE S == Seq(JobNumbers \cup {NoJob})
  <2>1. core_timing_diagram = [c \in Cores |-> << >>]
    BY DEF Init
  <2>2. << >> \in S /\ Len(<< >>) = 0
    OBVIOUS
  <2> HIDE DEF S
  <2>3. core_timing_diagram \in [Cores -> S]
    BY <2>1, <2>2
  <2> QED BY <1>1, <2>1, <2>2, <2>3 DEF DiagramTyped, S
<1>4. ASSUME NEW i \in DOMAIN jobs PROVE ElementHistory(jobs[i])
  <2>1. Len(input) \in Nat /\ DOMAIN input = 1..Len(input) /\ DOMAIN jobs = 1..Len(input)
    <3>1. Len(input) \in Nat /\ DOMAIN input = 1..Len(input)
      BY <1>1, JobListsAssumption
    <3> QED BY <3>1 DEF Init
  <2>2. jobs[i] = LoadedJob(i - 1, input[i]) /\ i \in Nat
    BY <2>1 DEF Init
  <2>3. jobs[i].job_id = i - 1 /\ jobs[i].arrival_time = input[i].arrival_time /\ jobs[i].run_time = input[i].run_time
    BY <2>2 DEF LoadedJob
  <2>4. input[i].run_time \in Nat \ {0}
    BY <1>1, <2>1, LineTyped
  <2>5. UnitsOf(i - 1) = {} /\ Cardinality(UnitsOf(i - 1)) = 0
    BY <1>2, FS_EmptySet
  <2>6. (i - 1) + 1 = i
    BY <2>2
  <2> QED BY <2>1, <2>2, <2>3, <2>4, <2>5, <2>6 DEF ElementHistory, Line
<1>5. ClocksFresh
  <2>1. IdleCores = Cores
    BY DEF Init, SchedInit, scheduler_start_up, IdleCores
  <2>2. the_scheme = "RR" => quantum \in Nat \ {0}
    BY QuantaAssumption DEF Init
  <2>3. DOMAIN quantum_clock = Cores
    BY DEF Init
  <2> QED BY <2>1, <2>2, <2>3 DEF ClocksFresh
<1> QED BY <1>1, <1>2, <1>3, <1>4, <1>5 DEF HistoryInv

LEMMA HistoryStep == SimInv /\ HistoryInv /\ [Next]_vars => HistoryInv' /\ (Grows \/ RunTimeUnit)
  BY JobFinishesHistory, QuantumExpiresHistory, JobArrivesHistory, RunTimeUnitHistory, PhaseEndsHistory
     DEF Next

(* The records, the elements of the array and the timing diagram tell one  *)
(* history: how often each job ran, and when first.                        *)
THEOREM HistoryInvariant == Spec => []HistoryInv
<1>1. Init => HistoryInv
  BY HistoryStarts
<1>2. SimInv /\ HistoryInv /\ [Next]_vars => HistoryInv'
  BY HistoryStep
<1> QED BY <1>1, <1>2, SimulatorInvariant, PTL DEF Spec
-----------------------------------------------------------------------------
LEMMA ScheduleGrows ==
  ASSUME SimInv, HistoryInv, DiagramIsSchedule, Grows
  PROVE  DiagramIsSchedule'
<1>1. /\ core_timing_diagram' = core_timing_diagram /\ time' = time /\ input' = input /\ time \in Nat
      /\ FinishedJobs \subseteq FinishedJobs'
      /\ \A j \in arrived' \ arrived : input[j + 1].arrival_time = time
      /\ \A j : (UnitsOf(j))' = UnitsOf(j)
  BY HistoryTyped, SameUnits DEF Grows, Line
<1> QED BY <1>1 DEF DiagramIsSchedule

\* In the unit that is run, whoever is not done is on a core or all cores are busy.
LEMMA ScheduleExtended ==
  ASSUME SimInv, HistoryInv, DiagramIsSchedule, RunTimeUnit
  PROVE  DiagramIsSchedule'
<1>1. /\ time \in Nat /\ arrived \subseteq JobNumbers
      /\ (CoreJobs \cup QueueJobs) \cap FinishedJobs = {}
      /\ CoreJobs \cup QueueJobs \cup FinishedJobs = arrived
      /\ OneEach(core_arr) /\ DiagramTyped /\ PlacesInv
  BY HistoryTyped DEF HistoryInv, SimInv
<1>2. /\ time' = time + 1 /\ input' = input /\ arrived' = arrived /\ FinishedJobs' = FinishedJobs
  BY DEF RunTimeUnit, FinishedJobs
<1>3. \A c \in Cores :
        /\ core_timing_diagram'[c][time + 1] = core_arr[c]
        /\ \A u \in 1..time : core_timing_diagram'[c][u] = core_timing_diagram[c][u]
  BY <1>1, DiagramExtended
<1>4. ASSUME NEW j \in arrived
      PROVE  /\ j \in CoreJobs => (UnitsOf(j))' = UnitsOf(j) \cup {time + 1}
             /\ j \notin CoreJobs => (UnitsOf(j))' = UnitsOf(j)
  BY <1>1, UnitsExtended
<1>5. ASSUME NEW j \in FinishedJobs
      PROVE  (UnitsOf(j))' = UnitsOf(j) /\ Max(UnitsOf(j)) < time + 1
  <2> DEFINE U == UnitsOf(j)
             m == Max(U)
  <2>1. j \in arrived /\ j \notin CoreJobs
    BY <1>1
  <2>2. JobHistory(j)
    BY <2>1 DEF HistoryInv
  <2>3. Cardinality(U) = Line(j).run_time /\ Line(j).run_time \in Nat \ {0}
    BY <2>2, LineTyped DEF JobHistory, StatsSay, HistoryInv, Line
  <2>4. U \in SUBSET (1..time) /\ U # {}
    BY <1>1, <2>3, UnitsTyped, FS_EmptySet
  <2>5. m \in 1..time
    <3> HIDE DEF U
    <3> QED BY <1>1, <2>4, MaxIsGreatest
  <2> HIDE DEF m
  <2>6. m < time + 1
    BY <1>1, <2>5
  <2> QED BY <1>4, <2>1, <2>6 DEF m
<1>6. ASSUME NEW c \in Cores, core_arr[c] = NoJob, NEW j \in arrived
      PROVE  j \in CoreJobs \/ j \in FinishedJobs
  <2>1. job_queue = << >>
    BY <1>1, <1>6 DEF PlacesInv, WorkConserving, IdleCores
  <2>2. QueueJobs = {}
    BY <2>1 DEF QueueJobs, ToSet
  <2> QED BY <1>1, <2>2
<1>7. ASSUME NEW u \in 1..time', NEW c \in Cores, NEW d \in Cores,
             core_timing_diagram'[c][u] = core_timing_diagram'[d][u],
             core_timing_diagram'[c][u] # NoJob
      PROVE  c = d
  <2>1. CASE u = time + 1
    BY <1>1, <1>3, <1>7, <2>1 DEF OneEach
  <2>2. CASE u \in 1..time
    BY <1>3, <1>7, <2>2 DEF DiagramIsSchedule
  <2> QED BY <1>1, <1>2, <2>1, <2>2
<1>8. ASSUME NEW u \in 1..time', NEW c \in Cores, core_timing_diagram'[c][u] = NoJob,
             NEW j \in arrived, input[j + 1].arrival_time < u
      PROVE  u \in (UnitsOf(j))' \/ (j \in FinishedJobs /\ Max((UnitsOf(j))') < u)
  <2>1. CASE u = time + 1
    <3>1. j \in CoreJobs \/ j \in FinishedJobs
      BY <1>3, <1>6, <1>8, <2>1
    <3> QED BY <1>4, <1>5, <2>1, <3>1
  <2>2. CASE u \in 1..time
    <3>1. core_timing_diagram[c][u] = NoJob
      BY <1>3, <1>8, <2>2
    <3>2. u \in UnitsOf(j) \/ (j \in FinishedJobs /\ Max(UnitsOf(j)) < u)
      BY <1>8, <2>2, <3>1 DEF DiagramIsSchedule
    <3> QED BY <1>4, <1>5, <3>2
  <2> QED BY <1>1, <1>2, <2>1, <2>2
<1> QED BY <1>2, <1>7, <1>8 DEF DiagramIsSchedule

(* In every time unit a job is executed on one core at most, and a core    *)
(* idles only if every job that has come and is not done is executed: for  *)
(* any number of cores, any file, scheme and quantum.                      *)
THEOREM DiagramsAreSchedules == Spec => []DiagramIsSchedule
<1>1. Init => DiagramIsSchedule
  <2>1. Init => time = 0
    BY DEF Init, SchedInit
  <2> QED BY <2>1 DEF DiagramIsSchedule
<1>2. SimInv /\ HistoryInv /\ DiagramIsSchedule /\ [Next]_vars => DiagramIsSchedule'
  BY HistoryStep, ScheduleGrows, ScheduleExtended
<1> QED BY <1>1, <1>2, SimulatorInvariant, HistoryInvariant, PTL DEF Spec
-----------------------------------------------------------------------------
(***************************************************************************)
(* Sums of sequences, as the averages of the library need them.  g[k] is   *)
(* the sum of the first k elements.                                        *)
(***************************************************************************)
Adds(g, s) == g[0] = 0 /\ \A k \in 1..Len(s) : g[k] = g[k - 1] + s[k]

LEMMA SumSteps ==
  ASSUME NEW s \in Seq(Int)
  PROVE  \E g \in [0..Len(s) -> Int] : Adds(g, s) /\ SumOf(s) = g[Len(s)]
<1> DEFINE n == Len(s)
           V == Int
           base == 0
           h == [vk \in V \X (1..n) |-> vk[1] + s[vk[2]]]
           It(f) == f = [S \in SUBSET DOMAIN s |->
                           IF S = {} THEN base ELSE LET x == Max(S) IN f[S \ {x}] + s[x]]
           it == CHOOSE f : It(f)
<1>1. SumOf(s) = it[DOMAIN s]
  BY Zenon DEF SumOf, FoldLeft, MapThenFoldSet
<1>2. n \in Nat /\ DOMAIN s = 1..n /\ base \in V /\ \A k \in 1..n : s[k] \in Int
  OBVIOUS
<1>3. \A v \in V, k \in 1..n : h[<< v, k >>] = v + s[k] /\ v + s[k] \in V
  BY <1>2
<1>0. h \in [V \X (1..n) -> V]
  BY <1>2
<1> HIDE DEF h, V, base, n, It
<1>4. PICK f \in [SUBSET (1..n) -> V] : IsIter(f, base, h, n)
  <2> HIDE DEF it
  <2> QED BY <1>0, <1>2, IterExists
<1>5. It(f)
  <2>1. f = [S \in SUBSET (1..n) |-> f[S]]
    OBVIOUS
  <2>2. ASSUME NEW S \in SUBSET (1..n), S # {}
        PROVE  f[S] = f[S \ {Max(S)}] + s[Max(S)]
    <3>1. Max(S) \in 1..n /\ f[S \ {Max(S)}] \in V
      BY <1>2, <2>2, MaxOfSome
    <3> QED BY <1>3, <1>4, <2>2, <3>1 DEF IsIter
  <2>3. f = [S \in SUBSET (1..n) |-> IF S = {} THEN base ELSE f[S \ {Max(S)}] + s[Max(S)]]
    BY <1>4, <2>1, <2>2 DEF IsIter
  <2> QED BY <1>2, <2>3, Zenon DEF It
<1>6. It(it)
  BY <1>5
<1>7. it[{}] = base
  BY <1>2, <1>6 DEF It
<1>8. ASSUME NEW S \in SUBSET (1..n), S # {}, it[S \ {Max(S)}] \in V
      PROVE  it[S] = h[<< it[S \ {Max(S)}], Max(S) >>]
  <2>1. Max(S) \in 1..n
    BY <1>2, <1>8, MaxOfSome
  <2>2. it = [T \in SUBSET (1..n) |-> IF T = {} THEN base ELSE it[T \ {Max(T)}] + s[Max(T)]]
    <3> HIDE DEF it
    <3> QED BY <1>2, <1>6, Zenon DEF It
  <2>3. it[S] = it[S \ {Max(S)}] + s[Max(S)]
    <3> HIDE DEF it
    <3> QED BY <1>8, <2>2
  <2> HIDE DEF it
  <2> QED BY <1>3, <1>8, <2>1, <2>3
<1> HIDE DEF it
<1>9. PICK g \in [0..n -> V] : IsLoop(g, base, h, n) /\ it[1..n] = g[n]
  <2>1. IterOn(it, V, base, h, n)
    BY <1>7, <1>8 DEF IterOn
  <2>2. LoopResult(it[1..n], V, base, h, n)
    BY <1>0, <1>2, <2>1, IterSteps
  <2> QED BY <2>2 DEF LoopResult
<1>10. \A k \in 1..n : g[k] = g[k - 1] + s[k]
  <2> TAKE k \in 1..n
  <2>1. k - 1 \in 0..n /\ g[k - 1] \in V
    BY <1>2
  <2> QED BY <1>3, <1>9, <2>1 DEF IsLoop
<1>11. Adds(g, s)
  BY <1>9, <1>10 DEF Adds, IsLoop, base, n
<1> QED BY <1>1, <1>2, <1>9, <1>11 DEF V, n

\* Sums of sequences that are related element by element.
LEMMA SumOfSums ==
  ASSUME NEW n \in Nat, NEW a \in [1..n -> Int], NEW b \in [1..n -> Int], NEW c \in [1..n -> Int],
         \A k \in 1..n : a[k] = b[k] + c[k]
  PROVE  SumOf(a) = SumOf(b) + SumOf(c) /\ SumOf(b) \in Int /\ SumOf(c) \in Int
<1>1. a \in Seq(Int) /\ b \in Seq(Int) /\ c \in Seq(Int) /\ Len(a) = n /\ Len(b) = n /\ Len(c) = n
  OBVIOUS
<1>2. PICK ga \in [0..n -> Int] : Adds(ga, a) /\ SumOf(a) = ga[n]
  BY <1>1, SumSteps
<1>3. PICK gb \in [0..n -> Int] : Adds(gb, b) /\ SumOf(b) = gb[n]
  BY <1>1, SumSteps
<1>4. PICK gc \in [0..n -> Int] : Adds(gc, c) /\ SumOf(c) = gc[n]
  BY <1>1, SumSteps
<1> DEFINE I == {k \in 0..n : ga[k] = gb[k] + gc[k]}
<1>5. 0 \in I
  BY <1>2, <1>3, <1>4 DEF Adds
<1>6. ASSUME NEW k \in 0..(n - 1), k \in I PROVE k + 1 \in I
  <2>1. k + 1 \in 1..n /\ (k + 1) - 1 = k /\ k \in 0..n /\ k + 1 \in 0..n
    OBVIOUS
  <2>2. /\ ga[k + 1] = ga[k] + a[k + 1] /\ gb[k + 1] = gb[k] + b[k + 1]
        /\ gc[k + 1] = gc[k] + c[k + 1]
    BY <1>1, <1>2, <1>3, <1>4, <2>1 DEF Adds
  <2> DEFINE u == gb[k]
             v == gc[k]
             x == b[k + 1]
             y == c[k + 1]
  <2>3. u \in Int /\ v \in Int
    BY <2>1
  <2>4. x \in Int /\ y \in Int
    BY <2>1
  <2>5. ga[k] = u + v /\ a[k + 1] = x + y
    BY <1>6, <2>1
  <2>6. ga[k + 1] = ga[k] + a[k + 1] /\ gb[k + 1] = u + x /\ gc[k + 1] = v + y
    BY <2>2
  <2> HIDE DEF u, v, x, y
  <2>7. (u + v) + (x + y) = (u + x) + (v + y)
    BY <2>3, <2>4
  <2>8. ga[k + 1] = gb[k + 1] + gc[k + 1]
    BY <2>5, <2>6, <2>7, Zenon
  <2> QED BY <2>1, <2>8
<1>7. n \in I
  <2> HIDE DEF I
  <2>1. 0..n \subseteq I
    BY <1>5, <1>6, InductionUpTo
  <2> QED BY <2>1
<1>8. gb[n] \in Int /\ gc[n] \in Int
  OBVIOUS
<1> QED BY <1>2, <1>3, <1>4, <1>7, <1>8

LEMMA SumOrder ==
  ASSUME NEW n \in Nat, NEW a \in [1..n -> Int], NEW b \in [1..n -> Int],
         \A k \in 1..n : 0 <= a[k] /\ a[k] <= b[k]
  PROVE  0 <= SumOf(a) /\ SumOf(a) <= SumOf(b)
<1>1. a \in Seq(Int) /\ b \in Seq(Int) /\ Len(a) = n /\ Len(b) = n
  OBVIOUS
<1>2. PICK ga \in [0..n -> Int] : Adds(ga, a) /\ SumOf(a) = ga[n]
  BY <1>1, SumSteps
<1>3. PICK gb \in [0..n -> Int] : Adds(gb, b) /\ SumOf(b) = gb[n]
  BY <1>1, SumSteps
<1> DEFINE I == {k \in 0..n : 0 <= ga[k] /\ ga[k] <= gb[k]}
<1>5. 0 \in I
  BY <1>2, <1>3 DEF Adds
<1>6. ASSUME NEW k \in 0..(n - 1), k \in I PROVE k + 1 \in I
  <2>1. k + 1 \in 1..n /\ (k + 1) - 1 = k /\ k \in 0..n /\ k + 1 \in 0..n
    OBVIOUS
  <2>2. ga[k + 1] = ga[k] + a[k + 1] /\ gb[k + 1] = gb[k] + b[k + 1]
    BY <1>1, <1>2, <1>3, <2>1 DEF Adds
  <2> DEFINE u == ga[k]
             v == gb[k]
             x == a[k + 1]
             y == b[k + 1]
  <2>3. u \in Int /\ v \in Int
    BY <2>1
  <2>4. x \in Int /\ y \in Int
    BY <2>1
  <2>5. 0 <= u /\ u <= v /\ 0 <= x /\ x <= y
    BY <1>6, <2>1
  <2>6. ga[k + 1] = u + x /\ gb[k + 1] = v + y
    BY <2>2
  <2> HIDE DEF u, v, x, y
  <2>7. 0 <= u + x /\ u + x <= v + y
    BY <2>3, <2>4, <2>5
  <2>8. 0 <= ga[k + 1] /\ ga[k + 1] <= gb[k + 1]
    BY <2>6, <2>7, Zenon
  <2> QED BY <2>1, <2>8
<1>7. n \in I
  <2> HIDE DEF I
  <2>1. 0..n \subseteq I
    BY <1>5, <1>6, InductionUpTo
  <2> QED BY <2>1
<1> QED BY <1>2, <1>3, <1>7

\* One element more.
With(a, p, x) == [a EXCEPT ![p] = x]
LEMMA SumWithOne ==
  ASSUME NEW n \in Nat, NEW p \in 1..n, NEW a \in [1..n -> Int], NEW x \in Int, a[p] = 0
  PROVE  SumOf(With(a, p, x)) = SumOf(a) + x /\ SumOf(a) \in Int
<1> DEFINE b == With(a, p, x)
<1>0. b \in [1..n -> Int] /\ \A k \in 1..n : b[k] = IF k = p THEN x ELSE a[k]
  BY DEF With
<1> HIDE DEF b
<1>1. a \in Seq(Int) /\ b \in Seq(Int) /\ Len(a) = n /\ Len(b) = n
  BY <1>0
<1>2. PICK ga \in [0..n -> Int] : Adds(ga, a) /\ SumOf(a) = ga[n]
  BY <1>1, SumSteps
<1>3. PICK gb \in [0..n -> Int] : Adds(gb, b) /\ SumOf(b) = gb[n]
  BY <1>1, SumSteps
<1> DEFINE I == {k \in 0..n : gb[k] = ga[k] + IF p <= k THEN x ELSE 0}
<1>5. 0 \in I
  BY <1>2, <1>3 DEF Adds
<1>6. ASSUME NEW k \in 0..(n - 1), k \in I PROVE k + 1 \in I
  <2>1. k + 1 \in 1..n /\ (k + 1) - 1 = k /\ k \in 0..n /\ k + 1 \in 0..n
    OBVIOUS
  <2>2. ga[k + 1] = ga[k] + a[k + 1] /\ gb[k + 1] = gb[k] + b[k + 1]
    BY <1>1, <1>2, <1>3, <2>1 DEF Adds
  <2>3. /\ gb[k] = ga[k] + IF p <= k THEN x ELSE 0
        /\ b[k + 1] = IF k + 1 = p THEN x ELSE a[k + 1]
        /\ ga[k] \in Int /\ a[k + 1] \in Int
    BY <1>0, <1>6, <2>1
  <2>4. gb[k + 1] = ga[k + 1] + IF p <= k + 1 THEN x ELSE 0
    <3>1. CASE k + 1 = p
      <4>1. ~ (p <= k) /\ p <= k + 1 /\ a[k + 1] = 0
        BY <2>1, <3>1
      <4>2. gb[k] = ga[k] /\ b[k + 1] = x
        BY <2>3, <3>1, <4>1
      <4>3. gb[k + 1] = ga[k] + x /\ ga[k + 1] = ga[k]
        BY <2>2, <2>3, <4>1, <4>2
      <4> QED BY <4>1, <4>3
    <3>2. CASE k + 1 # p
      <4>1. p <= k <=> p <= k + 1
        BY <2>1, <3>2
      <4>2. b[k + 1] = a[k + 1]
        BY <2>3, <3>2
      <4>3. gb[k + 1] = (ga[k] + IF p <= k THEN x ELSE 0) + a[k + 1] /\ ga[k + 1] = ga[k] + a[k + 1]
        BY <2>2, <2>3, <4>2
      <4>4. CASE p <= k
        <5>1. gb[k + 1] = (ga[k] + x) + a[k + 1]
          BY <4>3, <4>4
        <5>2. gb[k + 1] = (ga[k] + a[k + 1]) + x
          BY <2>3, <5>1
        <5> QED BY <4>1, <4>3, <4>4, <5>2
      <4>5. CASE ~ (p <= k)
        <5>1. gb[k + 1] = ga[k] + a[k + 1]
          BY <2>3, <4>3, <4>5
        <5> QED BY <2>3, <4>1, <4>3, <4>5, <5>1
      <4> QED BY <4>4, <4>5
    <3> QED BY <3>1, <3>2
  <2> QED BY <2>1, <2>4
<1>7. n \in I
  <2> HIDE DEF I
  <2>1. 0..n \subseteq I
    BY <1>5, <1>6, InductionUpTo
  <2> QED BY <2>1
<1> QED BY <1>2, <1>3, <1>7 DEF b

LEMMA SumOfZeros ==
  ASSUME NEW n \in Nat
  PROVE  SumOf([k \in 1..n |-> 0]) = 0
<1> DEFINE z == [k \in 1..n |-> 0]
<1>1. z \in [1..n -> Int] /\ \A k \in 1..n : z[k] = z[k] + z[k]
  OBVIOUS
<1> HIDE DEF z
<1>2. SumOf(z) = SumOf(z) + SumOf(z) /\ SumOf(z) \in Int
  BY <1>1, SumOfSums
<1>3. SumOf(z) = 0
  <2> DEFINE x == SumOf(z)
  <2>1. x \in Int /\ x = x + x
    BY <1>2
  <2> HIDE DEF x
  <2>2. x = 0
    BY <2>1
  <2> QED BY <2>2 DEF x
<1> QED BY <1>3 DEF z

LEMMA IntervalGrows ==
  ASSUME NEW k \in Nat
  PROVE  \A i : i \in 1..(k + 1) <=> i \in 1..k \/ i = k + 1
  OBVIOUS

\* A sum does not depend on the order.
LEMMA SumOfPermuted ==
  ASSUME NEW n \in Nat, NEW v \in [1..n -> Int], NEW p \in [1..n -> 1..n],
         \A i, k \in 1..n : p[i] = p[k] => i = k,
         \A m \in 1..n : \E i \in 1..n : p[i] = m
  PROVE  SumOf([i \in 1..n |-> v[p[i]]]) = SumOf(v)
<1> DEFINE a == [i \in 1..n |-> v[p[i]]]
           Part(k) == [m \in 1..n |-> IF \E i \in 1..k : p[i] = m THEN v[m] ELSE 0]
<1>1. a \in Seq(Int) /\ Len(a) = n /\ \A i \in 1..n : a[i] = v[p[i]] /\ a[i] \in Int
  OBVIOUS
<1> HIDE DEF a
<1>2. PICK g \in [0..n -> Int] : Adds(g, a) /\ SumOf(a) = g[n]
  BY <1>1, SumSteps
<1> DEFINE I == {k \in 0..n : g[k] = SumOf(Part(k))}
<1>3. 0 \in I
  <2>1. Part(0) = [m \in 1..n |-> 0]
    OBVIOUS
  <2> HIDE DEF Part
  <2>2. SumOf(Part(0)) = 0
    BY <2>1, SumOfZeros
  <2> QED BY <1>2, <2>2 DEF Adds
<1>4. ASSUME NEW k \in 0..(n - 1), k \in I PROVE k + 1 \in I
  <2>1. k + 1 \in 1..n /\ (k + 1) - 1 = k /\ k \in 0..n /\ k + 1 \in 0..n
    OBVIOUS
  <2>2. g[k + 1] = g[k] + a[k + 1] /\ g[k] = SumOf(Part(k))
    BY <1>1, <1>2, <1>4, <2>1 DEF Adds
  <2> DEFINE q == p[k + 1]
  <2>3. q \in 1..n /\ a[k + 1] = v[q] /\ v[q] \in Int
    BY <1>1, <2>1
  <2>4. Part(k) \in [1..n -> Int] /\ Part(k)[q] = 0
    <3>1. \A i \in 1..k : i \in 1..n /\ i # k + 1
      BY <2>1
    <3>2. \A i \in 1..k : p[i] # q
      BY <2>1, <3>1
    <3>3. \A m \in 1..n : v[m] \in Int
      OBVIOUS
    <3>4. Part(k)[q] = 0
      BY <2>3, <3>2
    <3>5. \A m \in 1..n : (IF \E i \in 1..k : p[i] = m THEN v[m] ELSE 0) \in Int
      BY <3>3
    <3>6. Part(k) \in [1..n -> Int]
      BY <3>5
    <3> QED BY <3>4, <3>6
  <2>5. Part(k + 1) = [Part(k) EXCEPT ![q] = v[q]]
    <3>1. \A i : i \in 1..(k + 1) <=> i \in 1..k \/ i = k + 1
      BY <2>1, IntervalGrows
    <3>2. \A m \in 1..n : (\E i \in 1..(k + 1) : p[i] = m) <=> (m = q \/ \E i \in 1..k : p[i] = m)
      BY <3>1
    <3>3. \A m \in 1..n : Part(k + 1)[m] = [Part(k) EXCEPT ![q] = v[q]][m]
      BY <2>3, <3>2
    <3> DEFINE l == Part(k + 1)
               r == [Part(k) EXCEPT ![q] = v[q]]
    <3>4. l = [m \in 1..n |-> l[m]] /\ r = [m \in 1..n |-> r[m]]
      OBVIOUS
    <3> HIDE DEF l, r
    <3>5. l = r
      BY <3>3, <3>4 DEF l, r
    <3> QED BY <3>5 DEF l, r
  <2> HIDE DEF Part, q
  <2>6. SumOf(Part(k + 1)) = SumOf(Part(k)) + v[q]
    <3> DEFINE b == Part(k)
               c == Part(k + 1)
               x == v[q]
    <3>1. b \in [1..n -> Int] /\ b[q] = 0 /\ x \in Int /\ q \in 1..n /\ c = With(b, q, x)
      BY <2>3, <2>4, <2>5 DEF With
    <3> HIDE DEF b, c, x
    <3>2. SumOf(c) = SumOf(b) + x
      BY <3>1, SumWithOne
    <3> QED BY <3>2 DEF b, c, x
  <2>7. g[k + 1] = SumOf(Part(k + 1))
    BY <2>2, <2>3, <2>6
  <2> QED BY <2>1, <2>7
<1>5. n \in I
  <2> HIDE DEF I
  <2>1. 0..n \subseteq I
    BY <1>3, <1>4, InductionUpTo
  <2> QED BY <2>1
<1>6. Part(n) = v
  <2>1. \A m \in 1..n : \E i \in 1..n : p[i] = m
    OBVIOUS
  <2>2. Part(n) = [m \in 1..n |-> v[m]]
    BY <2>1
  <2> QED BY <2>2
<1> QED BY <1>2, <1>5, <1>6 DEF a
-----------------------------------------------------------------------------
(***************************************************************************)
(* The averages: no job of the file is forgotten, and none counted twice.  *)
(***************************************************************************)
\* No line of the file is forgotten, and job_count counts the jobs announced.
AllCounted ==
  /\ \A n \in DOMAIN input : Known(jobs, n - 1) \/ n - 1 \in FinishedJobs
  /\ IsFiniteSet(arrived) /\ job_count = Cardinality(arrived)
  /\ phase = "averages" => jobs = << >>

LEMMA KnownKept ==
  ASSUME NEW js, NEW js2, DOMAIN js2 = DOMAIN js, \A m \in DOMAIN js : js2[m].job_id = js[m].job_id
  PROVE  \A j : Known(js, j) => Known(js2, j)
  BY DEF Known

LEMMA CountedKept ==
  ASSUME AllCounted, input' = input, FinishedJobs \subseteq FinishedJobs',
         arrived' = arrived, job_count' = job_count, phase' # "averages",
         \A j : Known(jobs, j) => Known(jobs', j) \/ j \in FinishedJobs'
  PROVE  AllCounted'
<1>1. \A n \in DOMAIN input : Known(jobs', n - 1) \/ n - 1 \in FinishedJobs'
  BY DEF AllCounted
<1>2. \A n \in DOMAIN input' : (Known(jobs, n - 1))' \/ n - 1 \in FinishedJobs'
  BY <1>1 DEF Known
<1> QED BY <1>2 DEF AllCounted

LEMMA JobFinishesCounts == SimInv /\ AllCounted /\ JobFinishes => AllCounted'
<1> SUFFICES ASSUME SimInv, AllCounted, NEW i \in FinishedIndices, phase = "finish",
                    scheduler_job_finished(jobs[i].core_id, time),
                    set_active_job(ret', jobs[i].core_id, Delete(jobs, i)),
                    input' = input
             PROVE  AllCounted'
  BY DEF JobFinishes
<1> DEFINE c == jobs[i].core_id
<1> SUFFICES ASSUME NEW j0, j0 = jobs[i].job_id PROVE AllCounted'
  OBVIOUS
<1>1. /\ PlacesInv /\ jobs \in Seq(simulator_job_t) /\ i \in DOMAIN jobs /\ IdsDiffer(jobs)
      /\ c # -1
  BY DEF SimInv, AllAgree, FinishedIndices, Agrees
<1>2. c \in Cores \ IdleCores /\ core_arr[c] = j0
  BY <1>1, ElementTyped
<1>3. FinishedJobs' = FinishedJobs \cup {j0} /\ arrived' = arrived
  BY <1>1, <1>2, FinishedRecords DEF FinishMoves
<1> DEFINE js == Delete(jobs, i)
<1>4. js \in Seq(simulator_job_t) /\ \A j : Known(jobs, j) /\ j # j0 => Known(js, j)
  BY <1>1, DeleteElements, DeleteIds
<1>5. DOMAIN jobs' = DOMAIN js /\ \A m \in DOMAIN js : jobs'[m].job_id = js[m].job_id
  BY <1>4, SetActiveTimes DEF SameTimes
<1> HIDE DEF js
<1>6. \A j : Known(js, j) => Known(jobs', j)
  BY <1>5, KnownKept
<1>7. job_count' = job_count
  BY DEF scheduler_job_finished
<1>8. phase' # "averages"
  BY DEF set_active_job
<1> QED BY <1>3, <1>4, <1>6, <1>7, <1>8, CountedKept

LEMMA QuantumExpiresCounts == SimInv /\ AllCounted /\ QuantumExpires => AllCounted'
<1> SUFFICES ASSUME SimInv, AllCounted, NEW c \in Cores, NEW i \in DOMAIN jobs, phase = "quantum",
                    scheduler_quantum_expired(c, time),
                    set_active_job(ret', c, [jobs EXCEPT ![i].core_id = -1]),
                    input' = input
             PROVE  AllCounted'
  BY DEF QuantumExpires, ExpiredCores
<1>1. jobs \in Seq(simulator_job_t) /\ jobs[i] \in simulator_job_t
  BY ElementTyped DEF SimInv, AllAgree
<1> DEFINE r == ThrownOff(jobs[i])
           js == [jobs EXCEPT ![i] = r]
<1>2. r \in simulator_job_t /\ r.job_id = jobs[i].job_id
  BY <1>1, ThrownOffSet
<1>3. js = [jobs EXCEPT ![i].core_id = -1]
  BY DEF ThrownOff
<1> HIDE DEF r
<1>4. js \in Seq(simulator_job_t) /\ DOMAIN js = DOMAIN jobs /\ \A m \in DOMAIN jobs : js[m].job_id = jobs[m].job_id
  BY <1>1, <1>2
<1> HIDE DEF js
<1>5. DOMAIN jobs' = DOMAIN js /\ \A m \in DOMAIN js : jobs'[m].job_id = js[m].job_id
  BY <1>3, <1>4, SetActiveTimes DEF SameTimes
<1>6. \A j : Known(jobs, j) => Known(jobs', j)
  BY <1>4, <1>5, KnownKept
<1>7. job_count' = job_count /\ arrived' = arrived /\ finished' = finished
  BY DEF scheduler_quantum_expired
<1>8. phase' # "averages"
  BY DEF set_active_job
<1> QED BY <1>6, <1>7, <1>8, CountedKept DEF FinishedJobs

LEMMA JobArrivesCounts == SimInv /\ AllCounted /\ JobArrives => AllCounted'
<1> SUFFICES ASSUME SimInv, AllCounted, NEW i \in ArrivingIndices, phase = "arrive",
                    NEW j0, j0 = jobs[i].job_id, NEW rt, rt = jobs[i].run_time,
                    scheduler_new_job(j0, time, rt, jobs[i].priority),
                    jobs' = PutOnCore(i, ret'),
                    phase' # "averages",
                    input' = input
             PROVE  AllCounted'
  BY DEF JobArrives
<1>1. i \in DOMAIN jobs /\ ~ jobs[i].arrived /\ PlacesInv /\ jobs[i] \in simulator_job_t /\ j0 \in JobNumbers
  BY ElementTyped DEF ArrivingIndices, SimInv
<1>0. i \in DOMAIN jobs /\ jobs \in Seq(simulator_job_t)
  BY DEF ArrivingIndices, SimInv, AllAgree
<1>2. j0 \notin arrived /\ rt \in Nat \ {0} /\ jobs[i].priority \in Int
  <2>1. Agrees(jobs[i], the_scheme, core_arr, QueueJobs, arrived, job, time)
    BY <1>1 DEF SimInv, AllAgree
  <2> QED BY <1>1, <2>1 DEF Agrees, simulator_job_t, SimInv, NoneLeftToFinish
<1>3. NewMoves(j0, rt, time)
  BY <1>1, <1>2, NewJobMovesTo
<1>4. ret' \in Cores \cup {-1}
  BY <1>3 DEF NewMoves, NoJob
<1>5. DOMAIN jobs' = DOMAIN jobs /\ \A m \in DOMAIN jobs : jobs'[m].job_id = jobs[m].job_id
  <2>1. /\ DOMAIN jobs' = DOMAIN jobs
        /\ jobs'[i] = Arrived(jobs[i], ret')
        /\ \A k \in DOMAIN jobs \ {i} : jobs'[k] = ThrownOff(jobs[k]) \/ jobs'[k] = jobs[k]
    <3> SUFFICES ASSUME NEW c \in Cores \cup {-1}, c = ret', NEW js2, js2 = PutOnCore(i, c)
                 PROVE  /\ DOMAIN js2 = DOMAIN jobs /\ js2[i] = Arrived(jobs[i], c)
                        /\ \A k \in DOMAIN jobs \ {i} : js2[k] = ThrownOff(jobs[k]) \/ js2[k] = jobs[k]
      BY <1>4
    <3>1. /\ js2 \in [DOMAIN jobs -> simulator_job_t] /\ js2[i] = Arrived(jobs[i], c)
          /\ \A k \in DOMAIN jobs \ {i} :
               js2[k] = IF c # -1 /\ jobs[k].core_id = c THEN ThrownOff(jobs[k]) ELSE jobs[k]
      BY <1>0, PutOnCoreElements
    <3> QED BY <3>1
  <2>2. ASSUME NEW m \in DOMAIN jobs PROVE jobs'[m].job_id = jobs[m].job_id
    <3>1. jobs[m] \in simulator_job_t
      BY ElementTyped
    <3>2. SameTimes(Arrived(jobs[m], ret'), jobs[m]) /\ SameTimes(ThrownOff(jobs[m]), jobs[m])
      BY <3>1, TimesKept
    <3> QED BY <2>1, <3>2 DEF SameTimes
  <2> QED BY <2>1, <2>2
<1>6. \A j : Known(jobs, j) => Known(jobs', j)
  BY <1>5, KnownKept
<1>7. job_count' = job_count + 1 /\ arrived' = arrived \cup {j0} /\ finished' = finished
  BY DEF scheduler_new_job
<1>8. IsFiniteSet(arrived') /\ Cardinality(arrived') = job_count'
  BY <1>2, <1>7, FS_AddElement DEF AllCounted
<1>9. \A n \in DOMAIN input' : Known(jobs', n - 1) \/ n - 1 \in FinishedJobs'
  BY <1>6, <1>7 DEF AllCounted, FinishedJobs
<1>10. \A n \in DOMAIN input' : (Known(jobs, n - 1))' \/ n - 1 \in FinishedJobs'
  BY <1>9 DEF Known
<1> QED BY <1>8, <1>10 DEF AllCounted

LEMMA OthersCount ==
  SimInv /\ AllCounted /\ (RunTimeUnit \/ AllFinishesSeen \/ AllQuantumsSeen \/ CleanUp \/ UNCHANGED vars)
    => AllCounted'
<1>1. ASSUME SimInv, AllCounted, RunTimeUnit PROVE AllCounted'
  <2>1. /\ input' = input /\ finished' = finished /\ arrived' = arrived /\ job_count' = job_count
        /\ DOMAIN jobs' = DOMAIN jobs
    BY <1>1 DEF RunTimeUnit
  <2>2. ASSUME NEW m \in DOMAIN jobs PROVE jobs'[m].job_id = jobs[m].job_id
    <3>1. jobs'[m] = IF jobs[m].core_id # -1 THEN [jobs[m] EXCEPT !.run_time = @ - 1] ELSE jobs[m]
      BY <1>1 DEF RunTimeUnit
    <3>2. jobs[m] \in simulator_job_t
      BY <1>1, ElementTyped
    <3> DEFINE q == [jobs[m] EXCEPT !.run_time = @ - 1]
    <3>3. q.job_id = jobs[m].job_id
      BY <3>2 DEF simulator_job_t
    <3> HIDE DEF q
    <3> QED BY <3>1, <3>3 DEF q
  <2>3. \A j : Known(jobs, j) => Known(jobs', j)
    BY <2>1, <2>2, KnownKept
  <2>4. phase' # "averages"
    <3>1. phase' \in {"abort", "return 3", "finish"}
      BY <1>1, Zenon DEF RunTimeUnit
    <3> QED BY <3>1
  <2> QED BY <1>1, <2>1, <2>3, <2>4, CountedKept DEF FinishedJobs
<1>2. ASSUME SimInv, AllCounted, AllFinishesSeen \/ AllQuantumsSeen \/ CleanUp \/ UNCHANGED vars
      PROVE  AllCounted'
  <2>1. /\ input' = input /\ finished' = finished /\ arrived' = arrived /\ job_count' = job_count
        /\ jobs' = jobs
    BY <1>2 DEF AllFinishesSeen, AllQuantumsSeen, CleanUp, vars, schedVars, simVars
  <2>2. phase' = "averages" => jobs' = << >>
    <3>1. phase' = "averages" => phase = "averages" \/ Len(jobs) = 0
      BY <1>2 DEF AllFinishesSeen, AllQuantumsSeen, CleanUp, vars, simVars, active_jobs
    <3>2. jobs \in Seq(simulator_job_t)
      BY <1>2 DEF SimInv, AllAgree
    <3>3. Len(jobs) = 0 => jobs = << >>
      BY <3>2
    <3> QED BY <1>2, <2>1, <3>1, <3>3 DEF AllCounted
  <2>3. \A n \in DOMAIN input' : (Known(jobs, n - 1))' \/ n - 1 \in FinishedJobs'
    BY <1>2, <2>1 DEF AllCounted, Known, FinishedJobs
  <2> QED BY <1>2, <2>1, <2>2, <2>3 DEF AllCounted
<1> QED BY <1>1, <1>2

LEMMA CountStarts == Init => AllCounted
<1> SUFFICES ASSUME Init PROVE AllCounted
  OBVIOUS
<1>1. arrived = {} /\ job_count = 0 /\ phase = "finish" /\ input \in JobLists
  BY DEF Init, SchedInit, scheduler_start_up
<1>2. \A n \in DOMAIN input : Known(jobs, n - 1)
  <2>1. DOMAIN input = 1..Len(input)
    BY <1>1, JobListsAssumption
  <2>2. DOMAIN jobs = DOMAIN input /\ \A n \in DOMAIN input : jobs[n] = LoadedJob(n - 1, input[n])
    BY <2>1 DEF Init
  <2>3. \A n \in DOMAIN input : jobs[n].job_id = n - 1
    BY <2>2 DEF LoadedJob
  <2> QED BY <2>2, <2>3 DEF Known
<1> QED BY <1>1, <1>2, FS_EmptySet DEF AllCounted

LEMMA CountStep == SimInv /\ AllCounted /\ [Next]_vars => AllCounted'
  BY JobFinishesCounts, QuantumExpiresCounts, JobArrivesCounts, OthersCount DEF Next
-----------------------------------------------------------------------------
\* The statistics of one job, against one another.
LEMMA StatsCompare ==
  ASSUME NEW n \in Nat, NEW U \in SUBSET (1..n), NEW l, NEW b,
         l.run_time \in Nat \ {0}, l.arrival_time \in Int, \A u \in U : l.arrival_time < u,
         StatsSay(U, l, b)
  PROVE  /\ b.response_time \in Int /\ b.waiting_time \in Int /\ b.turnaround_time \in Int
         /\ 0 <= b.response_time /\ b.response_time <= b.waiting_time
         /\ b.turnaround_time = b.waiting_time + l.run_time
<1> DEFINE A == l.arrival_time
           mx == Max(U)
           mn == Min(U)
           I == A + 1 .. mx
           F == A + 1 .. mn - 1
           W == {u \in A + 1 .. mx : u \notin U}
<1>1. /\ Cardinality(U) = l.run_time /\ b.response_time = mn - 1 - A
      /\ b.turnaround_time = mx - A /\ b.waiting_time = Cardinality(W)
  BY DEF StatsSay
<1>2. U # {}
  BY <1>1, FS_EmptySet
<1>3. /\ mx \in U /\ mn \in U /\ \A u \in U : mn <= u /\ u <= mx /\ A < u /\ u \in 1..n
      /\ A \in Int
  BY <1>2, MaxIsGreatest, MinOfSome
<1> HIDE DEF mx, mn, A
<1>4. mx \in Int /\ mn \in Int /\ A < mn /\ mn <= mx
  BY <1>3
<1>5. IsFiniteSet(I) /\ Cardinality(I) = mx - A /\ IsFiniteSet(F) /\ Cardinality(F) = mn - 1 - A
  <2>1. A + 1 \in Int /\ mn - 1 \in Int
    BY <1>3, <1>4
  <2>2. /\ IsFiniteSet(I) /\ Cardinality(I) = IF A + 1 > mx THEN 0 ELSE mx - (A + 1) + 1
        /\ IsFiniteSet(F) /\ Cardinality(F) = IF A + 1 > mn - 1 THEN 0 ELSE (mn - 1) - (A + 1) + 1
    BY <1>4, <2>1, FS_Interval
  <2>3. ~ (A + 1 > mx)
    BY <1>3, <1>4
  <2>4. Cardinality(F) = mn - 1 - A
    <3>1. CASE A + 1 > mn - 1
      BY <1>3, <1>4, <2>2, <3>1
    <3>2. CASE ~ (A + 1 > mn - 1)
      BY <1>3, <1>4, <2>2, <3>2
    <3> QED BY <3>1, <3>2
  <2> QED BY <1>3, <1>4, <2>2, <2>3, <2>4
<1>6. U \subseteq I /\ W = I \ U
  BY <1>3, <1>4
<1>7. F \subseteq W
  BY <1>3, <1>4
<1> HIDE DEF I, F, W
<1>8. Cardinality(W) = Cardinality(I) - Cardinality(U) /\ IsFiniteSet(W) /\ Cardinality(W) \in Nat
  <2>1. I \cap U = U
    BY <1>6
  <2>2. Cardinality(I \ U) = Cardinality(I) - Cardinality(I \cap U) /\ IsFiniteSet(I \ U)
    BY <1>5, FS_Difference
  <2> QED BY <1>6, <2>1, <2>2, FS_CardinalityType
<1>9. Cardinality(F) <= Cardinality(W)
  BY <1>7, <1>8, FS_Subset
<1>10. b.response_time = Cardinality(F) /\ Cardinality(F) \in Nat
  BY <1>1, <1>5, FS_CardinalityType
<1>11. b.turnaround_time \in Int /\ b.turnaround_time = Cardinality(W) + l.run_time
  <2>1. mx - A \in Int
    BY <1>3, <1>4
  <2>2. Cardinality(W) = (mx - A) - l.run_time
    BY <1>1, <1>5, <1>8
  <2> QED BY <1>1, <2>1, <2>2
<1> QED BY <1>1, <1>8, <1>9, <1>10, <1>11

\* At the end the finished jobs are those of the file, in some order.
LEMMA AllFinished ==
  ASSUME SimInv, HistoryInv, AllCounted, phase = "averages"
  PROVE  /\ Len(input) \in Nat /\ DOMAIN input = 1..Len(input)
         /\ finished \in [1..Len(input) -> 0..(Len(input) - 1)] /\ Len(finished) = Len(input)
         /\ job_count = Len(input)
         /\ \A i, k \in 1..Len(input) : finished[i] = finished[k] => i = k
         /\ \A m \in 1..Len(input) : \E i \in 1..Len(input) : finished[i] = m - 1
         /\ FinishedJobs = 0..(Len(input) - 1) /\ FinishedJobs = arrived
<1> DEFINE N == Len(input)
           L == Len(finished)
<1>1. N \in Nat /\ DOMAIN input = 1..N
  BY JobListsAssumption DEF HistoryInv
<1>2. finished \in Seq(JobNumbers) /\ IsInjective(finished)
  BY DEF SimInv, PlacesInv, TypeOK, Conservation
<1>3. L \in Nat /\ DOMAIN finished = 1..L
  BY <1>2
<1>4. DOMAIN jobs = {}
  BY DEF AllCounted
<1>5. CoreJobs = {} /\ QueueJobs = {}
  BY <1>4 DEF SimInv, AllAgree, Known, CoreJobs
<1>6. FinishedJobs = arrived
  BY <1>5, HistoryTyped
<1>7. FinishedJobs = 0..(N - 1)
  <2>1. ASSUME NEW j \in FinishedJobs PROVE j \in 0..(N - 1)
    <3>1. j \in Int /\ j + 1 \in 1..N
      BY <1>1, <1>6 DEF HistoryInv, JobHistory
    <3> QED BY <1>1, <3>1
  <2>2. ASSUME NEW j \in 0..(N - 1) PROVE j \in FinishedJobs
    <3>1. j + 1 \in 1..N /\ (j + 1) - 1 = j
      BY <1>1
    <3>2. Known(jobs, (j + 1) - 1) \/ (j + 1) - 1 \in FinishedJobs
      BY <1>1, <3>1 DEF AllCounted
    <3> QED BY <1>4, <3>1, <3>2 DEF Known
  <2> QED BY <2>1, <2>2
<1> DEFINE S == 0..(N - 1)
<1>8. finished \in [1..L -> S] /\ \A m \in S : \E i \in 1..L : finished[i] = m
  <2>1. \A i \in 1..L : finished[i] \in S
    BY <1>3, <1>7 DEF FinishedJobs, ToSet
  <2>2. \A m \in S : \E i \in 1..L : finished[i] = m
    BY <1>3, <1>7 DEF FinishedJobs, ToSet
  <2>3. finished = [i \in 1..L |-> finished[i]]
    BY <1>2, <1>3
  <2> HIDE DEF S
  <2> QED BY <2>1, <2>2, <2>3
<1>9. IsFiniteSet(S) /\ Cardinality(S) = N
  <2>1. 0 \in Int /\ N - 1 \in Int
    BY <1>1
  <2>2. IsFiniteSet(S) /\ Cardinality(S) = IF 0 > N - 1 THEN 0 ELSE (N - 1) - 0 + 1
    BY <2>1, FS_Interval
  <2> HIDE DEF S
  <2> QED BY <1>1, <2>2
<1>10. IsFiniteSet(1..L) /\ Cardinality(1..L) = L
  <2>1. 1 \in Int /\ L \in Int
    BY <1>3
  <2>2. IsFiniteSet(1..L) /\ Cardinality(1..L) = IF 1 > L THEN 0 ELSE L - 1 + 1
    BY <2>1, FS_Interval
  <2> HIDE DEF L
  <2> QED BY <1>3, <2>2
<1>11. L = N
  <2> DEFINE f == finished
             T == 1..L
  <2>1. f \in Surjection(T, S) /\ f \in Injection(T, S)
    BY <1>2, <1>8 DEF Surjection, Injection
  <2> HIDE DEF f, S, T, L
  <2>2. IsFiniteSet(T) /\ Cardinality(T) = L
    BY <1>10 DEF T
  <2>3. Cardinality(S) = Cardinality(T)
    BY <2>1, <2>2, FS_Surjection
  <2> QED BY <1>9, <2>2, <2>3
<1>12. job_count = N
  BY <1>6, <1>7, <1>9 DEF AllCounted
<1>13. \A i, k \in 1..N : finished[i] = finished[k] => i = k
  BY <1>2, <1>3, <1>11 DEF IsInjective
<1>14. \A m \in 1..N : \E i \in 1..N : finished[i] = m - 1
  <2> TAKE m \in 1..N
  <2>1. m - 1 \in S
    BY <1>1
  <2> QED BY <1>8, <1>11, <2>1
<1> QED BY <1>1, <1>6, <1>7, <1>8, <1>11, <1>12, <1>13, <1>14

LEMMA AveragesOfDiagram ==
  ASSUME SimInv, HistoryInv, AllCounted, phase = "averages"
  PROVE  /\ job_count = Len(finished) /\ job_count = Len(input)
         /\ 0 <= total_response /\ total_response <= total_waiting
         /\ total_turnaround = total_waiting + SumOf([n \in DOMAIN input |-> input[n].run_time])
<1> DEFINE N == Len(input)
           w == [i \in 1..N |-> job[finished[i]].waiting_time]
           t == [i \in 1..N |-> job[finished[i]].turnaround_time]
           r == [i \in 1..N |-> job[finished[i]].response_time]
           v == [m \in 1..N |-> input[m].run_time]
           p == [i \in 1..N |-> finished[i] + 1]
           x == [i \in 1..N |-> v[p[i]]]
<1>1. /\ N \in Nat /\ DOMAIN input = 1..N
      /\ finished \in [1..N -> 0..(N - 1)] /\ Len(finished) = N /\ job_count = N
      /\ \A i, k \in 1..N : finished[i] = finished[k] => i = k
      /\ \A m \in 1..N : \E i \in 1..N : finished[i] = m - 1
      /\ FinishedJobs = 0..(N - 1) /\ FinishedJobs = arrived
  BY AllFinished
<1>2. /\ total_waiting = SumOf(w) /\ total_turnaround = SumOf(t) /\ total_response = SumOf(r)
  <2>1. DOMAIN finished = 1..N
    BY <1>1
  <2> QED BY <2>1, Zenon DEF total_waiting, total_turnaround, total_response, TotalOf
<1>3. SumOf([n \in DOMAIN input |-> input[n].run_time]) = SumOf(v)
  BY <1>1, Zenon
<1>4. ASSUME NEW i \in 1..N
      PROVE  /\ r[i] \in Int /\ w[i] \in Int /\ t[i] \in Int /\ x[i] \in Int
             /\ 0 <= r[i] /\ r[i] <= w[i] /\ t[i] = w[i] + x[i]
  <2> SUFFICES ASSUME NEW j, j = finished[i]
               PROVE  /\ r[i] \in Int /\ w[i] \in Int /\ t[i] \in Int /\ x[i] \in Int
                      /\ 0 <= r[i] /\ r[i] <= w[i] /\ t[i] = w[i] + x[i]
    OBVIOUS
  <2>1. j \in 0..(N - 1) /\ j \in arrived /\ j \in FinishedJobs /\ p[i] = j + 1 /\ j + 1 \in 1..N
    <3>1. j \in 0..(N - 1) /\ p[i] = j + 1
      BY <1>1
    <3>2. j + 1 \in 1..N
      <4> HIDE DEF N
      <4> QED BY <1>1, <3>1
    <3> QED BY <1>1, <3>1, <3>2
  <2>2. JobHistory(j) /\ time \in Nat
    BY <2>1, HistoryTyped DEF HistoryInv
  <2> DEFINE U == UnitsOf(j)
             l == Line(j)
             b == job[j]
  <2>3. /\ U \in SUBSET (1..time) /\ StatsSay(U, l, b) /\ \A u \in U : l.arrival_time < u
        /\ l.run_time \in Nat \ {0} /\ l.arrival_time \in Int
    BY <2>1, <2>2, UnitsTyped, LineTyped DEF JobHistory, HistoryInv, Line
  <2>4. x[i] = l.run_time /\ r[i] = b.response_time /\ w[i] = b.waiting_time /\ t[i] = b.turnaround_time
    BY <2>1 DEF Line
  <2> HIDE DEF U, l, b, x, r, w, t
  <2>5. /\ b.response_time \in Int /\ b.waiting_time \in Int /\ b.turnaround_time \in Int
        /\ 0 <= b.response_time /\ b.response_time <= b.waiting_time
        /\ b.turnaround_time = b.waiting_time + l.run_time
    BY <2>2, <2>3, StatsCompare
  <2> QED BY <2>3, <2>4, <2>5
<1>5. /\ r \in [1..N -> Int] /\ w \in [1..N -> Int] /\ t \in [1..N -> Int] /\ x \in [1..N -> Int]
  <2>1. r = [i \in 1..N |-> r[i]]
    OBVIOUS
  <2>2. w = [i \in 1..N |-> w[i]]
    OBVIOUS
  <2>3. t = [i \in 1..N |-> t[i]]
    OBVIOUS
  <2>4. x = [i \in 1..N |-> x[i]]
    OBVIOUS
  <2> HIDE DEF r, w, t, x
  <2> QED BY <1>4, <2>1, <2>2, <2>3, <2>4
<1>6. v \in [1..N -> Int] /\ p \in [1..N -> 1..N]
  <2>1. \A m \in 1..N : input[m].run_time \in Int
    <3> TAKE m \in 1..N
    <3>1. input \in JobLists /\ m \in DOMAIN input
      BY <1>1 DEF HistoryInv
    <3>2. input[m].run_time \in Nat \ {0}
      BY <3>1, LineTyped
    <3> QED BY <3>2
  <2>2. \A i \in 1..N : finished[i] \in 0..(N - 1)
    BY <1>1
  <2>3. \A i \in 1..N : finished[i] + 1 \in 1..N
    <3> HIDE DEF N
    <3> QED BY <1>1, <2>2
  <2>4. v \in [1..N -> Int]
    BY <2>1
  <2>5. p \in [1..N -> 1..N]
    BY <2>3
  <2> QED BY <2>4, <2>5
<1>7. SumOf(x) = SumOf(v)
  <2>1. \A i, k \in 1..N : p[i] = p[k] => i = k
    <3> TAKE i, k \in 1..N
    <3> HAVE p[i] = p[k]
    <3>1. finished[i] \in 0..(N - 1) /\ finished[k] \in 0..(N - 1)
      BY <1>1
    <3>2. finished[i] + 1 = finished[k] + 1
      OBVIOUS
    <3>3. finished[i] = finished[k]
      <4> HIDE DEF N, p
      <4> QED BY <1>1, <3>1, <3>2
    <3> QED BY <1>1, <3>3
  <2>2. \A m \in 1..N : \E i \in 1..N : p[i] = m
    <3> TAKE m \in 1..N
    <3>1. PICK i \in 1..N : finished[i] = m - 1
      BY <1>1
    <3>2. p[i] = m
      BY <3>1
    <3> QED BY <3>2
  <2> HIDE DEF v, p
  <2>3. SumOf([i \in 1..N |-> v[p[i]]]) = SumOf(v)
    BY <1>1, <1>6, <2>1, <2>2, SumOfPermuted
  <2> QED BY <2>3, Zenon
<1> HIDE DEF r, w, t, x, v, N
<1>8. SumOf(t) = SumOf(w) + SumOf(x)
  <2>1. \A i \in 1..N : t[i] = w[i] + x[i]
    BY <1>4
  <2> QED BY <1>1, <1>5, <2>1, SumOfSums, Zenon
<1>9. 0 <= SumOf(r) /\ SumOf(r) <= SumOf(w)
  BY <1>1, <1>4, <1>5, SumOrder
<1> QED BY <1>1, <1>2, <1>3, <1>7, <1>8, <1>9 DEF N

LEMMA AllCountedAlways == Spec => []AllCounted
<1>1. Init => AllCounted
  BY CountStarts
<1>2. SimInv /\ AllCounted /\ [Next]_vars => AllCounted'
  BY CountStep
<1> QED BY <1>1, <1>2, SimulatorInvariant, PTL DEF Spec

(* The statistics of each finished job are those of the timing diagram,    *)
(* although the library derives them from the times of its calls and never *)
(* sees a unit run; and the averages are over all jobs of the file: the    *)
(* turnaround is the waiting and the running time, and no job responds     *)
(* later than it waited.                                                   *)
THEOREM StatisticsAreTrue == Spec => []StatisticsMatchDiagram
<1>1. SimInv /\ HistoryInv /\ AllCounted => StatisticsMatchDiagram
  <2> SUFFICES ASSUME SimInv, HistoryInv, AllCounted PROVE StatisticsMatchDiagram
    OBVIOUS
  <2>1. \A j \in FinishedJobs : StatsSay(UnitsOf(j), Line(j), job[j])
    BY HistoryTyped DEF HistoryInv, JobHistory
  <2>2. \A j \in FinishedJobs :
          LET line == input[j + 1]
              units == UnitsOf(j)
          IN  /\ Cardinality(units) = line.run_time
              /\ job[j].response_time = Min(units) - 1 - line.arrival_time
              /\ job[j].turnaround_time = Max(units) - line.arrival_time
              /\ job[j].waiting_time =
                   Cardinality({u \in line.arrival_time + 1 .. Max(units) : u \notin units})
    BY <2>1, Zenon DEF StatsSay, Line
  <2> QED BY <2>2, AveragesOfDiagram, Zenon DEF StatisticsMatchDiagram
<1> QED BY <1>1, SimulatorInvariant, HistoryInvariant, AllCountedAlways, PTL
=============================================================================
