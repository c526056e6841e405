----------------------------- MODULE MergeSort ------------------------------
(***************************************************************************)
(* mp4/msort.c: the segments of a list are sorted by a thread each, and    *)
(* merged in rounds by a thread for each pair.  The threads of a round     *)
(* share the list without a lock; the main thread joins them all before    *)
(* the next round.                                                         *)
(***************************************************************************)
EXTENDS Naturals, Integers, Sequences, FiniteSets
LOCAL INSTANCE Functions
LOCAL INSTANCE TLC

CONSTANTS
  Inputs,      \* the command lines and inputs: [segment_ct, values]
  NUM_INTS     \* the list is allocated for so many, and once for twice as many

VARIABLES
  stage,       \* what the main thread does
  input,       \* segment_ct and what was read
  list, capacity,
  round_ct, values_per_segment, end,
  tasks        \* the threads created since the last join

vars == << stage, input, list, capacity, round_ct, values_per_segment, end, tasks >>
locals == << input, capacity, round_ct, values_per_segment, end >>

Init ==
  /\ stage = "read" /\ input = [segment_ct |-> 1, values |-> << >>]
  /\ list = << >> /\ capacity = NUM_INTS
  /\ round_ct = 1 /\ values_per_segment = 0 /\ end = 0 /\ tasks = << >>

input_ct == Len(input.values)
segment_ct == input.segment_ct

\* The loop of fgets; the list grows once, when one place is left, and what
\* is written behind it then is undefined.
Read == \E i \in Inputs :
  /\ stage = "read"
  /\ stage' = IF Len(i.values) <= 2 * NUM_INTS THEN "split" ELSE "undefined"
  /\ input' = i /\ list' = i.values
  /\ capacity' = IF Len(i.values) >= NUM_INTS - 1 THEN 2 * NUM_INTS ELSE NUM_INTS
  /\ UNCHANGED << round_ct, values_per_segment, end, tasks >>
-----------------------------------------------------------------------------
\* seg1 and seg2 are offsets into the list, from 0; a task to sort has no
\* second part.
Task(op, seg1, size1, seg2, size2) ==
  [op |-> op, seg1 |-> seg1, size1 |-> size1, seg2 |-> seg2, size2 |-> size2,
   place |-> "new", temp |-> << >>]
Joined == \A t \in DOMAIN tasks : tasks[t].place = "done"

Segment(i, v) == Task("sort", i * v, IF i = segment_ct - 1 THEN input_ct - v * i ELSE v, i * v, 0)

Split ==
  /\ stage = "split"
  /\ LET v == input_ct \div segment_ct + (IF input_ct % segment_ct = 0 THEN 0 ELSE 1)
     IN  /\ values_per_segment' = v
         /\ tasks' = [i \in 1..segment_ct |-> Segment(i - 1, v)]
         /\ end' = (segment_ct - 1) * v
  /\ round_ct' = segment_ct
  /\ stage' = "round"
  /\ UNCHANGED << input, list, capacity >>

PairAll(i, v) == Task("merge", 2 * v * i, v, 2 * v * i + v, v)      \* mutant: all are full
Pair(i, v) == Task("merge", 2 * v * i, v, 2 * v * i + v,
                   IF 2 * v * (i + 1) > input_ct THEN input_ct - v * (2 * i + 1) ELSE v)

\* One round of the while loop: the pairs, then the pair that an odd number
\* of them leaves behind and what came after it before.
Round ==
  /\ stage = "round" /\ Joined
  /\ round_ct # 1
  /\ round_ct' = round_ct \div 2
  /\ tasks' = [i \in 1..round_ct' |-> Pair(i - 1, values_per_segment)]
  /\ stage' = "left over"
  /\ UNCHANGED << input, list, capacity, values_per_segment, end >>

LeftOver ==
  /\ stage = "left over" /\ Joined
  /\ LET v == values_per_segment
         last == 2 * v * (round_ct - 1)
     IN  IF round_ct % 2 # 0 /\ round_ct # 1
         THEN /\ tasks' = << Task("merge", last, 2 * v, end, input_ct - 2 * v * round_ct) >>
              /\ end' = last
         ELSE tasks' = << >> /\ end' = end
  /\ values_per_segment' = 2 * values_per_segment
  /\ stage' = "round"
  /\ UNCHANGED << input, list, capacity, round_ct >>

LastMergeNever ==      \* mutant: what an odd number of segments leaves is not merged
  /\ stage = "round" /\ Joined
  /\ round_ct = 1
  /\ tasks' = << >> /\ stage' = "print"
  /\ UNCHANGED << list, locals >>

LastMerge ==
  /\ stage = "round" /\ Joined
  /\ round_ct = 1
  /\ tasks' = IF segment_ct % 2 = 0 THEN << >>
              ELSE << Task("merge", 0, values_per_segment, end, input_ct - values_per_segment) >>
  /\ stage' = "print"
  /\ UNCHANGED << list, locals >>

PrintList ==
  /\ stage = "print" /\ Joined
  /\ stage' = "done"
  /\ UNCHANGED << list, tasks, locals >>
-----------------------------------------------------------------------------
\* The threads.
Part(offset, n) == SubSeq(list, offset + 1, offset + n)
Overwrite(offset, s) == [i \in DOMAIN list |-> IF i - offset \in DOMAIN s THEN s[i - offset] ELSE list[i]]
Step(t, place, temp) == tasks' = [tasks EXCEPT ![t].place = place, ![t].temp = temp]

\* Whether a thread stays inside what was read and has no part of a negative
\* size.  What it does otherwise, to memory that is not its own or was never
\* written, is undefined, and so is all that comes after.
Defined(t) ==
  /\ tasks[t].size1 >= 0 /\ tasks[t].seg1 + tasks[t].size1 <= input_ct
  /\ tasks[t].size2 >= 0 /\ tasks[t].seg2 + tasks[t].size2 <= input_ct
Overrun(t) ==
  /\ tasks[t].place = "new" /\ ~Defined(t)
  /\ stage' = "undefined"
  /\ UNCHANGED << list, tasks, locals >>

sort(t) ==
  /\ tasks[t].op = "sort" /\ tasks[t].place = "new" /\ Defined(t)
  /\ list' = Overwrite(tasks[t].seg1, SortSeq(Part(tasks[t].seg1, tasks[t].size1), <))
  /\ Step(t, "done", << >>)
  /\ UNCHANGED << stage, locals >>

\* The three loops of merge, from the positions p of left and right on.
Merged(left, right) ==
  LET rest[p \in (1..Len(left) + 1) \X (1..Len(right) + 1)] ==
        CASE p[1] > Len(left)  -> SubSeq(right, p[2], Len(right))
          [] p[2] > Len(right) -> SubSeq(left, p[1], Len(left))
          [] OTHER -> IF left[p[1]] < right[p[2]]
                      THEN << left[p[1]] >> \o rest[<< p[1] + 1, p[2] >>]
                      ELSE << right[p[2]] >> \o rest[<< p[1], p[2] + 1 >>]
  IN  rest[<< 1, 1 >>]

merge(t) ==
  /\ tasks[t].op = "merge" /\ tasks[t].place = "new" /\ Defined(t)
  /\ Step(t, "copy", Merged(Part(tasks[t].seg1, tasks[t].size1), Part(tasks[t].seg2, tasks[t].size2)))
  /\ UNCHANGED << stage, list, locals >>

\* memcpy from temp to where left begins.
merge_copy(t) ==
  /\ tasks[t].place = "copy"
  /\ list' = Overwrite(tasks[t].seg1, tasks[t].temp)
  /\ Step(t, "done", << >>)
  /\ UNCHANGED << stage, locals >>

Next == \/ Read \/ Split \/ Round \/ LeftOver \/ LastMerge \/ PrintList
        \/ stage # "undefined" /\ \E t \in DOMAIN tasks : sort(t) \/ merge(t) \/ merge_copy(t) \/ Overrun(t)
Spec == Init /\ [][Next]_vars
-----------------------------------------------------------------------------
Handled == {n \in 1..segment_ct : n % 2 = 1} \cup {2, 4, 8, 16}

(* What the program does not support: more numbers than twice NUM_INTS     *)
(* (the list grows once); segments before the last that need more numbers  *)
(* than there are (the last one has a negative size then); and an even     *)
(* number of segments, no power of two, that does not divide the numbers   *)
(* (what an odd number of pairs leaves over has a negative size then).     *)
Supported ==
  /\ input_ct <= 2 * NUM_INTS
  /\ (segment_ct - 1) * ((input_ct + segment_ct - 1) \div segment_ct) <= input_ct
  /\ segment_ct \in Handled \/ input_ct % segment_ct = 0

(* For what is supported, no two threads that run at the same time touch   *)
(* the same element, all stay inside what was read and allocated, and the  *)
(* two parts of a merge are neighbours: its memcpy writes back where it    *)
(* has read.                                                               *)
Touched(t) == tasks[t].seg1 .. tasks[t].seg1 + tasks[t].size1 + tasks[t].size2 - 1
ThreadsDisjoint == Supported =>
  /\ stage # "undefined"
  /\ input_ct <= capacity
  /\ \A t \in DOMAIN tasks :
       /\ tasks[t].size1 >= 0 /\ tasks[t].size2 >= 0
       /\ Touched(t) \subseteq 0..input_ct - 1
       /\ tasks[t].size2 > 0 => tasks[t].seg2 = tasks[t].seg1 + tasks[t].size1
       /\ \A u \in DOMAIN tasks \ {t} : Touched(t) \cap Touched(u) = {}

(* For an odd number of segments and for a power of two the list that is   *)
(* printed is the input in order.  (For 6, 10, 12 and 14 the last segments *)
(* are merged with each other and never with the rest.)                    *)
PrintsSorted ==
  stage = "done" /\ segment_ct \in Handled =>
    /\ \A i \in 1..input_ct - 1 : list[i] <= list[i + 1]
    /\ \A x \in Range(input.values) :
         Cardinality({i \in DOMAIN list : list[i] = x}) = Cardinality({i \in 1..input_ct : input.values[i] = x})
=============================================================================
