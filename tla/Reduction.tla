----------------------------- MODULE Reduction ------------------------------
(***************************************************************************)
(* What the mapreduce library promises: the pairs that the map processes   *)
(* write are reduced into their keys, each exactly once and in any order,  *)
(* and reduce_all returns when none is left.                               *)
(***************************************************************************)
CONSTANTS
  Pairs,          \* the pairs that all the map processes write
  KeyOf(_)        \* the key of a pair

VARIABLES
  result,         \* the pairs reduced into each key so far
  returned        \* reduce_all has returned

vars == << result, returned >>

Init ==
  /\ result = [k \in {KeyOf(p) : p \in Pairs} |-> {}]
  /\ returned = FALSE

Reduce(p) ==
  /\ p \notin result[KeyOf(p)]
  /\ result' = [result EXCEPT ![KeyOf(p)] = @ \cup {p}]
  /\ UNCHANGED returned

ReduceAllReturns ==
  /\ \A p \in Pairs : p \in result[KeyOf(p)]
  /\ returned' = TRUE
  /\ UNCHANGED result

Next == (\E p \in Pairs : Reduce(p)) \/ ReduceAllReturns

Spec == Init /\ [][Next]_vars
=============================================================================
