---------------------------- MODULE MCPrograms ------------------------------
(***************************************************************************)
(* Lines for MapReduce: keys that two tasks share and that one task        *)
(* repeats, and a line as long as the buffer.                              *)
(***************************************************************************)
EXTENDS Programs

Pair(key, len) == [key |-> key, len |-> len]

SharedKeys == << << Pair("a", 3), Pair("b", 1) >>, << Pair("a", 2), Pair("a", 1) >>, << Pair("b", 2) >> >>
=============================================================================
