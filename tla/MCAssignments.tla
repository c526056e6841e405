--------------------------- MODULE MCAssignments ----------------------------
(***************************************************************************)
(* Small sets for the libraries and programs of Assignments.               *)
(***************************************************************************)
EXTENDS Assignments, TLC

CONSTANTS a, b, d, c1, c2

Sizes == 0..3
Pointers == 1..4
\* The data pointers of mp5 compare equal in pairs, as what queuetest.c
\* offers twice.
PairComp(x, y) == (x \div 2) - (y \div 2)
\* For mp3: what is typed.
Lines == {<< "ls" >>, << "ls", "-l" >>, << "cd", "x" >>, << "cd", "y" >>}
Prefixes == {<< >>, << "ls" >>, << "ls", "-l" >>, << "cd" >>}
\* For mp4: n values with repetitions and in no order, cut into s segments;
\* 17 of them do not fit the list, and several pairs leave a segment with a
\* negative size.
Values(n) == [x \in 1..n |-> (n - x) \div 2 + (IF x % 3 = 0 THEN 2 ELSE 0)]
CommandLines == {[segment_ct |-> s, values |-> Values(n)] : s \in 1..8, n \in {7, 8} \cup 12..17}
\* For ds11: a client of each format.
Formats == (c1 :> ASCII) @@ (c2 :> BIN)
Texts == (c1 :> << << a, b, d >>, << b >> >>) @@ (c2 :> << << a, d >>, << d, b, a, a >> >>)
=============================================================================
