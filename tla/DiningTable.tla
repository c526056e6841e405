---------------------------- MODULE DiningTable -----------------------------
(***************************************************************************)
(* The table of ds9: a fork between each pair of adjacent philosophers,    *)
(* and both forks needed to eat.  Who gets to eat and when is left open.   *)
(***************************************************************************)
EXTENDS Integers

CONSTANT phil_count

VARIABLE eating

Phils == 0..(phil_count - 1)
left(n) == (n + 1) % phil_count
right(n) == (n + (phil_count - 1)) % phil_count

TableInit == eating = {}

Eat(n) == /\ left(n) \notin eating /\ right(n) \notin eating
          /\ eating' = eating \cup {n}

Rest(n) == /\ n \in eating
           /\ eating' = eating \ {n}

TableNext == \E n \in Phils : Eat(n) \/ Rest(n)
TableSpec == TableInit /\ [][TableNext]_eating
=============================================================================
