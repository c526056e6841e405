----------------------------- MODULE QueueSpec ------------------------------
(***************************************************************************)
(* What mp6/queue.c promises: a sequence of items, from which any position *)
(* may be removed.                                                         *)
(***************************************************************************)
EXTENDS Integers, Sequences

CONSTANTS Item, NULL
VARIABLES items, ret
vars == << items, ret >>

Init == items = << >> /\ ret = NULL

Has(pos) == pos + 1 \in DOMAIN items
Enqueue == \E x \in Item : items' = Append(items, x) /\ ret' = NULL
TakeOut(pos) ==
  \/ /\ Has(pos) /\ ret' = items[pos + 1]
     /\ items' = SubSeq(items, 1, pos) \o SubSeq(items, pos + 2, Len(items))
  \/ ~Has(pos) /\ items' = items /\ ret' = NULL
At(pos) == items' = items /\ ret' = IF Has(pos) THEN items[pos + 1] ELSE NULL
Iterate == items' = items /\ ret' = items
Destroy == items' = << >> /\ ret' = NULL

Positions == -1 .. Len(items) + 1
Next == \/ Enqueue \/ Iterate \/ Destroy
        \/ \E pos \in Positions : TakeOut(pos) \/ At(pos)
Spec == Init /\ [][Next]_vars
=============================================================================
