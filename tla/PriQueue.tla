------------------------------ MODULE PriQueue ------------------------------
(***************************************************************************)
(* What libpriqueue computes, with the linked list abstracted to the       *)
(* sequence of its data pointers, head first.  PriQueueList models the     *)
(* list itself and is checked to implement these operators.                *)
(*                                                                         *)
(* The comparison function pointer enters as `stops': the positions i of   *)
(* the queue at which comp(ptr, data_i) <= 0 holds, where the scan of      *)
(* priqueue_offer ends.                                                    *)
(***************************************************************************)
EXTENDS Integers, Sequences

\* The scan goes from the head to the first stop, or past the last element.
OfferPosition(q, stops) ==
  IF stops = {} THEN Len(q) + 1
                ELSE CHOOSE i \in stops : \A k \in stops : i <= k

\* An element equal to the new one is a stop: the new one goes in front of it.
priqueue_offer(q, ptr, stops) ==
  LET p == OfferPosition(q, stops)
  IN  SubSeq(q, 1, p - 1) \o << ptr >> \o SubSeq(q, p, Len(q))

\* NULL, here the parameter `null', when the queue is empty.
priqueue_peek(q, null) == IF q = << >> THEN null ELSE Head(q)

\* What priqueue_poll leaves in the queue; it returns priqueue_peek.
priqueue_poll(q) == IF q = << >> THEN q ELSE Tail(q)
=============================================================================
