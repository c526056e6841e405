----------------------------- MODULE QueueList ------------------------------
(***************************************************************************)
(* queue.c of mp6 and mp8: a singly linked list with a tail pointer.  It   *)
(* is not thread safe, and each call is one action here; what its callers  *)
(* in parmake.c make of that is in Parmake.                                *)
(***************************************************************************)
EXTENDS Integers, Sequences, FiniteSets

CONSTANTS Node, Item, NULL
VARIABLES head, tail, size,
          live, item, next,      \* the nodes that are allocated, and their fields
          ret                    \* what the last call returned or passed to iter_func
vars == << head, tail, size, live, item, next, ret >>

queue_init ==
  /\ head = NULL /\ tail = NULL /\ size = 0
  /\ live = {} /\ item = [n \in Node |-> NULL] /\ next = [n \in Node |-> NULL]
  /\ ret = NULL

\* The i-th node, counted from 0.
Walk(i) == LET at[j \in 0..i] == IF j = 0 THEN head ELSE next[at[j - 1]] IN at[i]
Freed(n) == live' = live \ {n}

queue_enqueue(x) ==
  /\ \E back \in Node \ live :
       /\ live' = live \cup {back}
       /\ item' = [item EXCEPT ![back] = x]
       /\ head' = IF size = 0 THEN back ELSE head
       /\ next' = [n \in Node |-> CASE n = back -> NULL
                                    [] size # 0 /\ n = tail -> back
                                    [] OTHER -> next[n]]
       /\ tail' = back
  /\ size' = size + 1 /\ ret' = NULL

queue_dequeue ==
  \/ size = 0 /\ ret' = NULL /\ UNCHANGED << head, tail, size, live, item, next >>
  \/ /\ size # 0
     /\ size' = size - 1
     /\ head' = IF size = 1 THEN NULL ELSE next[head]
     /\ tail' = IF size = 1 THEN NULL ELSE tail
     /\ ret' = item[head]
     /\ Freed(head)
     /\ UNCHANGED << item, next >>

KeepTail(pos) ==      \* mutant: the tail keeps pointing to a freed node
  LET cur == Walk(pos) IN
  /\ head' = IF cur = head THEN next[cur] ELSE head
  /\ tail' = IF cur = head /\ next[cur] = NULL THEN NULL ELSE tail
  /\ next' = IF cur = head THEN next ELSE [next EXCEPT ![Walk(pos - 1)] = next[cur]]

\* The three branches of queue_remove_at: the first node, the last, another.
Unlink(pos) ==
  LET cur == Walk(pos) IN
  \/ /\ cur = head
     /\ head' = next[cur] /\ tail' = (IF next[cur] = NULL THEN NULL ELSE tail)
     /\ next' = next
  \/ /\ cur # head /\ cur = tail
     /\ tail' = Walk(pos - 1) /\ next' = [next EXCEPT ![Walk(pos - 1)] = NULL]
     /\ head' = head
  \/ /\ cur # head /\ cur # tail
     /\ next' = [next EXCEPT ![Walk(pos - 1)] = next[cur]]
     /\ UNCHANGED << head, tail >>

\* size - 1 is unsigned: with an empty queue every position passes the test
\* and NULL is followed, so the call is left out then.
queue_remove_at(pos) ==
  \/ /\ pos < 0 \/ (size # 0 /\ size - 1 < pos)
     /\ ret' = NULL
     /\ UNCHANGED << head, tail, size, live, item, next >>
  \/ /\ 0 <= pos /\ pos < size
     /\ size' = size - 1
     /\ ret' = item[Walk(pos)]
     /\ Freed(Walk(pos))
     /\ Unlink(pos)
     /\ item' = item

\* The position behind the last one reads the item of NULL: left out too.
queue_at(pos) ==
  /\ pos # size
  /\ ret' = IF pos < 0 \/ pos > size THEN NULL ELSE item[Walk(pos)]
  /\ UNCHANGED << head, tail, size, live, item, next >>

\* Calls iter_func on every item, following the next pointers until NULL.
UntilNull == CHOOSE n \in 0 .. Cardinality(Node) :
               Walk(n) = NULL /\ \A i \in 0 .. n - 1 : Walk(i) # NULL
queue_iterate ==
  /\ ret' = IF size = 0 THEN << >> ELSE [i \in 1..UntilNull |-> item[Walk(i - 1)]]
  /\ UNCHANGED << head, tail, size, live, item, next >>

\* dequeue until the queue is empty.
queue_destroy ==
  /\ live' = live \ {Walk(i) : i \in 0 .. size - 1}
  /\ head' = (IF size = 0 THEN head ELSE NULL) /\ tail' = (IF size = 0 THEN tail ELSE NULL)
  /\ size' = 0 /\ ret' = NULL
  /\ UNCHANGED << item, next >>

Next == \/ \E x \in Item : queue_enqueue(x)
        \/ queue_dequeue \/ queue_iterate \/ queue_destroy
        \/ \E pos \in -1 .. size + 1 : queue_remove_at(pos) \/ queue_at(pos)
Spec == queue_init /\ [][Next]_vars
-----------------------------------------------------------------------------
Nodes == [i \in 1..size |-> Walk(i - 1)]
Promise == INSTANCE QueueSpec WITH items <- [i \in 1..size |-> item[Nodes[i]]], ret <- ret
(* Whatever is removed from the front, the middle or the end, the next     *)
(* call still sees the sequence, and the nodes it leads to are the live    *)
(* ones: no stale tail, no leak, no node used after free.                  *)
ImplementsSequence ==
  /\ Promise!Spec
  /\ [](live = {Nodes[i] : i \in 1..size} /\ Cardinality(live) = size)
=============================================================================
