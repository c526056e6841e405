---------------------------- MODULE PriQueueList ----------------------------
(***************************************************************************)
(* libpriqueue.c at the level of its doubly linked list: pri_node_t cells  *)
(* that are malloc'ed, linked through next and prev, and freed.  The scan  *)
(* of priqueue_offer and the walk of priqueue_destroy are steps of their   *)
(* own, so that an iteration of either loop is one action.                 *)
(***************************************************************************)
EXTENDS PriQueue, FiniteSets

CONSTANTS
  Node,         \* the addresses malloc may return
  Value, NULL, MaxLen, comp(_, _)

VARIABLES
  head, size,   \* the fields of priqueue_t
  cell,         \* the pri_node_t at each address: data, next, prev
  live,         \* the addresses that are allocated
  pc,           \* "idle", or the loop that is running
  ptr, new_node, curr, index,    \* arguments and locals of that loop
  answer        \* the last call and what it returned

vars == << head, size, cell, live, pc, ptr, new_node, curr, index, answer >>
locals == << ptr, new_node, curr, index >>

NoCell == [data |-> NULL, next |-> NULL, prev |-> NULL]

Init ==
  /\ head = NULL /\ size = 0
  /\ cell = [n \in Node |-> NoCell]
  /\ live = {}
  /\ pc = "idle"
  /\ ptr = NULL /\ new_node = NULL /\ curr = NULL /\ index = 0
  /\ answer = [op |-> "init", ret |-> 0]

\* Leave the running call: the locals are dead, `r' is what it returned.
Return(op, r) ==
  /\ pc' = "idle"
  /\ ptr' = NULL /\ new_node' = NULL /\ curr' = NULL /\ index' = 0
  /\ answer' = [op |-> op, ret |-> r]

OfferCall == \E x \in Value, n \in Node \ live :
  /\ pc = "idle"
  /\ size < MaxLen
  /\ live' = live \cup {n}
  /\ cell' = [cell EXCEPT ![n] = [NoCell EXCEPT !.data = x]]
  /\ \/ /\ head = NULL
        /\ head' = n /\ size' = size + 1
        /\ Return("offer", 0)
     \/ /\ head # NULL
        /\ pc' = "offer"
        /\ ptr' = x /\ new_node' = n /\ curr' = head /\ index' = 0
        /\ UNCHANGED << head, size, answer >>

\* comp(ptr, curr->data) <= 0: link new_node in front of curr.
OfferBefore ==
  /\ pc = "offer"
  /\ comp(ptr, cell[curr].data) <= 0
  /\ \/ /\ curr = head
        /\ cell' = [cell EXCEPT ![new_node].next = curr, ![curr].prev = new_node]
        /\ head' = new_node
        /\ Return("offer", 0)
     \/ /\ curr # head
        /\ cell' = [cell EXCEPT ![new_node].next = curr,
                                ![cell[curr].prev].next = new_node,
                                ![new_node].prev = cell[curr].prev,
                                ![curr].prev = new_node]
        /\ UNCHANGED head
        /\ Return("offer", index)
  /\ size' = size + 1
  /\ UNCHANGED live

\* The last element still comes first: new_node becomes the tail.
OfferAtTail ==
  /\ pc = "offer"
  /\ comp(ptr, cell[curr].data) > 0
  /\ cell[curr].next = NULL
  /\ cell' = [cell EXCEPT ![curr].next = new_node,
                          ![new_node].prev = curr, ![new_node].next = NULL]
  /\ size' = size + 1
  /\ Return("offer", index)
  /\ UNCHANGED << head, live >>

OfferAdvance ==
  /\ pc = "offer"
  /\ comp(ptr, cell[curr].data) > 0
  /\ cell[curr].next # NULL
  /\ index' = index + 1
  /\ curr' = cell[curr].next
  /\ UNCHANGED << head, size, cell, live, pc, ptr, new_node, answer >>

Peek ==
  /\ pc = "idle"
  /\ answer' = [op |-> "peek", ret |-> IF head = NULL \/ size = 0 THEN NULL ELSE cell[head].data]
  /\ UNCHANGED << head, size, cell, live, pc, locals >>

PollEmpty ==
  /\ pc = "idle"
  /\ head = NULL \/ size = 0
  /\ answer' = [op |-> "poll", ret |-> NULL]
  /\ UNCHANGED << head, size, cell, live, pc, locals >>

PollAfterFree ==      \* mutant: the data is read from the freed cell
  /\ pc = "idle"
  /\ head # NULL /\ size # 0
  /\ head' = cell[head].next
  /\ cell' = [n \in Node |->
                CASE n = head  -> NoCell
                  [] n = head' -> [cell[n] EXCEPT !.prev = NULL]
                  [] OTHER     -> cell[n]]
  /\ live' = live \ {head}
  /\ size' = size - 1
  /\ answer' = [op |-> "poll", ret |-> cell'[head].data]
  /\ UNCHANGED << pc, locals >>

Poll ==
  /\ pc = "idle"
  /\ head # NULL /\ size # 0
  /\ head' = cell[head].next
  /\ cell' = [n \in Node |->
                CASE n = head  -> NoCell
                  [] n = head' -> [cell[n] EXCEPT !.prev = NULL]
                  [] OTHER     -> cell[n]]
  /\ live' = live \ {head}
  /\ size' = size - 1
  /\ answer' = [op |-> "poll", ret |-> cell[head].data]
  /\ UNCHANGED << pc, locals >>

CountCall ==
  /\ pc = "idle"
  /\ answer' = [op |-> "size", ret |-> size]
  /\ UNCHANGED << head, size, cell, live, pc, locals >>

DestroyCall ==
  /\ pc = "idle"
  /\ pc' = "destroy"
  /\ curr' = head
  /\ answer' = [op |-> "destroy", ret |-> 0]
  /\ UNCHANGED << head, size, cell, live, ptr, new_node, index >>

\* One iteration frees curr; its next was saved in temp before.
DestroyFree ==
  /\ pc = "destroy" /\ curr # NULL
  /\ live' = live \ {curr}
  /\ cell' = [cell EXCEPT ![curr] = NoCell]
  /\ curr' = cell[curr].next
  /\ UNCHANGED << head, size, pc, ptr, new_node, index, answer >>

DestroyReturn ==
  /\ pc = "destroy" /\ curr = NULL
  /\ pc' = "destroyed"
  /\ UNCHANGED << head, size, cell, live, locals, answer >>

Next ==
  \/ OfferCall \/ OfferBefore \/ OfferAtTail \/ OfferAdvance
  \/ Peek \/ PollEmpty \/ Poll \/ CountCall
  \/ DestroyCall \/ DestroyFree \/ DestroyReturn

Spec == Init /\ [][Next]_vars
-----------------------------------------------------------------------------
\* The addresses met by following `size' next pointers from head.
Chain == LET at[i \in 1..size] == IF i = 1 THEN head ELSE cell[at[i - 1]].next
         IN  [i \in 1..size |-> at[i]]

Contents == [i \in DOMAIN Chain |-> cell[Chain[i]].data]

(* Between two calls the list is well formed: size next pointers lead to   *)
(* size different live cells and then to NULL, prev is the inverse of next *)
(* and no other cell is allocated, so nothing leaks and nothing dangles.   *)
(* In the end priqueue_destroy has freed every cell, each of them once.    *)
WellFormed ==
  /\ pc = "idle" =>
       /\ live = {Chain[i] : i \in 1..size} /\ Cardinality(live) = size
       /\ size = 0 => head = NULL
       /\ \A i \in 1..size :
            /\ cell[Chain[i]].next = IF i = size THEN NULL ELSE Chain[i + 1]
            /\ cell[Chain[i]].prev = IF i = 1 THEN NULL ELSE Chain[i - 1]
  /\ pc = "destroy" /\ curr # NULL => curr \in live
  /\ pc = "destroyed" => live = {}

IsDown == pc \in {"destroy", "destroyed"}
Promise == INSTANCE PriQueueSpec WITH
             contents <- IF IsDown THEN << >> ELSE Contents,
             answer   <- answer
(* The list implements the sequence of PriQueueSpec: a loop iteration is a *)
(* stutter and the step that links or unlinks the cell is the call; and    *)
(* the list is well formed between the calls.                              *)
ImplementsQueue == Promise!Spec /\ []WellFormed
=============================================================================
