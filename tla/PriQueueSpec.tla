---------------------------- MODULE PriQueueSpec ----------------------------
(***************************************************************************)
(* The promise of libpriqueue to its client: a sequence of data pointers,  *)
(* changed by one atomic step per call.                                    *)
(***************************************************************************)
EXTENDS PriQueue

CONSTANTS
  Value,        \* the data pointers a client may offer
  NULL,         \* the NULL pointer
  MaxLen,       \* bound: a client offers only to a shorter queue
  comp(_, _)    \* the comparison function given to priqueue_init

VARIABLES
  contents,     \* the queued data pointers, head first
  answer        \* the last call and what it returned

specVars == << contents, answer >>

Stops(q, x) == {i \in DOMAIN q : comp(x, q[i]) <= 0}

SpecInit == contents = << >> /\ answer = [op |-> "init", ret |-> 0]

\* The index that priqueue_offer returns is left open: its comment promises
\* the position of the element, and the code answers one less for an element
\* that it appends to others.  No caller looks at it.
SpecOffer == \E x \in Value :
  /\ Len(contents) < MaxLen
  /\ contents' = priqueue_offer(contents, x, Stops(contents, x))
  /\ \E i \in 0..Len(contents) : answer' = [op |-> "offer", ret |-> i]

SpecPoll ==
  /\ contents' = priqueue_poll(contents)
  /\ answer' = [op |-> "poll", ret |-> priqueue_peek(contents, NULL)]

SpecPeek ==
  /\ answer' = [op |-> "peek", ret |-> priqueue_peek(contents, NULL)]
  /\ UNCHANGED contents

SpecSize ==
  /\ answer' = [op |-> "size", ret |-> Len(contents)]
  /\ UNCHANGED contents

\* After priqueue_destroy the queue must not be used again.
SpecDestroy ==
  /\ answer' = [op |-> "destroy", ret |-> 0]
  /\ contents' = << >>

SpecNext ==
  /\ answer.op # "destroy"
  /\ SpecOffer \/ SpecPoll \/ SpecPeek \/ SpecSize \/ SpecDestroy

Spec == SpecInit /\ [][SpecNext]_specVars
=============================================================================
