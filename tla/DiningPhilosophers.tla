------------------------- MODULE DiningPhilosophers -------------------------
(***************************************************************************)
(* ds9: philosopher threads that call pickup and putdown of dphil.c, a     *)
(* monitor with one condition variable for each philosopher.  `state' is   *)
(* read and written with the mutex mon held, so what a thread does between *)
(* two calls of pthread is one action.  The block times that the driver    *)
(* collects are kept under a mutex of their own, without their durations.  *)
(***************************************************************************)
EXTENDS Integers

CONSTANT phil_count

VARIABLES
  state,          \* the state of each philosopher in global_state
  mon,            \* the thread that holds the monitor, or Free
  blockmon,       \* the same for the mutex of the driver's statistics
  blockstarting,  \* for whom blockstarting # -1
  pc              \* where each philosopher's thread is

diningVars == << state, mon, blockmon, blockstarting, pc >>

Phils == 0..(phil_count - 1)
Main == phil_count      \* the thread that prints the statistics
Free == -1

left(n) == (n + 1) % phil_count
right(n) == (n + (phil_count - 1)) % phil_count

Init ==
  /\ state = [n \in Phils |-> "THINKING"]
  /\ mon = Free /\ blockmon = Free
  /\ blockstarting = {}
  /\ pc = [n \in Phils |-> "think"]

Goto(n, label) == pc' = [pc EXCEPT ![n] = label]
-----------------------------------------------------------------------------
\* The driver, before it calls pickup and after it returns.
StartBlocking(n) ==
  /\ pc[n] = "think"
  /\ blockmon = Free
  /\ blockstarting' = blockstarting \cup {n}
  /\ Goto(n, "pickup")
  /\ UNCHANGED << state, mon, blockmon >>

StopBlocking(n) ==
  /\ pc[n] = "picked up"
  /\ blockmon = Free
  /\ blockstarting' = blockstarting \ {n}
  /\ Goto(n, "eat")
  /\ UNCHANGED << state, mon, blockmon >>

\* main adds up the block times with blockmon held, and prints them.
TakeStatistics ==
  /\ blockmon' = IF blockmon = Free THEN Main ELSE Free
  /\ UNCHANGED << state, mon, blockstarting, pc >>
-----------------------------------------------------------------------------
\* pickup.

LockToPickup(n) ==
  /\ pc[n] = "pickup"
  /\ mon = Free
  /\ mon' = n
  /\ state' = [state EXCEPT ![n] = "HUNGRY"]
  /\ Goto(n, "test")
  /\ UNCHANGED << blockmon, blockstarting >>

LeftNeighbourEats(n) == state[left(n)] = "EATING"      \* mutant
NeighbourEats(n) == state[left(n)] = "EATING" \/ state[right(n)] = "EATING"

WaitHoldingMonitor(n) ==      \* mutant: sleeps with the monitor locked
  /\ pc[n] = "test"
  /\ NeighbourEats(n)
  /\ Goto(n, "wait")
  /\ UNCHANGED << state, mon, blockmon, blockstarting >>

\* The test of the loop: pthread_cond_wait gives the monitor up.
Wait(n) ==
  /\ pc[n] = "test"
  /\ NeighbourEats(n)
  /\ mon' = Free
  /\ Goto(n, "wait")
  /\ UNCHANGED << state, blockmon, blockstarting >>

\* pthread_cond_wait may return without a signal.
WakeSpuriously(n) ==
  /\ pc[n] = "wait"
  /\ Goto(n, "woken")
  /\ UNCHANGED << state, mon, blockmon, blockstarting >>

RelockUntested(n) ==      \* mutant: `if' for `while'
  /\ pc[n] = "woken"
  /\ mon = Free
  /\ state' = [state EXCEPT ![n] = "EATING"]
  /\ Goto(n, "picked up")
  /\ UNCHANGED << mon, blockmon, blockstarting >>

\* It returns with the monitor locked again, and the loop tests once more.
Relock(n) ==
  /\ pc[n] = "woken"
  /\ mon = Free
  /\ mon' = n
  /\ Goto(n, "test")
  /\ UNCHANGED << state, blockmon, blockstarting >>

Pickup(n) ==
  /\ pc[n] = "test"
  /\ ~ NeighbourEats(n)
  /\ state' = [state EXCEPT ![n] = "EATING"]
  /\ mon' = Free
  /\ Goto(n, "picked up")
  /\ UNCHANGED << blockmon, blockstarting >>
-----------------------------------------------------------------------------
\* putdown.

LockToPutdown(n) ==
  /\ pc[n] = "eat"
  /\ mon = Free
  /\ mon' = n
  /\ state' = [state EXCEPT ![n] = "THINKING"]
  /\ Goto(n, "signal")
  /\ UNCHANGED << blockmon, blockstarting >>

SignalledLeft(n) ==      \* mutant: the right neighbour is forgotten
  {m \in {left(n)} : state[m] = "HUNGRY" /\ pc[m] = "wait"}
\* Only philosopher m ever waits for cv[m], so a signal wakes m or nobody.
Signalled(n) == {m \in {left(n), right(n)} : state[m] = "HUNGRY" /\ pc[m] = "wait"}

Putdown(n) ==
  /\ pc[n] = "signal"
  /\ pc' = [m \in Phils |-> CASE m = n             -> "think"
                              [] m \in Signalled(n) -> "woken"
                              [] OTHER              -> pc[m]]
  /\ mon' = Free
  /\ UNCHANGED << state, blockmon, blockstarting >>
-----------------------------------------------------------------------------
TakesMonitor(n) == LockToPickup(n) \/ Relock(n) \/ LockToPutdown(n)
TakesBlockmon(n) == StartBlocking(n) \/ StopBlocking(n)
LeavesMonitor(n) == Wait(n) \/ Pickup(n) \/ Putdown(n)

Next ==
  \/ TakeStatistics
  \/ \E n \in Phils : \/ TakesMonitor(n) \/ TakesBlockmon(n) \/ LeavesMonitor(n)
                      \/ WakeSpuriously(n)

Spec == Init /\ [][Next]_diningVars

(***************************************************************************)
(* Every thread goes on, and gets a mutex that is free again and again:    *)
(* whoever has left the monitor sleeps a second before it comes back, and  *)
(* main ten between two reports.  No thread may count on a wake-up without *)
(* a signal.                                                               *)
(***************************************************************************)
Fairness ==
  /\ WF_diningVars(TakeStatistics)
  /\ \A n \in Phils : /\ SF_diningVars(TakesMonitor(n))
                      /\ SF_diningVars(TakesBlockmon(n))
                      /\ WF_diningVars(LeavesMonitor(n))
FairSpec == Spec /\ Fairness
-----------------------------------------------------------------------------
TypeOK ==
  /\ state \in [Phils -> {"THINKING", "HUNGRY", "EATING"}]
  /\ mon \in Phils \cup {Free}
  /\ blockmon \in {Main, Free}
  /\ blockstarting \subseteq Phils
  /\ pc \in [Phils -> {"think", "pickup", "test", "wait", "woken", "picked up",
                       "eat", "signal"}]

(* What a philosopher's neighbours read in `state' is what its thread      *)
(* does: it is EATING from the moment it is let out of pickup until it has *)
(* the monitor in putdown, and HUNGRY while it wants to eat.               *)
StateTellsTruth ==
  \A n \in Phils :
    /\ state[n] = "EATING" <=> pc[n] \in {"picked up", "eat"}
    /\ state[n] = "HUNGRY" <=> pc[n] \in {"test", "wait", "woken"}
    /\ mon = n <=> pc[n] \in {"test", "signal"}

(* A fork is never held twice: "a philosopher can only eat when he has     *)
(* both his left and right forks".                                         *)
ForksNotShared ==
  \A n \in Phils : pc[n] \in {"picked up", "eat"} /\ left(n) # n =>
                     pc[left(n)] \notin {"picked up", "eat"}

(* No lost wake-up: whoever waits has a neighbour that still eats or that  *)
(* is inside putdown and about to signal.                                  *)
WaiterHasWaker ==
  \A n \in Phils : pc[n] = "wait" =>
    \E m \in {left(n), right(n)} : pc[m] \in {"picked up", "eat", "signal"}

(* So every call of pthread_cond_wait returns, without spurious wake-ups.  *)
EveryWaiterWoken == \A n \in Phils : pc[n] = "wait" ~> pc[n] # "wait"

(* Eating is done as at the table: a philosopher starts when both forks    *)
(* lie there and nobody takes one from an eater.                           *)
Table == INSTANCE DiningTable WITH eating <- {n \in Phils : state[n] = "EATING"}
ImplementsTable == Table!TableSpec
=============================================================================
