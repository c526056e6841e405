--------------------------- MODULE ProgramsProofs ---------------------------
(***************************************************************************)
(* The safety of the dining philosophers, for any number of them, where    *)
(* they are one of the programs; and that of libmapreduce is there what    *)
(* MapReduceProofs proves of it alone.                                     *)
(***************************************************************************)
EXTENDS Programs, TLAPS

\* The neighbours on a ring: one's left neighbour has one to its right.
LEMMA Ring ==
  ASSUME NEW n \in ds9!Phils
  PROVE  /\ ds9!left(n) \in ds9!Phils /\ ds9!right(n) \in ds9!Phils
         /\ ds9!right(ds9!left(n)) = n /\ ds9!left(ds9!right(n)) = n
<1>1. phil_count \in Nat /\ phil_count > 0 /\ n \in Int /\ 0 <= n /\ n < phil_count
  BY PhilCountAssumption DEF ds9!Phils
<1>2. \A x \in Int : x % phil_count \in 0..(phil_count - 1)
  BY <1>1
<1>3. \A x \in Int : 0 <= x /\ x < phil_count => x % phil_count = x
  BY <1>1
<1>4. \A x \in Int : 0 <= x /\ x < phil_count => (x + phil_count) % phil_count = x
  BY <1>1
<1>5. ds9!left(n) = IF n = phil_count - 1 THEN 0 ELSE n + 1
  <2>1. CASE n = phil_count - 1
    <3>1. n + 1 = 0 + phil_count
      BY <1>1, <2>1
    <3> QED BY <1>1, <1>4, <2>1, <3>1 DEF ds9!left
  <2>2. CASE n # phil_count - 1
    BY <1>1, <1>3, <2>2 DEF ds9!left
  <2> QED BY <2>1, <2>2
<1>6. ds9!right(n) = IF n = 0 THEN phil_count - 1 ELSE n - 1
  <2>1. CASE n = 0
    BY <1>1, <1>3, <2>1 DEF ds9!right
  <2>2. CASE n # 0
    <3>1. n + (phil_count - 1) = (n - 1) + phil_count
      BY <1>1
    <3> QED BY <1>1, <1>4, <2>2, <3>1 DEF ds9!right
  <2> QED BY <2>1, <2>2
<1>7. ds9!right(ds9!left(n)) = n
  <2>1. CASE n = phil_count - 1
    BY <1>1, <1>3, <1>5, <2>1 DEF ds9!right
  <2>2. CASE n # phil_count - 1
    <3>1. ds9!left(n) + (phil_count - 1) = n + phil_count
      BY <1>1, <1>5, <2>2
    <3> QED BY <1>1, <1>4, <3>1 DEF ds9!right
  <2> QED BY <2>1, <2>2
<1>8. ds9!left(ds9!right(n)) = n
  <2>1. CASE n = 0
    <3>1. ds9!right(n) + 1 = 0 + phil_count
      BY <1>1, <1>6, <2>1
    <3> QED BY <1>1, <1>4, <2>1, <3>1 DEF ds9!left
  <2>2. CASE n # 0
    BY <1>1, <1>3, <1>6, <2>2 DEF ds9!left
  <2> QED BY <2>1, <2>2
<1> QED BY <1>1, <1>2, <1>5, <1>6, <1>7, <1>8 DEF ds9!Phils
-----------------------------------------------------------------------------
(***************************************************************************)
(* The inductive invariant.  WaiterHasWaker rests on the other parts: an   *)
(* eater stays EATING until it holds the monitor, and while it does nobody *)
(* can test a state and go to wait.                                        *)
(***************************************************************************)
DiningInv == ds9!TypeOK /\ ds9!StateTellsTruth /\ ds9!ForksNotShared /\ ds9!WaiterHasWaker

LEMMA DiningInit == ds9!Init => DiningInv
<1> SUFFICES ASSUME ds9!Init  PROVE DiningInv
  OBVIOUS
<1>1. ds9!Free \notin ds9!Phils
  BY PhilCountAssumption DEF ds9!Free, ds9!Phils
<1>2. \A n \in ds9!Phils : ds9!left(n) \in ds9!Phils
  BY Ring
<1> QED BY <1>1, <1>2 DEF ds9!Init, DiningInv, ds9!TypeOK, ds9!StateTellsTruth, ds9!ForksNotShared, ds9!WaiterHasWaker

LEMMA DiningStep == DiningInv /\ [ds9!Next]_ds9!diningVars => DiningInv'
<1> SUFFICES ASSUME DiningInv, [ds9!Next]_ds9!diningVars  PROVE DiningInv'
  OBVIOUS
<1>1. ds9!Free \notin ds9!Phils /\ ds9!Free # ds9!Main /\ ds9!Main \notin ds9!Phils
  BY PhilCountAssumption DEF ds9!Free, ds9!Phils, ds9!Main
<1>2. \A n \in ds9!Phils : /\ ds9!left(n) \in ds9!Phils /\ ds9!right(n) \in ds9!Phils
                       /\ ds9!right(ds9!left(n)) = n /\ ds9!left(ds9!right(n)) = n
  BY Ring
<1>3. ds9!TypeOK /\ ds9!StateTellsTruth /\ ds9!ForksNotShared /\ ds9!WaiterHasWaker
  BY DEF DiningInv
<1>4. CASE UNCHANGED ds9!diningVars \/ ds9!TakeStatistics
  BY <1>3, <1>4 DEF ds9!diningVars, ds9!TakeStatistics, DiningInv, ds9!TypeOK, ds9!StateTellsTruth,
                    ds9!ForksNotShared, ds9!WaiterHasWaker
<1>5. ASSUME NEW n \in ds9!Phils, ds9!StartBlocking(n)  PROVE DiningInv'
  <2>1. ds9!TypeOK'
    BY <1>1, <1>3, <1>5 DEF ds9!TypeOK, ds9!StartBlocking, ds9!Goto
  <2>2. ds9!StateTellsTruth'
    BY <1>1, <1>3, <1>5 DEF ds9!TypeOK, ds9!StateTellsTruth, ds9!StartBlocking, ds9!Goto
  <2>3. ds9!ForksNotShared'
    BY <1>2, <1>3, <1>5 DEF ds9!TypeOK, ds9!StateTellsTruth, ds9!ForksNotShared, ds9!StartBlocking, ds9!Goto
  <2>4. ds9!WaiterHasWaker'
    BY <1>1, <1>2, <1>3, <1>5 DEF ds9!TypeOK, ds9!StateTellsTruth, ds9!WaiterHasWaker, ds9!StartBlocking, ds9!Goto
  <2> QED BY <2>1, <2>2, <2>3, <2>4 DEF DiningInv
<1>6. ASSUME NEW n \in ds9!Phils, ds9!StopBlocking(n)  PROVE DiningInv'
  <2>1. ds9!TypeOK'
    BY <1>1, <1>3, <1>6 DEF ds9!TypeOK, ds9!StopBlocking, ds9!Goto
  <2>2. ds9!StateTellsTruth'
    BY <1>1, <1>3, <1>6 DEF ds9!TypeOK, ds9!StateTellsTruth, ds9!StopBlocking, ds9!Goto
  <2>3. ds9!ForksNotShared'
    <3>1. \A m \in ds9!Phils : phil_pc'[m] \in {"picked up", "eat"} => phil_pc[m] \in {"picked up", "eat"}
      BY <1>3, <1>6 DEF ds9!TypeOK, ds9!StopBlocking, ds9!Goto
    <3> QED BY <1>2, <1>3, <3>1 DEF ds9!ForksNotShared
  <2>4. ds9!WaiterHasWaker'
    BY <1>1, <1>2, <1>3, <1>6 DEF ds9!TypeOK, ds9!StateTellsTruth, ds9!WaiterHasWaker, ds9!StopBlocking, ds9!Goto
  <2> QED BY <2>1, <2>2, <2>3, <2>4 DEF DiningInv
<1>7. ASSUME NEW n \in ds9!Phils, ds9!LockToPickup(n)  PROVE DiningInv'
  <2>1. ds9!TypeOK'
    BY <1>1, <1>3, <1>7 DEF ds9!TypeOK, ds9!LockToPickup, ds9!Goto
  <2>2. ds9!StateTellsTruth'
    BY <1>1, <1>3, <1>7 DEF ds9!TypeOK, ds9!StateTellsTruth, ds9!LockToPickup, ds9!Goto
  <2>3. ds9!ForksNotShared'
    BY <1>2, <1>3, <1>7 DEF ds9!TypeOK, ds9!StateTellsTruth, ds9!ForksNotShared, ds9!LockToPickup, ds9!Goto
  <2>4. ds9!WaiterHasWaker'
    BY <1>1, <1>2, <1>3, <1>7 DEF ds9!TypeOK, ds9!StateTellsTruth, ds9!WaiterHasWaker, ds9!LockToPickup, ds9!Goto
  <2> QED BY <2>1, <2>2, <2>3, <2>4 DEF DiningInv
<1>8. ASSUME NEW n \in ds9!Phils, ds9!Wait(n)  PROVE DiningInv'
  <2>1. ds9!TypeOK'
    BY <1>1, <1>3, <1>8 DEF ds9!TypeOK, ds9!Wait, ds9!Goto
  <2>2. ds9!StateTellsTruth'
    BY <1>1, <1>3, <1>8 DEF ds9!TypeOK, ds9!StateTellsTruth, ds9!Wait, ds9!Goto
  <2>3. ds9!ForksNotShared'
    <3>1. \A m \in ds9!Phils : phil_pc'[m] \in {"picked up", "eat"} => phil_pc[m] \in {"picked up", "eat"}
      BY <1>3, <1>8 DEF ds9!TypeOK, ds9!Wait, ds9!Goto
    <3> QED BY <1>2, <1>3, <3>1 DEF ds9!ForksNotShared
  <2>4. ds9!WaiterHasWaker'
    BY <1>1, <1>2, <1>3, <1>8, ZenonT(60)
      DEF ds9!TypeOK, ds9!StateTellsTruth, ds9!WaiterHasWaker, ds9!Wait, ds9!Goto, ds9!NeighbourEats
  <2> QED BY <2>1, <2>2, <2>3, <2>4 DEF DiningInv
<1>9. ASSUME NEW n \in ds9!Phils, ds9!WakeSpuriously(n)  PROVE DiningInv'
  <2>1. ds9!TypeOK'
    BY <1>1, <1>3, <1>9 DEF ds9!TypeOK, ds9!WakeSpuriously, ds9!Goto
  <2>2. ds9!StateTellsTruth'
    BY <1>1, <1>3, <1>9 DEF ds9!TypeOK, ds9!StateTellsTruth, ds9!WakeSpuriously, ds9!Goto
  <2>3. ds9!ForksNotShared'
    <3>1. \A m \in ds9!Phils : phil_pc'[m] \in {"picked up", "eat"} => phil_pc[m] \in {"picked up", "eat"}
      BY <1>3, <1>9 DEF ds9!TypeOK, ds9!WakeSpuriously, ds9!Goto
    <3> QED BY <1>2, <1>3, <3>1 DEF ds9!ForksNotShared
  <2>4. ds9!WaiterHasWaker'
    BY <1>1, <1>2, <1>3, <1>9, ZenonT(60) DEF ds9!TypeOK, ds9!StateTellsTruth, ds9!WaiterHasWaker, ds9!WakeSpuriously, ds9!Goto
  <2> QED BY <2>1, <2>2, <2>3, <2>4 DEF DiningInv
<1>10. ASSUME NEW n \in ds9!Phils, ds9!Relock(n)  PROVE DiningInv'
  <2>1. ds9!TypeOK'
    BY <1>1, <1>3, <1>10 DEF ds9!TypeOK, ds9!Relock, ds9!Goto
  <2>2. ds9!StateTellsTruth'
    BY <1>1, <1>3, <1>10 DEF ds9!TypeOK, ds9!StateTellsTruth, ds9!Relock, ds9!Goto
  <2>3. ds9!ForksNotShared'
    BY <1>2, <1>3, <1>10 DEF ds9!TypeOK, ds9!StateTellsTruth, ds9!ForksNotShared, ds9!Relock, ds9!Goto
  <2>4. ds9!WaiterHasWaker'
    BY <1>1, <1>2, <1>3, <1>10 DEF ds9!TypeOK, ds9!StateTellsTruth, ds9!WaiterHasWaker, ds9!Relock, ds9!Goto
  <2> QED BY <2>1, <2>2, <2>3, <2>4 DEF DiningInv
<1>11. ASSUME NEW n \in ds9!Phils, ds9!Pickup(n)  PROVE DiningInv'
  <2>1. ds9!TypeOK'
    BY <1>1, <1>3, <1>11 DEF ds9!TypeOK, ds9!Pickup, ds9!Goto
  <2>2. ds9!StateTellsTruth'
    BY <1>1, <1>3, <1>11 DEF ds9!TypeOK, ds9!StateTellsTruth, ds9!Pickup, ds9!Goto
  <2>3. ds9!ForksNotShared'
    <3> SUFFICES ASSUME NEW m \in ds9!Phils, phil_pc'[m] \in {"picked up", "eat"}, ds9!left(m) # m
                 PROVE  phil_pc'[ds9!left(m)] \notin {"picked up", "eat"}
      BY DEF ds9!ForksNotShared
    <3>1. \A w \in ds9!Phils : phil_pc'[w] = IF w = n THEN "picked up" ELSE phil_pc[w]
      BY <1>3, <1>11 DEF ds9!TypeOK, ds9!Pickup, ds9!Goto
    <3>2. /\ phil_pc[ds9!left(n)] \notin {"picked up", "eat"}
          /\ phil_pc[ds9!right(n)] \notin {"picked up", "eat"}
      BY <1>2, <1>3, <1>11 DEF ds9!Pickup, ds9!NeighbourEats, ds9!StateTellsTruth
    <3>3. CASE m = n
      BY <1>2, <3>1, <3>2, <3>3
    <3>4. CASE m # n /\ ds9!left(m) = n
      <4>1. m = ds9!right(n)
        BY <1>2, <3>4
      <4> QED BY <3>1, <3>2, <3>4, <4>1
    <3>5. CASE m # n /\ ds9!left(m) # n
      BY <1>2, <1>3, <3>1, <3>5 DEF ds9!ForksNotShared
    <3> QED BY <3>3, <3>4, <3>5
  <2>4. ds9!WaiterHasWaker'
    BY <1>1, <1>2, <1>3, <1>11, ZenonT(60)
      DEF ds9!TypeOK, ds9!StateTellsTruth, ds9!WaiterHasWaker, ds9!Pickup, ds9!Goto, ds9!NeighbourEats
  <2> QED BY <2>1, <2>2, <2>3, <2>4 DEF DiningInv
<1>12. ASSUME NEW n \in ds9!Phils, ds9!LockToPutdown(n)  PROVE DiningInv'
  <2>1. ds9!TypeOK'
    BY <1>1, <1>3, <1>12 DEF ds9!TypeOK, ds9!LockToPutdown, ds9!Goto
  <2>2. ds9!StateTellsTruth'
    BY <1>1, <1>3, <1>12 DEF ds9!TypeOK, ds9!StateTellsTruth, ds9!LockToPutdown, ds9!Goto
  <2>3. ds9!ForksNotShared'
    <3>1. \A m \in ds9!Phils : phil_pc'[m] \in {"picked up", "eat"} => phil_pc[m] \in {"picked up", "eat"}
      BY <1>3, <1>12 DEF ds9!TypeOK, ds9!LockToPutdown, ds9!Goto
    <3> QED BY <1>2, <1>3, <3>1 DEF ds9!ForksNotShared
  <2>4. ds9!WaiterHasWaker'
    BY <1>1, <1>2, <1>3, <1>12 DEF ds9!TypeOK, ds9!StateTellsTruth, ds9!WaiterHasWaker, ds9!LockToPutdown, ds9!Goto
  <2> QED BY <2>1, <2>2, <2>3, <2>4 DEF DiningInv
<1>13. ASSUME NEW n \in ds9!Phils, ds9!Putdown(n)  PROVE DiningInv'
  <2>1. ds9!TypeOK'
    BY <1>1, <1>3, <1>13 DEF ds9!TypeOK, ds9!Putdown, ds9!Goto
  <2>2. ds9!StateTellsTruth'
    BY <1>1, <1>3, <1>13 DEF ds9!TypeOK, ds9!StateTellsTruth, ds9!Putdown, ds9!Goto, ds9!Signalled
  <2>3. ds9!ForksNotShared'
    BY <1>2, <1>3, <1>13 DEF ds9!TypeOK, ds9!StateTellsTruth, ds9!ForksNotShared, ds9!Putdown, ds9!Goto, ds9!Signalled
  <2>4. ds9!WaiterHasWaker'
    <3> SUFFICES ASSUME NEW m \in ds9!Phils, phil_pc'[m] = "wait"
                 PROVE  \E w \in {ds9!left(m), ds9!right(m)} : phil_pc'[w] \in {"picked up", "eat", "signal"}
      BY DEF ds9!WaiterHasWaker
    <3>1. m # n /\ m \notin ds9!Signalled(n) /\ phil_pc[m] = "wait" /\ state[m] = "HUNGRY"
      BY <1>3, <1>13 DEF ds9!Putdown, ds9!TypeOK, ds9!StateTellsTruth
    <3>2. PICK w \in {ds9!left(m), ds9!right(m)} : phil_pc[w] \in {"picked up", "eat", "signal"}
      BY <1>3, <3>1 DEF ds9!WaiterHasWaker
    <3>3. w # n
      BY <1>2, <3>1 DEF ds9!Signalled
    <3>4. w \in ds9!Phils /\ w \notin ds9!Signalled(n)
      BY <1>2, <3>2 DEF ds9!Signalled
    <3>5. phil_pc'[w] = phil_pc[w]
      BY <1>13, <3>3, <3>4 DEF ds9!Putdown
    <3> QED BY <3>2, <3>5
  <2> QED BY <2>1, <2>2, <2>3, <2>4 DEF DiningInv
<1> QED
  BY <1>4, <1>5, <1>6, <1>7, <1>8, <1>9, <1>10, <1>11, <1>12, <1>13
  DEF ds9!Next, ds9!TakesMonitor, ds9!TakesBlockmon, ds9!LeavesMonitor

LEMMA Dining == ProgramsInit => ds9!Init
  BY DEF ProgramsInit

LEMMA DiningMoves == [ProgramsNext]_programVars => [ds9!Next]_ds9!diningVars
  BY DEF ProgramsNext, MapReduces, Dines, Collects, programVars, dining, ds9!diningVars

THEOREM DiningInvariant == ProgramsSpec => []DiningInv
  BY DiningInit, DiningStep, Dining, DiningMoves, PTL DEF ProgramsSpec

(* No fork is ever held by two philosophers, for any number of them.       *)
THEOREM ForksAreExclusive == ProgramsSpec => []ForksNotShared
<1>1. DiningInv => ForksNotShared
  BY DEF DiningInv, ForksNotShared
<1> QED BY <1>1, DiningInvariant, PTL

(* Whoever waits in pickup has a neighbour that eats or is about to        *)
(* signal: no wake-up is lost, for any number of philosophers.             *)
THEOREM NoLostWakeUp == ProgramsSpec => []WaiterHasWaker
<1>1. DiningInv => WaiterHasWaker
  BY DEF DiningInv, WaiterHasWaker
<1> QED BY <1>1, DiningInvariant, PTL
-----------------------------------------------------------------------------
\* The eaters at the table, as the monitor's states tell them.
Eaters == {n \in ds9!Phils : state[n] = "EATING"}

LEMMA TableStep == DiningInv /\ [ds9!Next]_ds9!diningVars => [ds9!Table!TableNext]_Eaters
<1> SUFFICES ASSUME DiningInv, [ds9!Next]_ds9!diningVars  PROVE [ds9!Table!TableNext]_Eaters
  OBVIOUS
<1>1. ds9!TypeOK /\ ds9!StateTellsTruth
  BY DEF DiningInv
<1>2. ASSUME state' = state  PROVE [ds9!Table!TableNext]_Eaters
  BY <1>2 DEF Eaters
<1>3. ASSUME NEW n \in ds9!Phils, ds9!LockToPickup(n)  PROVE [ds9!Table!TableNext]_Eaters
  <2>1. state[n] # "EATING" /\ state' = [state EXCEPT ![n] = "HUNGRY"]
    BY <1>1, <1>3 DEF ds9!LockToPickup, ds9!StateTellsTruth
  <2>2. Eaters' = Eaters
    BY <1>1, <2>1 DEF Eaters, ds9!TypeOK
  <2> QED BY <2>2
<1>4. ASSUME NEW n \in ds9!Phils, ds9!Pickup(n)  PROVE ds9!Table!TableNext
  <2>1. ds9!left(n) \notin Eaters /\ ds9!right(n) \notin Eaters
    BY <1>4 DEF ds9!Pickup, ds9!NeighbourEats, Eaters
  <2>2. Eaters' = Eaters \cup {n}
    BY <1>1, <1>4 DEF ds9!Pickup, Eaters, ds9!TypeOK
  <2> QED BY <2>1, <2>2 DEF ds9!Table!TableNext, ds9!Table!Eat, ds9!Table!left, ds9!Table!right, ds9!left, ds9!right,
                            ds9!Table!Phils, ds9!Phils, Eaters
<1>5. ASSUME NEW n \in ds9!Phils, ds9!LockToPutdown(n)  PROVE ds9!Table!TableNext
  <2>1. n \in Eaters
    BY <1>1, <1>5 DEF ds9!LockToPutdown, ds9!StateTellsTruth, Eaters
  <2>2. Eaters' = Eaters \ {n}
    BY <1>1, <1>5 DEF ds9!LockToPutdown, Eaters, ds9!TypeOK
  <2> QED BY <2>1, <2>2 DEF ds9!Table!TableNext, ds9!Table!Rest, ds9!Table!Phils, ds9!Phils, Eaters
<1>6. \/ state' = state
      \/ \E n \in ds9!Phils : ds9!LockToPickup(n) \/ ds9!Pickup(n) \/ ds9!LockToPutdown(n)
  BY DEF ds9!Next, ds9!TakesMonitor, ds9!TakesBlockmon, ds9!LeavesMonitor, ds9!diningVars, ds9!TakeStatistics,
         ds9!StartBlocking, ds9!StopBlocking, ds9!Wait, ds9!WakeSpuriously, ds9!Relock, ds9!Putdown
<1> QED BY <1>2, <1>3, <1>4, <1>5, <1>6

(* The monitor implements the table: eating starts with both forks free    *)
(* and ends by the eater's own putdown.                                    *)
THEOREM MonitorImplementsTable == ProgramsSpec => ImplementsTable
<1>1. ds9!Init => ds9!Table!TableInit
  BY DEF ds9!Init, ds9!Table!TableInit
<1>2. DiningInv /\ [ds9!Next]_ds9!diningVars => [ds9!Table!TableNext]_Eaters
  BY TableStep
<1> QED
  BY <1>1, <1>2, Dining, DiningMoves, DiningInvariant, PTL
  DEF ProgramsSpec, ImplementsTable, ds9!ImplementsTable, ds9!Table!TableSpec, Eaters
-----------------------------------------------------------------------------
(* What libmapreduce does among the programs it does alone, so what        *)
(* MapReduceProofs proves of its Spec holds here.                          *)
THEOREM MapReduceAsAlone == ProgramsSpec => Spec
<1>1. ProgramsInit => Init
  BY DEF ProgramsInit
<1>2. [ProgramsNext]_programVars => [Next]_vars
  BY DEF ProgramsNext, MapReduces, Dines, Collects, programVars
<1> QED BY <1>1, <1>2, PTL DEF ProgramsSpec, Spec
=============================================================================
