------------------------------ MODULE Programs ------------------------------
(***************************************************************************)
(* The programs whose processes and threads wait for each other: libmap-   *)
(* reduce of mp7, the philosophers of ds9 and the collector of ds10, one   *)
(* of them in each behaviour.  Nothing connects them but the choice at the *)
(* start; each is scheduled as its own module says.                        *)
(***************************************************************************)
EXTENDS MapReduce

CONSTANTS
  phil_count,                                     \* ds9
  Children                                        \* ds10
ASSUME PhilCountAssumption == phil_count \in Nat \ {0}

VARIABLES
  program,                                        \* the one that runs
  state, mon, blockmon, blockstarting, phil_pc,   \* ds9
  pc, turn, readers, ends, data, added, children, eofs, ev, printed, late        \* ds10

ds9 == INSTANCE DiningPhilosophers WITH pc <- phil_pc
ds10 == INSTANCE Collector WITH
          i <- turn, writers <- ends, child <- children, counter <- eofs, n <- Children

dining == << state, mon, blockmon, blockstarting, phil_pc >>
collector == << pc, turn, readers, ends, data, added, children, eofs, ev, printed, late >>
programVars == << program, vars, dining, collector >>

ProgramsInit == /\ program \in {"mp7", "ds9", "ds10"}
                /\ Init /\ ds9!Init /\ ds10!Init

Run(name) == program = name /\ program' = program
MapReduces(A) == Run("mp7") /\ A /\ UNCHANGED << dining, collector >>
Dines(A) == Run("ds9") /\ A /\ UNCHANGED << vars, collector >>
Collects(A) == Run("ds10") /\ A /\ UNCHANGED << vars, dining >>

ProgramsNext == MapReduces(Next) \/ Dines(ds9!Next) \/ Collects(ds10!Next)
ProgramsSpec == ProgramsInit /\ [][ProgramsNext]_programVars

(* The fairness of FairSpec of MapReduce and of DiningPhilosophers and of  *)
(* Spec of Collector, each for the program that runs.                      *)
FairPrograms ==
  /\ ProgramsSpec
  /\ WF_programVars(MapReduces(MapAll)) /\ WF_programVars(MapReduces(StartWorker))
  /\ WF_programVars(MapReduces(mapreduce_reduce_all)) /\ WF_programVars(MapReduces(Work))
  /\ \A t \in Tasks : WF_programVars(MapReduces(Write(t) \/ Exit(t)))
  /\ WF_programVars(Dines(ds9!TakeStatistics))
  /\ \A n \in ds9!Phils : /\ SF_programVars(Dines(ds9!TakesMonitor(n)))
                          /\ SF_programVars(Dines(ds9!TakesBlockmon(n)))
                          /\ WF_programVars(Dines(ds9!LeavesMonitor(n)))
  /\ WF_programVars(Collects(ds10!Main))
  /\ \A p \in ds10!Pipe : WF_programVars(Collects(ds10!Child(p)))
-----------------------------------------------------------------------------
(* mp7: reduce_all returns if no fork fails.                               *)
MapReduceReturns == program = "mp7" => ReduceAllReturns

(* ds9/dphil.c: no fork is held twice.                                     *)
ForksNotShared == ds9!ForksNotShared

(* ds9/dphil.c: whoever waits in pickup has a neighbour that still eats or *)
(* that is inside putdown and about to signal.                             *)
WaiterHasWaker == ds9!WaiterHasWaker

(* ds9/dphil.c: every wait returns, without spurious wake-ups.             *)
EveryWaiterWoken == ds9!EveryWaiterWoken

(* ds9/dphil.c: the monitor implements the table with the forks.           *)
ImplementsTable == ds9!ImplementsTable

(* ds10.c: the collector ends and has printed every child's message, once; *)
(* unless it was told of a pipe that it had closed itself.                 *)
CollectsAll == program = "ds10" => ds10!CollectsAll
=============================================================================
