CONSTANTS
  num_cores = 2
  JobNumbers = {0, 1, 2, 3}
  Schemes = {"FCFS", "SJF", "PSJF", "PRI", "PPRI", "RR"}
  Kinds <- LongAndShort
  MaxTime = 16
  JobLists <- FourLines
  Quanta = {1, 2}
SPECIFICATION Spec
CHECK_DEADLOCK FALSE
INVARIANT ViewsAgree
INVARIANT StatisticsMatchDiagram
INVARIANT RunsTheBest
INVARIANT QuantumsExpire
INVARIANT DiagramIsSchedule
PROPERTY LibraryUsedLegally
PROPERTY Terminates
