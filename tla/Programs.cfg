CONSTANTS
  Lines <- SharedKeys
  PIPE_CAPACITY = 2
  BUFFER_SIZE = 3
  MaxFailures = 1
  phil_count = 4
  Children = 3
SPECIFICATION FairPrograms
INVARIANTS StreamIntact ClosedMeansAllRead ForksNotShared WaiterHasWaker
PROPERTIES ImplementsReduction MapReduceReturns EveryWaiterWoken CollectsAll
CHECK_DEADLOCK FALSE
