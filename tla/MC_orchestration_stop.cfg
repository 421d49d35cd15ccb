CONSTANTS
  Ops = {"o1"}
  NoOp = "none"
  Workers = {"w1"}
  Others = {"owner"}
  MaxWorkers = 1
  MaxRecords = 1
  MaxTurns = 2
  Plans <- OnePlan
  DispatcherTurns = {"worker"}
  OrchestratorTurns = {"plan", "synthesis"}
SPECIFICATION Spec
PROPERTY StopReachesATurn
