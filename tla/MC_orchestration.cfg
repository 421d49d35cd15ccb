CONSTANTS
  Ops = {"o1", "o2"}
  NoOp = "none"
  Workers = {"w1", "w2"}
  Others = {"owner"}
  MaxWorkers = 2
  MaxRecords = 1
  MaxTurns = 2
  Plans <- SomePlans
  DispatcherTurns = {"worker"}
  OrchestratorTurns = {"plan", "synthesis"}
SPECIFICATION FairSpec
INVARIANT TypeOK
INVARIANT TurnsOnce
INVARIANT WorkersAreOnRecord
INVARIANT CompletedIsAnswered
INVARIANT PacketIsHonest
PROPERTY CallReturns
PROPERTY FinalIsReported
