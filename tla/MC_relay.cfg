CONSTANTS
  MaxRetries = 2
  Generations = {1, 2, 3, 4}
  RequestIds = {"r1", "r2"}
  MaxRequests = 1
  NoTask = NoTask
SPECIFICATION FairSpec
INVARIANT TypeOK
INVARIANT OneConnection
INVARIANT ServiceFollowsLink
INVARIANT ReadsOnce
INVARIANT ShutdownLeavesNothing
PROPERTY AttemptsEnd
PROPERTY RetriesHappen
PROPERTY CallerReturns
