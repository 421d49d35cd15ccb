SPECIFICATION FairSpec
CONSTANTS
  Targets = {"a", "b", "bad"}
  BadTargets = {"bad"}
  Rooms = {r1}
  Workspaces = {w1, w2}
  NoWorkspace = NoWorkspace
  NoSession = NoSession
  NoContext = NoContext
  MaxSessions = 2
  MaxRequests = 2
  MaxPending = 1
  MaxTerminal = 1
  OfferedCalls <- MCOfferedCalls
  InstallRoots <- MCInstallRoots
  Helper = "safe"
  MaxCalls = 2
  MaxTurns = 1
INVARIANTS TypeOK InstallsWereAllowed RegistryIsOfActiveSessions NotStartedIsTrue NothingOutlivesALaunch
PROPERTIES AcknowledgedDecisionHolds TurnReturns
