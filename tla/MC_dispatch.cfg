CONSTANTS
  NoFile = NoFile
  m1 = m1
  m2 = m2
  Ids <- ThreeDispatches
  Messages = {m1, m2}
  Recipients = {"codex", "claude"}
  Calls = {c1, c2}
  NoId = NoId
  MaxRecords = 3
  MaxCuts = 1
  MaxSent = 2
SYMMETRY CallSymmetry
SPECIFICATION Spec
INVARIANT TypeOK
INVARIANT AtMostOneTurn
INVARIANT TurnIsOnRecord
INVARIANT NoTurnForgotten
INVARIANT FailureIsConfirmed
INVARIANT CallOwnsRecord
INVARIANT OwnershipIsLive
