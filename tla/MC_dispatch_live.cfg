CONSTANTS
  NoFile = NoFile
  m1 = m1
  m2 = m2
  Ids <- TwoMessages
  Messages = {m1, m2}
  Recipients = {"codex"}
  Calls = {c1, c2}
  NoId = NoId
  MaxRecords = 2
  MaxCuts = 1
  MaxSent = 2
SPECIFICATION FairSpec
PROPERTY CallsReturn
