CONSTANTS
  NoFile = NoFile
  m1 = m1
  m2 = m2
  Ids <- OneId
  Messages = {m1}
  Recipients = {"codex"}
  Calls = {c1, c2}
  NoId = NoId
  MaxRecords = 1
  MaxCuts = 1
  MaxSent = 2
SPECIFICATION Spec
PROPERTY MissingReplyIsMissing
