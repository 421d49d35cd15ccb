CONSTANTS
  NoFile = NoFile
  Empty = e
  Values = {e, v1, v2, v3}
  KeepLast = TRUE
  MaxCuts = 3
SPECIFICATION Spec
INVARIANT TypeOK
INVARIANT MemoryIsDurable
PROPERTY ImplementsCell
