CONSTANTS
  NoFile = NoFile
  Ids = {a, b, c}
  MaxRecords = 2
  MaxCuts = 1
SPECIFICATION LedgerSpec
INVARIANT LedgerTypeOK
INVARIANT OwnedIsUndecided
INVARIANT MemoryIsOnDisk
PROPERTY EvidenceMovesForward
