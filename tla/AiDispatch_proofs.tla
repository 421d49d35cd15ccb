-------------------------- MODULE AiDispatch_proofs --------------------------
(***************************************************************************)
(* Theorems about the dispatch ledger for every set of dispatches, every     *)
(* capacity and every caller, and about the dispatcher for any number of      *)
(* messages, recipients and concurrent calls.  The dispatcher uses its ledger *)
(* only through the operations of AiDispatchLedger, so the theorems about the *)
(* ledger hold of the dispatcher too, and with them that no external turn is  *)
(* sent twice.                                                              *)
(*                                                                         *)
(* Two bounds are assumed where they are needed: MaxCuts <= 1, no two         *)
(* consecutive file replacements leave no primary behind, and RoomForAll, the *)
(* ledger never has to prune.  MC_dispatch_two_cuts.cfg breaks the first.     *)
(***************************************************************************)
EXTENDS AiDispatch, FiniteSetTheorems, TLAPS

-----------------------------------------------------------------------------
(* The file pair.                                                           *)

\* A successful replacement leaves exactly the new records to be loaded.
LEMMA ReplacedLoads ==
  ASSUME NEW pair \in FilePairs(Images), NEW image \in Images
  PROVE  /\ Replaced(KeepLast, pair, image) \in FilePairs(Images)
         /\ Replaced(KeepLast, pair, image).primary = image
         /\ image # NoFile
         /\ Recovered(Replaced(KeepLast, pair, image)) = image
<1>1. image # NoFile
  BY NoFileIsNoImage DEF Images, RecordStates
<1>2. /\ Replaced(KeepLast, pair, image) \in FilePairs(Images)
      /\ Replaced(KeepLast, pair, image).primary = image
  BY DEF FilePairs, Replaced, Install, Ready, MoveAside, RemoveBackup
<1>. QED
  BY <1>1, <1>2 DEF Recovered, Loaded

\* What a failing or dying replacement can leave is a pair of ledger files.
LEMMA OutcomeTypes ==
  ASSUME NEW pair \in FilePairs(Images), NEW image \in Images
  PROVE  /\ Refused(KeepLast, pair) \subseteq FilePairs(Images)
         /\ Cut(KeepLast, pair, image) \subseteq FilePairs(Images)
<1>1. RemoveBackup(KeepLast, pair) \in FilePairs(Images)
  BY DEF FilePairs, RemoveBackup
<1>2. Ready(KeepLast, pair) \in FilePairs(Images)
  BY DEF FilePairs, Ready, MoveAside, RemoveBackup
<1>3. PutBack(Ready(KeepLast, pair)) \in FilePairs(Images)
  BY <1>2 DEF FilePairs, PutBack
<1>4. Replaced(KeepLast, pair, image) \in FilePairs(Images)
  BY ReplacedLoads
<1>. QED
  BY <1>1, <1>2, <1>3, <1>4 DEF Refused, Cut

\* The records loaded from any pair are a map of records.
LEMMA RecoveredType ==
  ASSUME NEW pair \in FilePairs(Images)
  PROVE  Recovered(pair) \in Images
BY DEF FilePairs, Recovered, Loaded, NoRecords, Images

\* Pruning only removes terminal records, and only from a full ledger.
LEMMA PrunedRecords ==
  ASSUME NEW recs \in Images, NEW pruned \in Pruned(recs)
  PROVE  /\ pruned \in Images
         /\ \A id \in Ids :
              \/ pruned[id] = recs[id]
              \/ pruned[id] = "Absent" /\ recs[id] \in Terminal /\ Full(recs)
BY DEF Pruned, Images, Terminal

-----------------------------------------------------------------------------
(* Type correctness.                                                        *)

\* Leaving a pair of ledger files keeps the disk well typed and the cuts
\* within their bound.
LEMMA LeaveFilesType ==
  ASSUME cuts \in 0..MaxCuts, NEW pair \in FilePairs(Images), LeaveFiles(pair)
  PROVE  disk' \in FilePairs(Images) /\ cuts' \in 0..MaxCuts
<1>1. disk' \in FilePairs(Images) /\ cuts' <= MaxCuts
  BY DEF LeaveFiles
<1>2. cuts' \in Nat
  BY LedgerConstants DEF LeaveFiles
<1>. QED
  BY <1>1, <1>2, LedgerConstants

\* Every operation of the ledger, and every crash in one, keeps the types.
LEMMA TypeStep ==
  ASSUME LedgerTypeOK, LedgerNext
  PROVE  LedgerTypeOK'
<1>. USE DEF LedgerTypeOK
<1>1. ASSUME NEW next \in Images, PersistOk(next)
      PROVE  disk' \in FilePairs(Images) /\ cuts' \in 0..MaxCuts
  BY <1>1, ReplacedLoads, LeaveFilesType DEF PersistOk
<1>2. ASSUME PersistFails
      PROVE  disk' \in FilePairs(Images) /\ cuts' \in 0..MaxCuts
  <2>1. PICK pair \in Refused(KeepLast, disk) : LeaveFiles(pair)
    BY <1>2 DEF PersistFails
  <2>2. NoRecords \in Images
    BY DEF NoRecords, Images
  <2>3. pair \in FilePairs(Images)
    BY <2>1, <2>2, OutcomeTypes
  <2>. QED
    BY <2>1, <2>3, LeaveFilesType
<1>3. ASSUME NEW pair \in FilePairs(Images), RestartFrom(pair)
      PROVE  LedgerTypeOK'
  BY <1>3, LeaveFilesType, RecoveredType DEF RestartFrom
<1>4. CASE Crash
  BY <1>3, <1>4 DEF Crash
<1>5. ASSUME NEW id \in Ids, LedgerOperation(id)
      PROVE  LedgerTypeOK'
  <2>1. CASE Reserve(id)
    <3>1. PICK pruned \in Pruned(records) :
            records' = [pruned EXCEPT ![id] = "Prepared"]
      BY <2>1 DEF Reserve
    <3>2. records' \in Images
      BY <3>1, PrunedRecords DEF Images, RecordStates
    <3>. QED
      BY <2>1, <3>2, <1>1 DEF Reserve
  <2>2. CASE ReserveFails(id)
    <3>1. PICK pruned \in Pruned(records) :
            /\ records' = pruned
            /\ IF Full(pruned) THEN UNCHANGED <<disk, cuts>> ELSE PersistFails
      BY <2>2 DEF ReserveFails
    <3>2. records' \in Images
      BY <3>1, PrunedRecords
    <3>. QED
      BY <2>2, <3>1, <3>2, <1>2 DEF ReserveFails
  <2>3. ASSUME NEW from, NEW to \in RecordStates, NEW finish \in BOOLEAN,
               Transition(id, from, to, finish)
        PROVE  LedgerTypeOK'
    <3>1. records' \in Images
      BY <2>3 DEF Transition, Images
    <3>2. active' \subseteq Ids
      BY <2>3 DEF Transition
    <3>. QED
      BY <2>3, <3>1, <3>2, <1>1 DEF Transition
  <2>4. CASE MarkExternalStarted(id)
    BY <2>3, <2>4 DEF MarkExternalStarted, RecordStates
  <2>5. CASE MarkFailed(id)
    BY <2>3, <2>5 DEF MarkFailed, RecordStates
  <2>6. CASE MarkExternalPreflightFailed(id)
    BY <2>3, <2>6 DEF MarkExternalPreflightFailed, RecordStates
  <2>7. CASE MarkCompleted(id)
    BY <2>3, <2>7 DEF MarkCompleted, RecordStates
  <2>8. ASSUME NEW from, TransitionFails(id, from)
        PROVE  LedgerTypeOK'
    BY <2>8, <1>2 DEF TransitionFails
  <2>9. ASSUME NEW from, GiveUp(id, from)
         PROVE  LedgerTypeOK'
    BY <2>9, <1>2 DEF GiveUp
  <2>10. CASE FinishUnknown(id)
    BY <2>10 DEF FinishUnknown
  <2>11. ASSUME NEW to \in RecordStates, CrashInTransition(id, to)
         PROVE  LedgerTypeOK'
    <3>1. [records EXCEPT ![id] = to] \in Images
      BY DEF Images
    <3>2. PICK pair \in Cut(KeepLast, disk, [records EXCEPT ![id] = to]) :
            RestartFrom(pair)
      BY <2>11 DEF CrashInTransition
    <3>. QED
      BY <3>1, <3>2, <1>3, OutcomeTypes
  <2>12. CASE CrashInReserve(id)
    <3>1. PICK pruned \in Pruned(records) :
            \E pair \in Cut(KeepLast, disk, [pruned EXCEPT ![id] = "Prepared"]) :
              RestartFrom(pair)
      BY <2>12 DEF CrashInReserve
    <3>2. [pruned EXCEPT ![id] = "Prepared"] \in Images
      BY <3>1, PrunedRecords DEF Images, RecordStates
    <3>. QED
      BY <3>1, <3>2, <1>3, OutcomeTypes
  <2>. QED
    BY <1>5, <2>1, <2>2, <2>4, <2>5, <2>6, <2>7, <2>8, <2>9, <2>10, <2>11, <2>12
    DEF LedgerOperation
<1>. QED
  BY <1>4, <1>5 DEF LedgerNext

\* Init of the ledger is well typed.
LEMMA TypeInit == LedgerInit => LedgerTypeOK
<1>1. NoRecords \in Images /\ NoFiles \in FilePairs(Images)
  BY DEF NoRecords, Images, NoFiles, FilePairs
<1>. QED
  BY <1>1, LedgerConstants DEF LedgerInit, LedgerTypeOK

\* The ledger's state keeps its types: record maps, files that hold whole record
\* maps, and owned dispatches among the known IDs.
THEOREM LedgerTypeCorrect == LedgerSpec => []LedgerTypeOK
<1>1. LedgerTypeOK /\ [LedgerNext]_ledgerVars => LedgerTypeOK'
  <2>1. ASSUME LedgerTypeOK, UNCHANGED ledgerVars
        PROVE  LedgerTypeOK'
    BY <2>1 DEF LedgerTypeOK, ledgerVars
  <2>. QED
    BY <2>1, TypeStep
<1>. QED
  BY <1>1, TypeInit, PTL DEF LedgerSpec

-----------------------------------------------------------------------------
(* Ownership.                                                               *)

\* An operation on one dispatch keeps every owned record undecided: only a
\* transition that finishes ends a record, and pruning takes terminal ones.
LEMMA OwnedStep ==
  ASSUME LedgerTypeOK, OwnedIsUndecided, LedgerNext
  PROVE  OwnedIsUndecided'
<1>. USE DEF LedgerTypeOK, OwnedIsUndecided
<1>1. ASSUME NEW pair, RestartFrom(pair)
      PROVE  OwnedIsUndecided'
  BY <1>1 DEF RestartFrom
<1>2. CASE Crash
  BY <1>1, <1>2 DEF Crash
<1>3. ASSUME NEW id \in Ids, LedgerOperation(id)
      PROVE  OwnedIsUndecided'
  <2>0. ASSUME NEW pruned \in Pruned(records), NEW other \in active
        PROVE  pruned[other] = records[other]
    <3>1. records[other] \notin Terminal
      BY DEF Terminal
    <3>. QED
      BY <3>1, PrunedRecords
  <2>1. CASE Reserve(id)
    <3>1. PICK pruned \in Pruned(records) :
            records' = [pruned EXCEPT ![id] = "Prepared"]
      BY <2>1 DEF Reserve
    <3>2. pruned \in Images
      BY <3>1, PrunedRecords
    <3>. QED
      BY <2>1, <3>1, <3>2, <2>0 DEF Reserve, Images
  <2>2. CASE ReserveFails(id)
    <3>1. PICK pruned \in Pruned(records) : records' = pruned
      BY <2>2 DEF ReserveFails
    <3>. QED
      BY <2>2, <3>1, <2>0 DEF ReserveFails
  <2>3. CASE MarkExternalStarted(id)
    BY <2>3 DEF MarkExternalStarted, Transition, Images
  <2>4. CASE MarkFailed(id)
    BY <2>4 DEF MarkFailed, Transition, Images
  <2>5. CASE MarkExternalPreflightFailed(id)
    BY <2>5 DEF MarkExternalPreflightFailed, Transition, Images
  <2>6. CASE MarkCompleted(id)
    BY <2>6 DEF MarkCompleted, Transition, Images
  <2>7. ASSUME NEW from, TransitionFails(id, from)
        PROVE  OwnedIsUndecided'
    BY <2>7 DEF TransitionFails
  <2>8. ASSUME NEW from, GiveUp(id, from)
         PROVE  OwnedIsUndecided'
    BY <2>8 DEF GiveUp
  <2>9. CASE FinishUnknown(id)
    BY <2>9 DEF FinishUnknown
  <2>10. ASSUME NEW to, CrashInTransition(id, to)
        PROVE  OwnedIsUndecided'
    BY <2>10, <1>1 DEF CrashInTransition
  <2>11. CASE CrashInReserve(id)
    BY <2>11, <1>1 DEF CrashInReserve
  <2>. QED
    BY <1>3, <2>1, <2>2, <2>3, <2>4, <2>5, <2>6, <2>7, <2>8, <2>9, <2>10, <2>11
    DEF LedgerOperation
<1>. QED
  BY <1>2, <1>3 DEF LedgerNext

\* No call ever owns a record that has already ended.
THEOREM OwnedUndecided == LedgerSpec => []OwnedIsUndecided
<1>1. LedgerInit => OwnedIsUndecided
  BY DEF LedgerInit, OwnedIsUndecided
<1>2. LedgerTypeOK /\ OwnedIsUndecided /\ [LedgerNext]_ledgerVars
        => OwnedIsUndecided'
  <2>1. ASSUME OwnedIsUndecided, UNCHANGED ledgerVars
        PROVE  OwnedIsUndecided'
    BY <2>1 DEF OwnedIsUndecided, ledgerVars
  <2>. QED
    BY <2>1, OwnedStep
<1>. QED
  BY <1>1, <1>2, LedgerTypeCorrect, PTL DEF LedgerSpec

-----------------------------------------------------------------------------
(* Durability, when no two consecutive replacements leave no primary.       *)

DiskInv == LoneBackupIsCounted /\ MemoryIsOnDisk

\* A replacement that succeeds makes the new records the ones a restart loads
\* and starts the count of cuts anew.
LEMMA ReplacedKeeps ==
  ASSUME LedgerTypeOK, NEW next \in Images,
         LeaveFiles(Replaced(KeepLast, disk, next))
  PROVE  Recovered(disk') = next /\ LoneBackupIsCounted'
<1>1. disk' = Replaced(KeepLast, disk, next)
  BY DEF LeaveFiles
<1>2. disk'.primary = next /\ next # NoFile /\ Recovered(disk') = next
  BY <1>1, ReplacedLoads DEF LedgerTypeOK
<1>3. cuts' = 0
  BY <1>1, <1>2 DEF LeaveFiles, IsInterrupted
<1>. QED
  BY <1>2, <1>3 DEF LoneBackupIsCounted

\* A replacement that stops before its last rename leaves the records a restart
\* would have loaded before: they are in the primary, in the backup, or put back.
LEMMA StoppedKeeps ==
  ASSUME MaxCuts <= 1, LedgerTypeOK, LoneBackupIsCounted,
         NEW pair \in {disk, RemoveBackup(KeepLast, disk), Ready(KeepLast, disk),
                       PutBack(Ready(KeepLast, disk))},
         LeaveFiles(pair)
  PROVE  Recovered(disk') = Recovered(disk) /\ LoneBackupIsCounted'
<1>. DEFINE shape == disk = [primary |-> disk.primary, backup |-> disk.backup]
<1>0. shape /\ disk' = pair /\ cuts \in Nat /\ MaxCuts \in Nat
  BY LedgerConstants DEF LedgerTypeOK, FilePairs, LeaveFiles
<1>1. CASE disk.primary # NoFile
  <2>1. \/ pair = disk
        \/ pair = [primary |-> disk.primary, backup |-> NoFile]
        \/ pair = [primary |-> NoFile, backup |-> disk.primary]
    BY <1>0, <1>1 DEF RemoveBackup, Ready, MoveAside, PutBack
  <2>2. Recovered(pair) = Recovered(disk)
    BY <1>1, <2>1 DEF Recovered, Loaded
  <2>3. CASE pair.primary # NoFile
    BY <1>0, <2>2, <2>3 DEF LeaveFiles, IsInterrupted, LoneBackupIsCounted
  <2>4. CASE pair.primary = NoFile
    <3>1. pair # disk
      BY <1>1, <2>4
    <3>2. cuts' = cuts + 1
      BY <2>4, <3>1 DEF LeaveFiles, IsInterrupted
    <3>. QED
      BY <1>0, <2>2, <2>4, <3>2 DEF LoneBackupIsCounted
  <2>. QED
    BY <2>3, <2>4
<1>2. CASE disk.primary = NoFile /\ disk.backup # NoFile
  <2>1. cuts = 1
    BY <1>2, LedgerConstants DEF LoneBackupIsCounted, LedgerTypeOK
  <2>2. pair = disk \/ pair = [primary |-> NoFile, backup |-> NoFile]
    BY <1>0, <1>2 DEF RemoveBackup, Ready, MoveAside, PutBack, KeepLast
  <2>3. pair = disk
    <3>1. SUFFICES ASSUME pair # disk PROVE FALSE
      OBVIOUS
    <3>2. pair.primary = NoFile
      BY <2>2, <3>1
    <3>3. cuts' = cuts + 1 /\ cuts' <= MaxCuts
      BY <3>1, <3>2 DEF LeaveFiles, IsInterrupted
    <3>. QED
      BY <1>0, <2>1, <3>3
  <2>4. cuts' = cuts
    BY <1>2, <2>3 DEF LeaveFiles, IsInterrupted
  <2>. QED
    BY <1>0, <2>3, <2>4 DEF LoneBackupIsCounted
<1>3. CASE disk.primary = NoFile /\ disk.backup = NoFile
  <2>1. pair = disk
    BY <1>0, <1>3 DEF RemoveBackup, Ready, MoveAside, PutBack, KeepLast
  <2>. QED
    BY <1>0, <1>3, <2>1 DEF LoneBackupIsCounted
<1>. QED
  BY <1>1, <1>2, <1>3

\* A restart in the middle of a replacement finds the old or the new records.
LEMMA CutKeeps ==
  ASSUME MaxCuts <= 1, LedgerTypeOK, LoneBackupIsCounted, NEW next \in Images,
         NEW pair \in Cut(KeepLast, disk, next), LeaveFiles(pair)
  PROVE  /\ Recovered(disk') = Recovered(disk) \/ Recovered(disk') = next
         /\ LoneBackupIsCounted'
BY ReplacedKeeps, StoppedKeeps DEF Cut

\* A failed replacement changes nothing a restart would load.
LEMMA RefusedKeeps ==
  ASSUME MaxCuts <= 1, LedgerTypeOK, LoneBackupIsCounted, PersistFails
  PROVE  Recovered(disk') = Recovered(disk) /\ LoneBackupIsCounted'
<1>1. PICK pair \in Refused(KeepLast, disk) : LeaveFiles(pair)
  BY DEF PersistFails
<1>. QED
  BY <1>1, StoppedKeeps DEF Refused

\* The records in memory and the ones a restart would load agree up to records
\* pruned in memory, and every step moves the latter forward.
Forward ==
  \A id \in Ids :
    \/ Rank(Recovered(disk)[id]) <= Rank(Recovered(disk')[id])
    \/ /\ Recovered(disk)[id] \in Terminal
       /\ \/ Recovered(disk')[id] = "Absent" /\ Crowded(records)
          \/ records[id] = "Absent"

\* Ranks are natural numbers, so an unchanged record has not moved back.
LEMMA RankType == \A state : Rank(state) \in 0..3
BY DEF Rank

\* The transitions of the ledger raise the rank.
LEMMA RankOrder ==
  /\ Rank("Absent") < Rank("Prepared")
  /\ Rank("Prepared") < Rank("ExternalStarted")
  /\ Rank("Prepared") < Rank("Failed")
  /\ Rank("ExternalStarted") < Rank("Completed")
  /\ Rank("ExternalStarted") < Rank("Failed")
<1>1. Rank("Absent") = 0 /\ Rank("Prepared") = 1 /\ Rank("ExternalStarted") = 2
  BY DEF Rank
<1>2. Rank("Completed") = 3 /\ Rank("Failed") = 3
  BY DEF Rank
<1>. QED
  BY <1>1, <1>2

\* What a ledger operation writes never takes the recovered records back.
LEMMA WriteMovesForward ==
  ASSUME LedgerTypeOK, MemoryIsOnDisk, NEW id \in Ids, NEW pruned \in Images,
         NEW to,
         \A j \in Ids : \/ pruned[j] = records[j]
                        \/ /\ pruned[j] = "Absent" /\ records[j] \in Terminal
                           /\ Crowded(records),
         Rank(records[id]) < Rank(to),
         Recovered(disk') = [pruned EXCEPT ![id] = to]
  PROVE  Forward
<1>. SUFFICES ASSUME NEW j \in Ids
              PROVE  \/ Rank(Recovered(disk)[j]) <= Rank(Recovered(disk')[j])
                     \/ /\ Recovered(disk)[j] \in Terminal
                        /\ \/ Recovered(disk')[j] = "Absent" /\ Crowded(records)
                           \/ records[j] = "Absent"
  BY DEF Forward
<1>1. CASE records[j] = "Absent" /\ Recovered(disk)[j] \in Terminal
  BY <1>1
<1>2. CASE Recovered(disk)[j] = records[j]
  <2>1. CASE j = id
    <3>1. Recovered(disk')[j] = to
      BY <2>1 DEF Images
    <3>. QED
      BY <1>2, <2>1, <3>1, RankType
  <2>2. CASE j # id
    <3>1. Recovered(disk')[j] = pruned[j]
      BY <2>2 DEF Images
    <3>2. CASE pruned[j] = records[j]
      BY <1>2, <3>1, <3>2, RankType
    <3>3. CASE pruned[j] = "Absent" /\ records[j] \in Terminal /\ Crowded(records)
      BY <1>2, <3>1, <3>3
    <3>. QED
      BY <3>2, <3>3
  <2>. QED
    BY <2>1, <2>2
<1>. QED
  BY <1>1, <1>2 DEF MemoryIsOnDisk

\* Nothing to load changed: nothing moved back.
LEMMA SameMovesForward ==
  ASSUME Recovered(disk') = Recovered(disk)
  PROVE  Forward
BY RankType DEF Forward

\* Every step of the ledger keeps the disk invariant and moves what a restart
\* would find forward.
LEMMA DiskStep ==
  ASSUME MaxCuts <= 1, LedgerTypeOK, DiskInv, LedgerNext
  PROVE  DiskInv' /\ Forward
<1>. USE DEF LedgerTypeOK, DiskInv
<1>1. ASSUME NEW pair \in FilePairs(Images), RestartFrom(pair)
      PROVE  MemoryIsOnDisk'
  BY <1>1 DEF RestartFrom, LeaveFiles, MemoryIsOnDisk
<1>2. CASE Crash
  <2>1. RestartFrom(disk) /\ LeaveFiles(disk)
    BY <1>2 DEF Crash, RestartFrom
  <2>2. Recovered(disk') = Recovered(disk) /\ LoneBackupIsCounted'
    BY <2>1, StoppedKeeps
  <2>. QED
    BY <1>1, <2>1, <2>2, SameMovesForward
<1>3. ASSUME NEW id \in Ids, LedgerOperation(id)
      PROVE  DiskInv' /\ Forward
  <2>1. CASE Reserve(id)
    <3>1. PICK pruned \in Pruned(records) :
            records' = [pruned EXCEPT ![id] = "Prepared"]
      BY <2>1 DEF Reserve
    <3>2. records' \in Images /\ pruned \in Images
      BY <3>1, PrunedRecords DEF Images, RecordStates
    <3>3. Recovered(disk') = records' /\ LoneBackupIsCounted'
      BY <2>1, <3>2, ReplacedKeeps DEF Reserve, PersistOk
    <3>4. Rank(records[id]) < Rank("Prepared")
      BY <2>1, RankOrder DEF Reserve, IsNew
    <3>5. /\ Recovered(disk') = [pruned EXCEPT ![id] = "Prepared"]
          /\ \A j \in Ids : \/ pruned[j] = records[j]
                            \/ /\ pruned[j] = "Absent" /\ records[j] \in Terminal
                               /\ Crowded(records)
      BY <2>1, <3>1, <3>3, PrunedRecords DEF Crowded, Reserve, IsNew
    <3>6. Forward
      BY <3>2, <3>4, <3>5, WriteMovesForward
    <3>. QED
      BY <3>3, <3>6 DEF MemoryIsOnDisk
  <2>2. CASE ReserveFails(id)
    <3>1. PICK pruned \in Pruned(records) :
            /\ records' = pruned
            /\ IF Full(pruned) THEN UNCHANGED <<disk, cuts>> ELSE PersistFails
      BY <2>2 DEF ReserveFails
    <3>2. Recovered(disk') = Recovered(disk) /\ LoneBackupIsCounted'
      BY <3>1, RefusedKeeps DEF LoneBackupIsCounted
    <3>3. MemoryIsOnDisk'
      BY <3>1, <3>2, PrunedRecords DEF MemoryIsOnDisk, Terminal
    <3>. QED
      BY <3>2, <3>3, SameMovesForward
  <2>3. ASSUME NEW from, NEW to \in RecordStates, NEW finish \in BOOLEAN,
               Transition(id, from, to, finish), Rank(from) < Rank(to)
        PROVE  DiskInv' /\ Forward
    <3>1. records' = [records EXCEPT ![id] = to] /\ records[id] = from
      BY <2>3 DEF Transition
    <3>2. records' \in Images
      BY <3>1 DEF Images
    <3>3. Recovered(disk') = records' /\ LoneBackupIsCounted'
      BY <2>3, <3>2, ReplacedKeeps DEF Transition, PersistOk
    <3>4. Recovered(disk') = [records EXCEPT ![id] = to]
      BY <3>1, <3>3
    <3>5. records \in Images /\ MemoryIsOnDisk /\ Rank(records[id]) < Rank(to)
      BY <2>3, <3>1
    <3>6. Forward
      BY <3>4, <3>5, WriteMovesForward
    <3>. QED
      BY <3>3, <3>6 DEF MemoryIsOnDisk
  <2>4. CASE MarkExternalStarted(id)
    BY <2>3, <2>4, RankOrder DEF MarkExternalStarted, RecordStates
  <2>5. CASE MarkFailed(id)
    BY <2>3, <2>5, RankOrder DEF MarkFailed, RecordStates
  <2>6. CASE MarkExternalPreflightFailed(id)
    BY <2>3, <2>6, RankOrder DEF MarkExternalPreflightFailed, RecordStates
  <2>7. CASE MarkCompleted(id)
    BY <2>3, <2>7, RankOrder DEF MarkCompleted, RecordStates
  <2>8. ASSUME NEW from, TransitionFails(id, from)
        PROVE  DiskInv' /\ Forward
    <3>1. Recovered(disk') = Recovered(disk) /\ LoneBackupIsCounted' /\ records' = records
      BY <2>8, RefusedKeeps DEF TransitionFails
    <3>. QED
      BY <3>1, SameMovesForward DEF MemoryIsOnDisk
  <2>9. ASSUME NEW from, GiveUp(id, from)
         PROVE  DiskInv' /\ Forward
    <3>1. Recovered(disk') = Recovered(disk) /\ LoneBackupIsCounted' /\ records' = records
      BY <2>9, RefusedKeeps DEF GiveUp
    <3>. QED
      BY <3>1, SameMovesForward DEF MemoryIsOnDisk
  <2>10. CASE FinishUnknown(id)
    <3>1. UNCHANGED <<records, disk, cuts>>
      BY <2>10 DEF FinishUnknown
    <3>. QED
      BY <3>1, SameMovesForward DEF MemoryIsOnDisk, LoneBackupIsCounted
  <2>11. ASSUME NEW pruned \in Images, NEW to \in RecordStates,
                \A j \in Ids : \/ pruned[j] = records[j]
                               \/ /\ pruned[j] = "Absent" /\ records[j] \in Terminal
                                  /\ Crowded(records),
                Rank(records[id]) < Rank(to),
                NEW pair \in Cut(KeepLast, disk, [pruned EXCEPT ![id] = to]),
                RestartFrom(pair)
         PROVE  DiskInv' /\ Forward
    <3>1. [pruned EXCEPT ![id] = to] \in Images
      BY DEF Images
    <3>2. pair \in FilePairs(Images) /\ LeaveFiles(pair)
      BY <2>11, <3>1, OutcomeTypes DEF RestartFrom
    <3>3. /\ \/ Recovered(disk') = Recovered(disk)
             \/ Recovered(disk') = [pruned EXCEPT ![id] = to]
          /\ LoneBackupIsCounted'
      BY <2>11, <3>1, <3>2, CutKeeps
    <3>4. Forward
      BY <2>11, <3>3, SameMovesForward, WriteMovesForward
    <3>. QED
      BY <1>1, <2>11, <3>2, <3>3, <3>4
  <2>12. ASSUME NEW to \in RecordStates, CrashInTransition(id, to)
         PROVE  DiskInv' /\ Forward
    <3>1. Rank(records[id]) < Rank(to)
      BY <2>12, RankOrder DEF CrashInTransition, Successors
    <3>2. PICK pair \in Cut(KeepLast, disk, [records EXCEPT ![id] = to]) :
            RestartFrom(pair)
      BY <2>12 DEF CrashInTransition
    <3>. QED
      BY <2>11, <3>1, <3>2
  <2>13. CASE CrashInReserve(id)
    <3>1. PICK pruned \in Pruned(records) :
            \E pair \in Cut(KeepLast, disk, [pruned EXCEPT ![id] = "Prepared"]) :
              RestartFrom(pair)
      BY <2>13 DEF CrashInReserve
    <3>2. Rank(records[id]) < Rank("Prepared")
      BY <2>13, RankOrder DEF CrashInReserve, IsNew
    <3>3. /\ pruned \in Images /\ "Prepared" \in RecordStates
          /\ \A j \in Ids : \/ pruned[j] = records[j]
                            \/ /\ pruned[j] = "Absent" /\ records[j] \in Terminal
                               /\ Crowded(records)
      BY <2>13, <3>1, PrunedRecords DEF RecordStates, Crowded, CrashInReserve, IsNew
    <3>. QED
      BY <2>11, <3>1, <3>2, <3>3
  <2>. QED
    BY <1>3, <2>1, <2>2, <2>4, <2>5, <2>6, <2>7, <2>8, <2>9, <2>10, <2>12, <2>13
    DEF LedgerOperation
<1>. QED
  BY <1>2, <1>3 DEF LedgerNext

\* The disk invariant, and with it that every record the program acts on is the
\* one a restart would find.
THEOREM MemoryOnDisk ==
  ASSUME MaxCuts <= 1
  PROVE  LedgerSpec => [](LoneBackupIsCounted /\ MemoryIsOnDisk)
<1>1. LedgerInit => DiskInv
  BY DEF LedgerInit, DiskInv, LoneBackupIsCounted, MemoryIsOnDisk, NoFiles,
         Recovered, Loaded
<1>2. LedgerTypeOK /\ DiskInv /\ [LedgerNext]_ledgerVars => DiskInv'
  <2>1. ASSUME DiskInv, UNCHANGED ledgerVars
        PROVE  DiskInv'
    BY <2>1 DEF DiskInv, LoneBackupIsCounted, MemoryIsOnDisk, ledgerVars
  <2>. QED
    BY <2>1, DiskStep
<1>3. LedgerSpec => []DiskInv
  BY <1>1, <1>2, LedgerTypeCorrect, PTL DEF LedgerSpec
<1>. QED
  BY <1>3, PTL DEF DiskInv

\* Whatever operation fails and whenever the process dies, a turn that may have
\* been delivered is never forgotten by the files.
THEOREM EvidenceForward ==
  ASSUME MaxCuts <= 1
  PROVE  LedgerSpec => EvidenceMovesForward
<1>1. LedgerTypeOK /\ DiskInv /\ [LedgerNext]_ledgerVars => [Forward]_ledgerVars
  BY DiskStep
<1>2. LedgerSpec => []DiskInv
  BY MemoryOnDisk, PTL DEF DiskInv
<1>3. LedgerSpec => [][Forward]_ledgerVars
  BY <1>1, <1>2, LedgerTypeCorrect, PTL DEF LedgerSpec
<1>. QED
  BY <1>3 DEF EvidenceMovesForward, Forward

-----------------------------------------------------------------------------
(* Types, ownership and the use of the ledger, proved together: a call's next *)
(* ledger operation is legal because the call owns its record.               *)

\* A call that is under way is about some dispatch.
TargetOK == \A c \in Calls : pc[c] # "idle" => target[c] \in Ids

CallInv == TypeOK /\ TargetOK /\ CallOwnsRecord

\* A step of a call moves the call alone: its place stays a place.
LEMMA MoveType ==
  ASSUME TypeOK, NEW c \in Calls, NEW from, NEW to \in Steps, Goto(c, from, to)
  PROVE  /\ pc' \in [Calls -> Steps]
         /\ target' = target /\ result' = result
         /\ pc[c] = from /\ pc' = [pc EXCEPT ![c] = to]
BY DEF TypeOK, Goto

\* A returning command leaves the call idle with one of the answers.
LEMMA FinishType ==
  ASSUME TypeOK, NEW c \in Calls, NEW from, NEW answer \in Results,
         Finish(c, from, answer)
  PROVE  /\ pc' \in [Calls -> Steps]
         /\ target' = target /\ result' \in [Calls -> Results]
         /\ pc[c] = from /\ pc' = [pc EXCEPT ![c] = "idle"]
BY DEF TypeOK, Finish, Steps

\* What begin() answers of an existing record is one of the answers.
LEMMA AnswerType == \A state : AnswerOfRecord(state) \in Results
BY DEF AnswerOfRecord, Results

-----------------------------------------------------------------------------
(* Every step of the dispatcher is a ledger operation or leaves the ledger    *)
(* alone.                                                                   *)

\* A crash inside the write of a call is a crash inside a ledger operation.
LEMMA CrashInWriteRefines ==
  ASSUME CallInv, NEW c \in Calls, CrashInWrite(c)
  PROVE  LedgerNext
<1>. DEFINE id == target[c]
<1>1. PICK next \in LedgerWrite(c) :
        \E pair \in Cut(KeepLast, disk, next) : StopOver(pair)
  BY DEF CrashInWrite
<1>2. PICK pair \in Cut(KeepLast, disk, next) : RestartFrom(pair)
  BY <1>1 DEF StopOver
<1>3. id \in Ids
  <2>1. pc[c] # "idle"
    BY <1>1 DEF LedgerWrite
  <2>. QED
    BY <2>1 DEF CallInv, TargetOK
<1>4. ASSUME NEW to \in RecordStates, pc[c] \in OwnerSteps,
             to \in Successors(records[id]), next = [records EXCEPT ![id] = to]
      PROVE  LedgerNext
  <2>1. id \in active
    BY <1>4 DEF CallInv, CallOwnsRecord
  <2>2. CrashInTransition(id, to)
    BY <1>2, <1>4, <2>1 DEF CrashInTransition
  <2>. QED
    BY <1>3, <1>4, <2>2 DEF LedgerNext, LedgerOperation
<1>5. ASSUME pc[c] \in OwnerSteps
      PROVE  records[id] = ExpectedRecord(pc[c])
  BY <1>5 DEF CallInv, CallOwnsRecord
<1>6. CASE pc[c] = "start"
  <2>1. next = [records EXCEPT ![id] = "ExternalStarted"]
    BY <1>1, <1>6 DEF LedgerWrite
  <2>2. records[id] = "Prepared" /\ pc[c] \in OwnerSteps
    BY <1>5, <1>6 DEF OwnerSteps, GateSteps, ExpectedRecord
  <2>. QED
    BY <1>4, <2>1, <2>2 DEF Successors, RecordStates
<1>7. CASE pc[c] \in {"failing", "refusing"}
  <2>1. next = [records EXCEPT ![id] = "Failed"]
    BY <1>1, <1>7 DEF LedgerWrite
  <2>2. records[id] \in {"Prepared", "ExternalStarted"} /\ pc[c] \in OwnerSteps
    BY <1>5, <1>7 DEF OwnerSteps, GateSteps, ExpectedRecord
  <2>. QED
    BY <1>4, <2>1, <2>2 DEF Successors, RecordStates
<1>8. CASE pc[c] = "complete"
  <2>1. next = [records EXCEPT ![id] = "Completed"]
    BY <1>1, <1>8 DEF LedgerWrite
  <2>2. records[id] = "ExternalStarted" /\ pc[c] \in OwnerSteps
    BY <1>5, <1>8 DEF OwnerSteps, GateSteps, ExpectedRecord
  <2>. QED
    BY <1>4, <2>1, <2>2 DEF Successors, RecordStates
<1>9. CASE pc[c] = "begin" /\ IsNew(id)
  <2>1. PICK pruned \in Pruned(records) :
          ~Full(pruned) /\ next = [pruned EXCEPT ![id] = "Prepared"]
    BY <1>1, <1>9 DEF LedgerWrite
  <2>2. CrashInReserve(id)
    BY <1>2, <1>9, <2>1 DEF CrashInReserve
  <2>. QED
    BY <1>3, <2>2 DEF LedgerNext, LedgerOperation
<1>. QED
  <2>1. \/ pc[c] \in {"start", "failing", "refusing", "complete"}
        \/ pc[c] = "begin" /\ IsNew(id)
    BY <1>1 DEF LedgerWrite
  <2>. QED
    BY <2>1, <1>6, <1>7, <1>8, <1>9

\* The ledger operation of each step of a call is one the ledger allows.
LEMMA CallStepRefines ==
  ASSUME CallInv, NEW c \in Calls, CallStep(c)
  PROVE  [LedgerNext]_ledgerVars
<1>. DEFINE id == target[c]
<1>1. ASSUME pc[c] # "idle", LedgerOperation(id)
      PROVE  LedgerNext
  <2>1. id \in Ids
    BY <1>1 DEF CallInv, TargetOK
  <2>. QED
    BY <1>1, <2>1 DEF LedgerNext
<1>2. CASE BeginReserved(c)
  BY <1>1, <1>2 DEF BeginReserved, Goto, LedgerOperation
<1>3. CASE BeginFails(c)
  BY <1>1, <1>3 DEF BeginFails, Finish, LedgerOperation
<1>4. CASE StartExternal(c)
  BY <1>1, <1>4 DEF StartExternal, Goto, LedgerOperation
<1>5. CASE StartFails(c)
  BY <1>1, <1>5 DEF StartFails, Goto, LedgerOperation
<1>6. CASE FinishFailed(c)
  BY <1>1, <1>6 DEF FinishFailed, Finish, LedgerOperation
<1>7. CASE FinishFailedUnrecorded(c)
  BY <1>1, <1>7 DEF FinishFailedUnrecorded, Finish, LedgerOperation
<1>8. CASE TurnUnknown(c)
  BY <1>1, <1>8 DEF TurnUnknown, Finish, LedgerOperation
<1>9. CASE FinishRefused(c)
  BY <1>1, <1>9 DEF FinishRefused, Finish, LedgerOperation
<1>10. CASE FinishRefusedUnrecorded(c)
  BY <1>1, <1>10 DEF FinishRefusedUnrecorded, Finish, LedgerOperation
<1>11. CASE AppendFails(c)
  BY <1>1, <1>11 DEF AppendFails, Finish, LedgerOperation
<1>12. CASE Complete(c)
  BY <1>1, <1>12 DEF Complete, Finish, LedgerOperation
<1>13. CASE CompleteUnrecorded(c)
  BY <1>1, <1>13 DEF CompleteUnrecorded, Finish, LedgerOperation
<1>14. CASE \/ FindDuplicate(c) \/ FindMissing(c) \/ FindFails(c)
            \/ BeginActive(c) \/ BeginExisting(c)
            \/ AcquireGate(c) \/ PreflightPasses(c) \/ PreflightFails(c)
            \/ SendTurn(c) \/ RejectLocally(c)
            \/ TurnReplies(c) \/ TurnRefused(c) \/ AppendReply(c)
  BY <1>14 DEF FindDuplicate, FindMissing, FindFails, BeginActive, BeginExisting,
     AcquireGate, PreflightPasses, PreflightFails, SendTurn, RejectLocally,
     TurnReplies, TurnRefused, AppendReply
<1>. QED
  BY <1>2, <1>3, <1>4, <1>5, <1>6, <1>7, <1>8, <1>9, <1>10, <1>11, <1>12, <1>13,
     <1>14 DEF CallStep

\* Every step of the dispatcher is one of the ledger, or a stutter.
LEMMA StepRefines ==
  ASSUME CallInv, [Next]_vars
  PROVE  [LedgerNext]_ledgerVars
<1>1. ASSUME NEW c \in Calls, NEW id \in Ids, Call(c, id)
      PROVE  UNCHANGED ledgerVars
  BY <1>1 DEF Call
<1>2. CASE ExportRooms \/ RestoreRooms
  BY <1>2 DEF ExportRooms, RestoreRooms
<1>3. CASE CrashAnywhere
  BY <1>3 DEF CrashAnywhere, StopOver, LedgerNext, Crash
<1>4. CASE UNCHANGED vars
  BY <1>4 DEF vars
<1>. QED
  BY <1>1, <1>2, <1>3, <1>4, CallStepRefines, CrashInWriteRefines DEF Next

-----------------------------------------------------------------------------
(* Types.                                                                   *)

\* The step of one call keeps the types of everything the calls change.
LEMMA CallStepType ==
  ASSUME CallInv, NEW c \in Calls, CallStep(c)
  PROVE  /\ pc' \in [Calls -> Steps]
         /\ target' = target /\ result' \in [Calls -> Results]
         /\ replies' \subseteq Ids
         /\ exported' \subseteq Ids
         /\ provider' \in [Ids -> {"never", "running", "replied", "refused"}]
         /\ sent' \in [Ids -> Nat]
<1>. DEFINE PcType == pc' \in [Calls -> Steps] /\ target' = target
                      /\ result' \in [Calls -> Results]
            RoomType == replies' \subseteq Ids /\ exported' \subseteq Ids
            ProviderType ==
              /\ provider' \in [Ids -> {"never", "running", "replied", "refused"}]
              /\ sent' \in [Ids -> Nat]
<1>. USE DEF CallInv
<1>1. pc[c] # "idle" => target[c] \in Ids
  BY DEF TargetOK
<1>2. ASSUME UNCHANGED roomVars PROVE RoomType
  BY <1>2 DEF TypeOK, roomVars
<1>3. ASSUME UNCHANGED providerVars PROVE ProviderType
  BY <1>3 DEF TypeOK, providerVars
<1>4. ASSUME NEW from, NEW to \in Steps, Goto(c, from, to) PROVE PcType
  BY <1>4, MoveType DEF TypeOK
<1>5. ASSUME NEW from, NEW answer \in Results, Finish(c, from, answer) PROVE PcType
  BY <1>5, FinishType
<1>6. CASE FindDuplicate(c) \/ FindFails(c) \/ BeginFails(c) \/ BeginActive(c)
  BY <1>6, <1>2, <1>3, <1>5
  DEF FindDuplicate, FindFails, BeginFails, BeginActive, Results
<1>7. CASE BeginExisting(c)
  BY <1>7, <1>2, <1>3, <1>5, AnswerType DEF BeginExisting
<1>8. CASE FindMissing(c) \/ BeginReserved(c) \/ AcquireGate(c)
           \/ PreflightPasses(c) \/ PreflightFails(c)
           \/ StartExternal(c) \/ StartFails(c) \/ RejectLocally(c)
  BY <1>8, <1>2, <1>3, <1>4
  DEF FindMissing, BeginReserved, AcquireGate, PreflightPasses, PreflightFails,
      StartExternal, StartFails, RejectLocally, Steps
<1>9. CASE FinishFailed(c) \/ FinishFailedUnrecorded(c) \/ TurnUnknown(c)
           \/ FinishRefused(c) \/ FinishRefusedUnrecorded(c) \/ AppendFails(c)
           \/ Complete(c) \/ CompleteUnrecorded(c)
  BY <1>9, <1>2, <1>3, <1>5
  DEF FinishFailed, FinishFailedUnrecorded, TurnUnknown, FinishRefused,
      FinishRefusedUnrecorded, AppendFails, Complete, CompleteUnrecorded, Results
<1>10. CASE SendTurn(c)
  <2>1. PcType
    BY <1>10, <1>4 DEF SendTurn, Steps
  <2>2. RoomType /\ ProviderType
    BY <1>10, <1>1, <1>2 DEF SendTurn, Goto, TypeOK
  <2>. QED
    BY <2>1, <2>2
<1>11. CASE TurnReplies(c) \/ TurnRefused(c)
  <2>1. PcType
    BY <1>11, <1>4 DEF TurnReplies, TurnRefused, Steps
  <2>2. RoomType /\ ProviderType
    BY <1>11, <1>1, <1>2 DEF TurnReplies, TurnRefused, Goto, TypeOK
  <2>. QED
    BY <2>1, <2>2
<1>12. CASE AppendReply(c)
  <2>1. PcType
    BY <1>12, <1>4 DEF AppendReply, Steps
  <2>2. RoomType /\ ProviderType
    BY <1>12, <1>1, <1>3 DEF AppendReply, Goto, TypeOK
  <2>. QED
    BY <2>1, <2>2
<1>. QED
  BY <1>6, <1>7, <1>8, <1>9, <1>10, <1>11, <1>12 DEF CallStep

\* A restart leaves every call idle and the Room as it was.
LEMMA StopType ==
  ASSUME CallInv, NEW pair, StopOver(pair)
  PROVE  /\ pc' \in [Calls -> Steps]
         /\ target' \in [Calls -> Ids \cup {NoId}]
         /\ result' \in [Calls -> Results]
         /\ replies' \subseteq Ids
         /\ exported' \subseteq Ids
         /\ provider' \in [Ids -> {"never", "running", "replied", "refused"}]
         /\ sent' \in [Ids -> Nat]
         /\ TargetOK' /\ CallOwnsRecord'
<1>1. pc' = [c \in Calls |-> "idle"]
  BY DEF StopOver
<1>2. TargetOK' /\ CallOwnsRecord'
  BY <1>1 DEF TargetOK, CallOwnsRecord, OwnerSteps, GateSteps
<1>. QED
  BY <1>2 DEF StopOver, CallInv, TypeOK, Steps, Results, roomVars, providerVars

\* Every step of the dispatcher keeps the types.
LEMMA DispatchTypeStep ==
  ASSUME CallInv, [Next]_vars
  PROVE  TypeOK' /\ TargetOK'
<1>. USE DEF CallInv
<1>1. LedgerTypeOK'
  <2>1. LedgerTypeOK /\ [LedgerNext]_ledgerVars
    BY StepRefines DEF TypeOK
  <2>2. CASE LedgerNext
    BY <2>1, <2>2, TypeStep
  <2>3. CASE UNCHANGED ledgerVars
    BY <2>1, <2>3 DEF LedgerTypeOK, ledgerVars
  <2>. QED
    BY <2>1, <2>2, <2>3
<1>2. ASSUME NEW c \in Calls, CallStep(c)
      PROVE  TypeOK' /\ TargetOK'
  <2>1. TypeOK'
    BY <1>1, <1>2, CallStepType DEF TypeOK
  <2>2. \A d \in Calls : pc'[d] # "idle" => pc[d] # "idle"
    BY <1>2 DEF CallStep, FindDuplicate, FindMissing, FindFails, BeginReserved,
       BeginFails, BeginActive, BeginExisting, AcquireGate, PreflightPasses,
       PreflightFails, StartExternal, StartFails, FinishFailed,
       FinishFailedUnrecorded, SendTurn, RejectLocally, TurnReplies, TurnRefused,
       TurnUnknown, FinishRefused, FinishRefusedUnrecorded, AppendReply,
       AppendFails, Complete, CompleteUnrecorded, Goto, Finish, TypeOK
  <2>3. target' = target
    BY <1>2, CallStepType
  <2>. QED
    BY <2>1, <2>2, <2>3 DEF TargetOK
<1>3. ASSUME NEW c \in Calls, NEW id \in Ids, Call(c, id)
      PROVE  TypeOK' /\ TargetOK'
  <2>1. TypeOK'
    BY <1>1, <1>3 DEF Call, TypeOK, Steps, Results, roomVars, providerVars
  <2>. QED
    BY <1>3, <2>1 DEF Call, TargetOK, TypeOK
<1>4. ASSUME NEW pair, StopOver(pair)
      PROVE  TypeOK' /\ TargetOK'
  BY <1>1, <1>4, StopType DEF TypeOK
<1>5. CASE ExportRooms \/ RestoreRooms
  BY <1>1, <1>5 DEF ExportRooms, RestoreRooms, TypeOK, TargetOK, callVars, providerVars
<1>6. CASE UNCHANGED vars
  BY <1>1, <1>6 DEF vars, callVars, roomVars, providerVars, TypeOK, TargetOK
<1>. QED
  BY <1>2, <1>3, <1>4, <1>5, <1>6 DEF Next, CrashInWrite, CrashAnywhere

-----------------------------------------------------------------------------
(* Ownership.                                                               *)

\* A step of call c keeps the ownership of all calls when it leaves the other
\* owned records alone and, if c still or newly owns one, leaves it in the
\* state that the next step of c expects.
LEMMA OwnsKept ==
  ASSUME CallInv, NEW c \in Calls, NEW to \in Steps, pc[c] # "idle",
         pc' = [pc EXCEPT ![c] = to], target' = target,
         \A id \in active : \/ id \in active' /\ records'[id] = records[id]
                            \/ pc[c] \in OwnerSteps /\ id = target[c],
         to \in OwnerSteps => /\ target[c] \in active'
                              /\ records'[target[c]] = ExpectedRecord(to)
                              /\ pc[c] \in OwnerSteps \/ target[c] \notin active
  PROVE  CallOwnsRecord'
<1>. USE DEF CallInv
<1>1. \A d \in Calls \ {c} : pc'[d] = pc[d]
  BY DEF TypeOK
<1>2. pc'[c] = to
  BY DEF TypeOK
<1>3. ASSUME NEW d \in Calls \ {c}, pc[d] \in OwnerSteps
      PROVE  /\ target[d] \in active' /\ records'[target[d]] = ExpectedRecord(pc[d])
             /\ to \in OwnerSteps => target[d] # target[c]
  <2>1. target[d] \in active /\ records[target[d]] = ExpectedRecord(pc[d])
    BY <1>3 DEF CallOwnsRecord
  <2>2. pc[c] \in OwnerSteps => target[d] # target[c]
    BY <1>3 DEF CallOwnsRecord
  <2>. QED
    BY <2>1, <2>2
<1>4. ASSUME NEW d \in Calls, NEW e \in Calls, d # c, e # c, d # e,
             pc[d] \in OwnerSteps, pc[e] \in OwnerSteps
      PROVE  target[d] # target[e]
  BY <1>4 DEF CallOwnsRecord
<1>5. \A d \in Calls : pc'[d] \in OwnerSteps =>
        target'[d] \in active' /\ records'[target'[d]] = ExpectedRecord(pc'[d])
  BY <1>1, <1>2, <1>3
<1>6. \A d, e \in Calls : pc'[d] \in OwnerSteps /\ pc'[e] \in OwnerSteps /\ d # e
                            => target'[d] # target'[e]
  BY <1>1, <1>2, <1>3, <1>4
<1>. QED
  BY <1>5, <1>6 DEF CallOwnsRecord, ExpectedRecord

\* Nothing terminal is owned, so what begin() prunes belongs to no call.
LEMMA PrunedIsNotOwned ==
  ASSUME LedgerTypeOK, OwnedIsUndecided, NEW pruned \in Pruned(records)
  PROVE  \A id \in active : pruned[id] = records[id]
BY PrunedRecords DEF LedgerTypeOK, OwnedIsUndecided, Terminal

\* Every step of a call keeps the ownership of all calls.
LEMMA CallStepOwns ==
  ASSUME CallInv, OwnedIsUndecided, NEW c \in Calls, CallStep(c)
  PROVE  CallOwnsRecord'
<1>. USE DEF CallInv
<1>. DEFINE id == target[c]
<1>0. pc[c] # "idle" => id \in Ids
  BY DEF TargetOK
<1>1. pc[c] \in OwnerSteps => id \in active /\ records[id] = ExpectedRecord(pc[c])
  BY DEF CallOwnsRecord
<1>2. ASSUME NEW from, NEW to \in Steps, Goto(c, from, to), from # "idle",
             UNCHANGED ledgerVars,
             to \in OwnerSteps => /\ from \in OwnerSteps
                                  /\ ExpectedRecord(to) = ExpectedRecord(from)
      PROVE  CallOwnsRecord'
  <2>1. target' = target /\ pc[c] = from /\ pc' = [pc EXCEPT ![c] = to]
    BY <1>2, MoveType
  <2>2. active' = active /\ records' = records
    BY <1>2 DEF ledgerVars
  <2>. QED
    BY <1>1, <1>2, <2>1, <2>2, OwnsKept
<1>3. ASSUME NEW from, NEW answer, Finish(c, from, answer), from # "idle",
             \A j \in active : \/ j \in active' /\ records'[j] = records[j]
                               \/ from \in OwnerSteps /\ j = id
      PROVE  CallOwnsRecord'
  <2>1. target' = target /\ pc[c] = from /\ pc' = [pc EXCEPT ![c] = "idle"]
    BY <1>3 DEF Finish
  <2>2. "idle" \in Steps \ OwnerSteps
    BY DEF Steps, OwnerSteps, GateSteps
  <2>. QED
    BY <1>3, <2>1, <2>2, OwnsKept
<1>4. CASE FindMissing(c) \/ AcquireGate(c) \/ PreflightPasses(c)
           \/ PreflightFails(c) \/ RejectLocally(c) \/ SendTurn(c)
           \/ TurnReplies(c) \/ TurnRefused(c) \/ AppendReply(c)
  BY <1>4, <1>2 DEF FindMissing, AcquireGate, PreflightPasses, PreflightFails,
     RejectLocally, SendTurn, TurnReplies, TurnRefused, AppendReply, Steps,
     OwnerSteps, GateSteps, ExpectedRecord
<1>5. CASE FindDuplicate(c) \/ FindFails(c) \/ BeginActive(c) \/ BeginExisting(c)
  BY <1>5, <1>3
  DEF FindDuplicate, FindFails, BeginActive, BeginExisting, ledgerVars
<1>6. CASE BeginReserved(c)
  <2>1. PICK pruned \in Pruned(records) :
          records' = [pruned EXCEPT ![id] = "Prepared"]
    BY <1>6 DEF BeginReserved, Reserve
  <2>2. /\ pc[c] = "begin" /\ target' = target /\ pc' = [pc EXCEPT ![c] = "gate"]
        /\ id \notin active /\ active' = active \cup {id}
    BY <1>6 DEF BeginReserved, Goto, Reserve, IsNew
  <2>3. pruned \in Images /\ id \in Ids /\ active \subseteq Ids
    BY <1>0, <2>1, <2>2, PrunedRecords DEF TypeOK, LedgerTypeOK
  <2>4. \A j \in active : records'[j] = records[j]
    BY <2>1, <2>2, <2>3, PrunedIsNotOwned DEF TypeOK, Images
  <2>5. records'[id] = "Prepared"
    BY <2>1, <2>3 DEF Images
  <2>6. "gate" \in Steps \cap OwnerSteps /\ ExpectedRecord("gate") = "Prepared"
    BY DEF Steps, OwnerSteps, ExpectedRecord
  <2>. QED
    BY <2>2, <2>4, <2>5, <2>6, OwnsKept
<1>7. CASE BeginFails(c)
  <2>1. ASSUME UNCHANGED ledgerVars
        PROVE  CallOwnsRecord'
    BY <1>3, <1>7, <2>1 DEF BeginFails, ledgerVars
  <2>2. ASSUME ReserveFails(id)
        PROVE  CallOwnsRecord'
    <3>1. PICK pruned \in Pruned(records) : records' = pruned
      BY <2>2 DEF ReserveFails
    <3>2. active' = active /\ \A j \in active : records'[j] = records[j]
      BY <2>2, <3>1, PrunedIsNotOwned DEF ReserveFails, TypeOK
    <3>. QED
      BY <1>3, <1>7, <3>2 DEF BeginFails
  <2>. QED
    BY <1>7, <2>1, <2>2 DEF BeginFails
<1>8. ASSUME NEW from, NEW to, NEW finish, Transition(id, from, to, finish),
             pc[c] # "idle"
      PROVE  /\ records'[id] = to
             /\ ~finish => active' = active
             /\ \A j \in active \ {id} : j \in active' /\ records'[j] = records[j]
  BY <1>0, <1>8 DEF Transition, TypeOK, LedgerTypeOK, Images
<1>9. CASE StartExternal(c)
  <2>1. pc[c] = "start" /\ target' = target /\ pc' = [pc EXCEPT ![c] = "turn"]
    BY <1>9 DEF StartExternal, Goto
  <2>2. /\ records'[id] = "ExternalStarted" /\ active' = active
        /\ \A j \in active \ {id} : records'[j] = records[j]
    BY <1>8, <1>9, <2>1 DEF StartExternal, MarkExternalStarted
  <2>3. /\ "start" \in OwnerSteps /\ "turn" \in OwnerSteps /\ "turn" \in Steps
        /\ ExpectedRecord("turn") = "ExternalStarted"
    BY DEF Steps, OwnerSteps, GateSteps, ExpectedRecord
  <2>. QED
    BY <1>1, <2>1, <2>2, <2>3, OwnsKept
<1>10. CASE StartFails(c)
  <2>1. /\ pc[c] = "start" /\ target' = target /\ pc' = [pc EXCEPT ![c] = "failing"]
        /\ active' = active /\ records' = records
    BY <1>10 DEF StartFails, TransitionFails, Goto
  <2>2. /\ "start" \in OwnerSteps /\ "failing" \in OwnerSteps /\ "failing" \in Steps
        /\ ExpectedRecord("failing") = ExpectedRecord("start")
    BY DEF Steps, OwnerSteps, GateSteps, ExpectedRecord
  <2>. QED
    BY <1>1, <2>1, <2>2, OwnsKept
<1>11. CASE FinishFailed(c) \/ FinishRefused(c) \/ Complete(c)
  <2>1. \A j \in active \ {id} : j \in active' /\ records'[j] = records[j]
    BY <1>8, <1>11 DEF FinishFailed, FinishRefused, Complete, MarkFailed,
       MarkExternalPreflightFailed, MarkCompleted, Finish
  <2>. QED
    BY <1>3, <1>11, <2>1
    DEF FinishFailed, FinishRefused, Complete, OwnerSteps, GateSteps
<1>12. CASE FinishFailedUnrecorded(c) \/ FinishRefusedUnrecorded(c)
            \/ CompleteUnrecorded(c)
  <2>1. \A j \in active \ {id} : j \in active' /\ records'[j] = records[j]
    BY <1>12 DEF FinishFailedUnrecorded, FinishRefusedUnrecorded,
       CompleteUnrecorded, GiveUp
  <2>. QED
    BY <1>3, <1>12, <2>1 DEF FinishFailedUnrecorded, FinishRefusedUnrecorded,
       CompleteUnrecorded, OwnerSteps, GateSteps
<1>13. CASE TurnUnknown(c) \/ AppendFails(c)
  <2>1. \A j \in active \ {id} : j \in active' /\ records'[j] = records[j]
    BY <1>13 DEF TurnUnknown, AppendFails, FinishUnknown
  <2>. QED
    BY <1>3, <1>13, <2>1 DEF TurnUnknown, AppendFails, OwnerSteps, GateSteps
<1>. QED
  BY <1>4, <1>5, <1>6, <1>7, <1>9, <1>10, <1>11, <1>12, <1>13 DEF CallStep

\* A call past begin owns its record: every step keeps it.
LEMMA OwnershipStep ==
  ASSUME CallInv, OwnedIsUndecided, [Next]_vars
  PROVE  CallOwnsRecord'
<1>. USE DEF CallInv
<1>1. ASSUME NEW c \in Calls, NEW id \in Ids, Call(c, id)
      PROVE  CallOwnsRecord'
  <2>1. \A d \in Calls : pc'[d] \in OwnerSteps =>
          pc[d] = pc'[d] /\ target'[d] = target[d]
    BY <1>1 DEF Call, TypeOK, OwnerSteps, GateSteps
  <2>2. active' = active /\ records' = records
    BY <1>1 DEF Call, ledgerVars
  <2>. QED
    BY <2>1, <2>2 DEF CallOwnsRecord
<1>2. ASSUME NEW pair, StopOver(pair)
      PROVE  CallOwnsRecord'
  BY <1>2, StopType
<1>3. CASE ExportRooms \/ RestoreRooms \/ UNCHANGED vars
  BY <1>3 DEF ExportRooms, RestoreRooms, CallOwnsRecord, vars, callVars, ledgerVars
<1>. QED
  BY <1>1, <1>2, <1>3, CallStepOwns DEF Next, CrashInWrite, CrashAnywhere

-----------------------------------------------------------------------------
\* The dispatcher's state stays well typed, and no call that was reserved a
\* dispatch ever finds its record owned by another or in an unexpected state.
LEMMA CallInvariant == Spec => [](CallInv /\ OwnedIsUndecided)
<1>1. Init => CallInv /\ OwnedIsUndecided
  <2>. SUFFICES ASSUME Init PROVE CallInv /\ OwnedIsUndecided
    OBVIOUS
  <2>1. LedgerTypeOK
    BY LedgerConstants DEF Init, LedgerInit, LedgerTypeOK, NoRecords, Images,
       NoFiles, FilePairs
  <2>2. TypeOK
    BY <2>1 DEF Init, TypeOK, Steps, Results
  <2>3. TargetOK /\ CallOwnsRecord /\ OwnedIsUndecided
    BY DEF Init, LedgerInit, TargetOK, CallOwnsRecord, OwnerSteps, GateSteps,
       OwnedIsUndecided
  <2>. QED
    BY <2>2, <2>3 DEF CallInv
<1>2. CallInv /\ OwnedIsUndecided /\ [Next]_vars => (CallInv /\ OwnedIsUndecided)'
  <2>1. SUFFICES ASSUME CallInv, OwnedIsUndecided, [Next]_vars
                 PROVE  (CallInv /\ OwnedIsUndecided)'
    OBVIOUS
  <2>2. CallInv'
    BY <2>1, DispatchTypeStep, OwnershipStep DEF CallInv
  <2>3. LedgerTypeOK /\ [LedgerNext]_ledgerVars
    BY <2>1, StepRefines DEF CallInv, TypeOK
  <2>4. CASE LedgerNext
    BY <2>1, <2>2, <2>3, <2>4, OwnedStep
  <2>5. CASE UNCHANGED ledgerVars
    BY <2>1, <2>2, <2>5 DEF OwnedIsUndecided, ledgerVars
  <2>. QED
    BY <2>3, <2>4, <2>5
<1>. QED
  BY <1>1, <1>2, PTL DEF Spec

\* Types of the dispatcher and its ledger.
THEOREM DispatchTypeCorrect == Spec => []TypeOK
BY CallInvariant, PTL DEF CallInv

\* No transition of the ledger is ever refused to a call for ownership or state.
THEOREM CallsOwnRecords == Spec => []CallOwnsRecord
BY CallInvariant, PTL DEF CallInv

\* The dispatcher uses its ledger only by the ledger's operations, one at a time.
THEOREM DispatchRefinesLedger == Spec => LedgerSpec
<1>1. Init => LedgerInit
  BY DEF Init
<1>2. CallInv /\ [Next]_vars => [LedgerNext]_ledgerVars
  BY StepRefines
<1>. QED
  BY <1>1, <1>2, CallInvariant, PTL DEF Spec, LedgerSpec

-----------------------------------------------------------------------------
(* At most one external turn.                                               *)

\* The ledger can hold a record of every dispatch: it never prunes.
RoomForAll == Cardinality(Ids) <= MaxRecords

Delivered == {"ExternalStarted", "Completed", "Failed"}

\* With room for all, a dispatch without a record finds room.
LEMMA NeverCrowded ==
  ASSUME RoomForAll, NEW recs
  PROVE  ~Crowded(recs)
<1>. SUFFICES ASSUME Full(recs), NEW id \in Ids, recs[id] = "Absent"
              PROVE  FALSE
  BY DEF Crowded
<1>1. Present(recs) \subseteq Ids /\ Present(recs) # Ids
  BY DEF Present
<1>2. IsFiniteSet(Ids) /\ Cardinality(Ids) \in Nat
  BY LedgerConstants, FS_CardinalityType
<1>3. IsFiniteSet(Present(recs)) /\ Cardinality(Present(recs)) \in Nat
  BY <1>1, <1>2, FS_Subset, FS_CardinalityType
<1>4. Cardinality(Present(recs)) < Cardinality(Ids)
  BY <1>1, <1>2, <1>3, FS_Subset
<1>. QED
  BY <1>2, <1>3, <1>4, LedgerConstants DEF RoomForAll, Full

\* No operation removes a record from memory except by a restart, after which
\* memory is what the files hold.
LEMMA RecordStays ==
  ASSUME RoomForAll, LedgerTypeOK, LedgerNext, NEW id \in Ids,
         records[id] # "Absent"
  PROVE  records'[id] # "Absent" \/ records' = Recovered(disk')
<1>. USE DEF LedgerTypeOK
<1>1. ASSUME NEW pair, RestartFrom(pair)
      PROVE  records' = Recovered(disk')
  BY <1>1 DEF RestartFrom, LeaveFiles
<1>2. ASSUME NEW j \in Ids, IsNew(j), NEW pruned \in Pruned(records)
      PROVE  pruned = records
  <2>1. ~Full(records)
    BY <1>2, NeverCrowded DEF Crowded, IsNew
  <2>. QED
    BY <1>2, <2>1 DEF Pruned
<1>3. CASE Crash
  BY <1>1, <1>3 DEF Crash
<1>4. ASSUME NEW j \in Ids, LedgerOperation(j)
      PROVE  records'[id] # "Absent" \/ records' = Recovered(disk')
  <2>1. CASE Reserve(j)
    BY <1>2, <2>1 DEF Reserve, Images
  <2>2. CASE ReserveFails(j)
    BY <1>2, <2>2 DEF ReserveFails
  <2>3. CASE MarkExternalStarted(j)
    BY <2>3 DEF MarkExternalStarted, Transition, Images
  <2>4. CASE MarkFailed(j)
    BY <2>4 DEF MarkFailed, Transition, Images
  <2>5. CASE MarkExternalPreflightFailed(j)
    BY <2>5 DEF MarkExternalPreflightFailed, Transition, Images
  <2>6. CASE MarkCompleted(j)
    BY <2>6 DEF MarkCompleted, Transition, Images
  <2>7. ASSUME NEW from, TransitionFails(j, from) \/ GiveUp(j, from)
        PROVE  records'[id] # "Absent"
    BY <2>7 DEF TransitionFails, GiveUp
  <2>8. CASE FinishUnknown(j)
    BY <2>8 DEF FinishUnknown
  <2>9. ASSUME NEW to, CrashInTransition(j, to)
        PROVE  records' = Recovered(disk')
    BY <1>1, <2>9 DEF CrashInTransition
  <2>10. CASE CrashInReserve(j)
    BY <1>1, <2>10 DEF CrashInReserve
  <2>. QED
    BY <1>4, <2>1, <2>2, <2>3, <2>4, <2>5, <2>6, <2>7, <2>8, <2>9, <2>10
    DEF LedgerOperation
<1>. QED
  BY <1>3, <1>4 DEF LedgerNext

\* A dispatch that is on record as delivered, in memory and on disk, stays so.
LEMMA DeliveredStays ==
  ASSUME MaxCuts <= 1, RoomForAll, LedgerTypeOK, DiskInv, [LedgerNext]_ledgerVars,
         NEW id \in Ids, records[id] \in Delivered, Recovered(disk)[id] \in Delivered
  PROVE  records'[id] \in Delivered /\ Recovered(disk')[id] \in Delivered
<1>1. CASE UNCHANGED ledgerVars
  BY <1>1 DEF ledgerVars
<1>2. CASE LedgerNext
  <2>1. LedgerTypeOK' /\ DiskInv' /\ Forward
    BY <1>2, TypeStep, DiskStep
  <2>2. records[id] # "Absent"
    BY DEF Delivered
  <2>3. Rank(Recovered(disk)[id]) <= Rank(Recovered(disk')[id])
    BY <2>1, <2>2, NeverCrowded DEF Forward
  <2>4. Recovered(disk')[id] \in RecordStates \cup {"Absent"}
    BY <2>1, RecoveredType DEF LedgerTypeOK, Images
  <2>5. Recovered(disk')[id] \in Delivered
    BY <2>3, <2>4 DEF Rank, Delivered, RecordStates
  <2>6. records'[id] = Recovered(disk')[id] \/ records'[id] = "Absent"
    BY <2>1 DEF DiskInv, MemoryIsOnDisk
  <2>7. records'[id] # "Absent" \/ records' = Recovered(disk')
    BY <1>2, <2>2, RecordStays
  <2>. QED
    BY <2>5, <2>6, <2>7 DEF Delivered
<1>. QED
  BY <1>1, <1>2

\* A turn is sent at most once, leaves a record of it behind, and is still
\* unsent when a call is about to send it.
TurnInv ==
  /\ \A id \in Ids :
       /\ sent[id] <= 1
       /\ sent[id] > 0 => /\ records[id] \in Delivered
                          /\ Recovered(disk)[id] \in Delivered
  /\ \A c \in Calls : pc[c] = "turn" => sent[target[c]] = 0

\* Steps that send nothing and bring no call to its turn keep TurnInv.
LEMMA QuietKeepsTurns ==
  ASSUME MaxCuts <= 1, RoomForAll, LedgerTypeOK, DiskInv, [LedgerNext]_ledgerVars,
         TurnInv, sent' = sent,
         \A c \in Calls : pc'[c] = "turn" =>
                            sent[target'[c]] = 0
  PROVE  TurnInv'
<1>1. ASSUME NEW id \in Ids, sent'[id] > 0
      PROVE  records'[id] \in Delivered /\ Recovered(disk')[id] \in Delivered
  BY <1>1, DeliveredStays DEF TurnInv
<1>. QED
  BY <1>1 DEF TurnInv

\* Every step of the dispatcher keeps TurnInv.
LEMMA TurnStep ==
  ASSUME MaxCuts <= 1, RoomForAll, CallInv, DiskInv, TurnInv, [Next]_vars
  PROVE  TurnInv'
<1>. USE DEF CallInv
<1>1. LedgerTypeOK /\ [LedgerNext]_ledgerVars
  BY StepRefines DEF TypeOK
<1>2. ASSUME NEW c \in Calls, SendTurn(c)
      PROVE  TurnInv'
  <2>. DEFINE id == target[c]
  <2>1. pc[c] = "turn" /\ pc' = [pc EXCEPT ![c] = "sent"] /\ target' = target
    BY <1>2 DEF SendTurn, Goto
  <2>2. id \in Ids /\ records[id] = "ExternalStarted"
    BY <2>1 DEF TargetOK, CallOwnsRecord, OwnerSteps, GateSteps, ExpectedRecord
  <2>3. Recovered(disk)[id] = "ExternalStarted"
    BY <2>2 DEF DiskInv, MemoryIsOnDisk
  <2>4. sent[id] = 0 /\ sent' = [sent EXCEPT ![id] = 1]
    <3>1. sent[id] = 0
      BY <2>1 DEF TurnInv
    <3>2. sent' = [sent EXCEPT ![id] = sent[id] + 1]
      BY <1>2 DEF SendTurn
    <3>. QED
      BY <3>1, <3>2
  <2>5. records' = records /\ disk' = disk
    BY <1>2 DEF SendTurn, ledgerVars
  <2>6. \A j \in Ids : /\ sent'[j] <= 1
                       /\ sent'[j] > 0 => /\ records'[j] \in Delivered
                                          /\ Recovered(disk')[j] \in Delivered
    BY <2>2, <2>3, <2>4, <2>5 DEF TurnInv, Delivered, TypeOK
  <2>7. ASSUME NEW d \in Calls, pc'[d] = "turn"
        PROVE  sent'[target'[d]] = 0
    <3>1. d # c /\ pc[d] = "turn"
      BY <2>1, <2>7 DEF TypeOK
    <3>2. target[d] \in Ids /\ target[d] # id
      BY <2>1, <3>1 DEF CallOwnsRecord, OwnerSteps, GateSteps, TargetOK
    <3>. QED
      BY <2>1, <2>4, <3>1, <3>2 DEF TurnInv, TypeOK
  <2>. QED
    BY <2>6, <2>7 DEF TurnInv
<1>3. ASSUME NEW c \in Calls, StartExternal(c)
      PROVE  TurnInv'
  <2>1. /\ pc[c] = "start" /\ pc' = [pc EXCEPT ![c] = "turn"]
        /\ target' = target /\ sent' = sent
    BY <1>3 DEF StartExternal, Goto, providerVars
  <2>2. target[c] \in Ids /\ records[target[c]] = "Prepared"
    BY <2>1 DEF TargetOK, CallOwnsRecord, OwnerSteps, GateSteps, ExpectedRecord
  <2>3. sent[target[c]] = 0
    BY <2>2 DEF TurnInv, Delivered, TypeOK
  <2>4. \A d \in Calls : pc'[d] = "turn" => sent[target'[d]] = 0
    BY <2>1, <2>3 DEF TurnInv, TypeOK
  <2>. QED
    BY <1>1, <2>1, <2>4, QuietKeepsTurns
<1>4. ASSUME sent' = sent,
             \A c \in Calls : pc'[c] = "turn" => pc[c] = "turn" /\ target'[c] = target[c]
      PROVE  TurnInv'
  BY <1>1, <1>4, QuietKeepsTurns DEF TurnInv
<1>5. ASSUME NEW c \in Calls, CallStep(c), ~SendTurn(c), ~StartExternal(c)
      PROVE  TurnInv'
  <2>1. sent' = sent /\ target' = target
    BY <1>5 DEF CallStep, FindDuplicate, FindMissing, FindFails, BeginReserved,
       BeginFails, BeginActive, BeginExisting, AcquireGate, PreflightPasses,
       PreflightFails, StartFails, FinishFailed, FinishFailedUnrecorded,
       RejectLocally, TurnReplies, TurnRefused, TurnUnknown, FinishRefused,
       FinishRefusedUnrecorded, AppendReply, AppendFails, Complete,
       CompleteUnrecorded, Goto, Finish, providerVars
  <2>2. \A d \in Calls : pc'[d] = "turn" => pc[d] = "turn"
    BY <1>5 DEF CallStep, FindDuplicate, FindMissing, FindFails, BeginReserved,
       BeginFails, BeginActive, BeginExisting, AcquireGate, PreflightPasses,
       PreflightFails, StartFails, FinishFailed, FinishFailedUnrecorded,
       RejectLocally, TurnReplies, TurnRefused, TurnUnknown, FinishRefused,
       FinishRefusedUnrecorded, AppendReply, AppendFails, Complete,
       CompleteUnrecorded, Goto, Finish, TypeOK
  <2>. QED
    BY <1>4, <2>1, <2>2
<1>6. ASSUME NEW c \in Calls, NEW id \in Ids, Call(c, id)
      PROVE  TurnInv'
  BY <1>4, <1>6 DEF Call, providerVars, TypeOK
<1>7. ASSUME NEW pair, StopOver(pair)
      PROVE  TurnInv'
  BY <1>4, <1>7 DEF StopOver, providerVars
<1>8. CASE ExportRooms \/ RestoreRooms \/ UNCHANGED vars
  BY <1>4, <1>8 DEF ExportRooms, RestoreRooms, callVars, providerVars, vars
<1>. QED
  BY <1>2, <1>3, <1>5, <1>6, <1>7, <1>8 DEF Next, CrashInWrite, CrashAnywhere

\* The invariant behind the next two theorems.
LEMMA TurnInvariant ==
  ASSUME MaxCuts <= 1, RoomForAll
  PROVE  Spec => [](TypeOK /\ TurnInv)
<1>1. Init => TurnInv
  BY DEF Init, TurnInv
<1>2. CallInv /\ DiskInv /\ TurnInv /\ [Next]_vars => TurnInv'
  BY TurnStep
<1>3. Spec => []DiskInv
  BY DispatchRefinesLedger, MemoryOnDisk, PTL DEF DiskInv
<1>. QED
  BY <1>1, <1>2, <1>3, CallInvariant, PTL DEF Spec, CallInv

\* No message is ever delivered twice to a recipient: over any number of
\* concurrent calls, failed writes, Room restores, crashes and restarts.
THEOREM OneTurn ==
  ASSUME MaxCuts <= 1, RoomForAll
  PROVE  Spec => []AtMostOneTurn
<1>1. TurnInv => AtMostOneTurn
  BY DEF TurnInv, AtMostOneTurn
<1>. QED
  BY <1>1, TurnInvariant, PTL

\* A delivered turn is on record for every restart to come.
THEOREM TurnsOnRecord ==
  ASSUME MaxCuts <= 1, RoomForAll
  PROVE  Spec => []TurnIsOnRecord
<1>1. TurnInv => TurnIsOnRecord
  BY DEF TurnInv, TurnIsOnRecord, Delivered
<1>. QED
  BY <1>1, TurnInvariant, PTL

-----------------------------------------------------------------------------
(* Every owned record has a call that will release it.                       *)

\* A step that moves call c keeps the rule when every record that is owned
\* after it is the one c owns then, or was owned by another call before.
LEMMA LiveKept ==
  ASSUME CallInv, OwnershipIsLive, NEW c \in Calls, NEW to \in Steps,
         pc' = [pc EXCEPT ![c] = to], target' = target,
         \A id \in active' :
           \/ id = target[c] /\ to \in OwnerSteps
           \/ id \in active /\ (pc[c] \in OwnerSteps => id # target[c])
  PROVE  OwnershipIsLive'
<1>. SUFFICES ASSUME NEW id \in active'
              PROVE  \E d \in Calls : pc'[d] \in OwnerSteps /\ target'[d] = id
  BY DEF OwnershipIsLive, OwnerSteps, GateSteps
<1>1. pc'[c] = to /\ \A d \in Calls \ {c} : pc'[d] = pc[d]
  BY DEF CallInv, TypeOK
<1>2. CASE id = target[c] /\ to \in OwnerSteps
  BY <1>1, <1>2
<1>3. CASE id \in active /\ (pc[c] \in OwnerSteps => id # target[c])
  <2>1. PICK d \in Calls : pc[d] \in OwnerSteps /\ target[d] = id
    BY <1>3 DEF OwnershipIsLive
  <2>. QED
    BY <1>1, <1>3, <2>1
<1>. QED
  BY <1>2, <1>3

\* Every step of a call keeps the rule.
LEMMA CallStepLive ==
  ASSUME CallInv, OwnershipIsLive, NEW c \in Calls, CallStep(c)
  PROVE  OwnershipIsLive'
<1>. DEFINE id == target[c]
<1>1. ASSUME NEW from, NEW to \in Steps, Goto(c, from, to), active' = active,
             from \in OwnerSteps => to \in OwnerSteps
      PROVE  OwnershipIsLive'
  <2>1. pc[c] = from /\ pc' = [pc EXCEPT ![c] = to] /\ target' = target
    BY <1>1 DEF Goto
  <2>. QED
    BY <1>1, <2>1, LiveKept
<1>2. ASSUME NEW from, NEW answer, Finish(c, from, answer),
             \/ from \notin OwnerSteps /\ active' = active
             \/ active' = active \ {id}
      PROVE  OwnershipIsLive'
  <2>1. pc[c] = from /\ pc' = [pc EXCEPT ![c] = "idle"] /\ target' = target
    BY <1>2 DEF Finish
  <2>2. "idle" \in Steps
    BY DEF Steps
  <2>. QED
    BY <1>2, <2>1, <2>2, LiveKept
<1>3. CASE FindMissing(c) \/ AcquireGate(c) \/ PreflightPasses(c)
           \/ PreflightFails(c) \/ RejectLocally(c) \/ SendTurn(c)
           \/ TurnReplies(c) \/ TurnRefused(c) \/ AppendReply(c)
  BY <1>1, <1>3 DEF FindMissing, AcquireGate, PreflightPasses, PreflightFails,
     RejectLocally, SendTurn, TurnReplies, TurnRefused, AppendReply, Steps,
     OwnerSteps, GateSteps, ledgerVars
<1>4. CASE StartExternal(c) \/ StartFails(c)
  BY <1>1, <1>4 DEF StartExternal, StartFails, MarkExternalStarted, Transition,
     TransitionFails, Steps, OwnerSteps, GateSteps
<1>5. CASE BeginReserved(c)
  <2>1. /\ pc[c] = "begin" /\ pc' = [pc EXCEPT ![c] = "gate"] /\ target' = target
        /\ active' = active \cup {id}
    BY <1>5 DEF BeginReserved, Goto, Reserve
  <2>2. "gate" \in Steps /\ "gate" \in OwnerSteps /\ "begin" \notin OwnerSteps
    BY DEF Steps, OwnerSteps, GateSteps
  <2>. QED
    BY <2>1, <2>2, LiveKept
<1>6. CASE FindDuplicate(c) \/ FindFails(c) \/ BeginFails(c)
           \/ BeginActive(c) \/ BeginExisting(c)
  BY <1>2, <1>6 DEF FindDuplicate, FindFails, BeginFails, BeginActive,
     BeginExisting, ReserveFails, ledgerVars, OwnerSteps, GateSteps
<1>7. CASE FinishFailed(c) \/ FinishRefused(c) \/ Complete(c)
  BY <1>2, <1>7 DEF FinishFailed, FinishRefused, Complete, MarkFailed,
     MarkExternalPreflightFailed, MarkCompleted, Transition
<1>8. CASE FinishFailedUnrecorded(c) \/ FinishRefusedUnrecorded(c)
           \/ CompleteUnrecorded(c)
  BY <1>2, <1>8 DEF FinishFailedUnrecorded, FinishRefusedUnrecorded,
     CompleteUnrecorded, GiveUp
<1>9. CASE TurnUnknown(c) \/ AppendFails(c)
  BY <1>2, <1>9 DEF TurnUnknown, AppendFails, FinishUnknown
<1>. QED
  BY <1>3, <1>4, <1>5, <1>6, <1>7, <1>8, <1>9 DEF CallStep

\* A dispatch is never left "in progress" with no call working on it.
THEOREM OwnersLive == Spec => []OwnershipIsLive
<1>1. Init => OwnershipIsLive
  BY DEF Init, LedgerInit, OwnershipIsLive
<1>2. CallInv /\ OwnershipIsLive /\ [Next]_vars => OwnershipIsLive'
  <2>. SUFFICES ASSUME CallInv, OwnershipIsLive, [Next]_vars
                PROVE  OwnershipIsLive'
    OBVIOUS
  <2>1. ASSUME NEW c \in Calls, NEW id \in Ids, Call(c, id)
        PROVE  OwnershipIsLive'
    <3>1. \A d \in Calls : pc[d] \in OwnerSteps =>
            pc'[d] = pc[d] /\ target'[d] = target[d]
      BY <2>1 DEF Call, CallInv, TypeOK, OwnerSteps, GateSteps
    <3>2. active' = active
      BY <2>1 DEF Call, ledgerVars
    <3>. QED
      BY <3>1, <3>2 DEF OwnershipIsLive
  <2>2. ASSUME NEW pair, StopOver(pair)
        PROVE  OwnershipIsLive'
    BY <2>2 DEF StopOver, RestartFrom, OwnershipIsLive
  <2>3. CASE ExportRooms \/ RestoreRooms \/ UNCHANGED vars
    BY <2>3 DEF ExportRooms, RestoreRooms, OwnershipIsLive, vars, callVars, ledgerVars
  <2>. QED
    BY <2>1, <2>2, <2>3, CallStepLive DEF Next, CrashInWrite, CrashAnywhere
<1>. QED
  BY <1>1, <1>2, CallInvariant, PTL DEF Spec

-----------------------------------------------------------------------------
(* What the ledger says of a turn, against what the provider made of it.      *)

\* A ledger operation that writes no new record leaves memory, and what a
\* restart would load, as they are.
LEMMA Unwritten ==
  ASSUME MaxCuts <= 1, RoomForAll, LedgerTypeOK, DiskInv, NEW id \in Ids,
         \/ UNCHANGED ledgerVars
         \/ ReserveFails(id)
         \/ FinishUnknown(id)
         \/ \E from \in {"Prepared", "ExternalStarted"} :
              TransitionFails(id, from) \/ GiveUp(id, from)
  PROVE  records' = records /\ Recovered(disk') = Recovered(disk)
<1>1. CASE UNCHANGED ledgerVars \/ FinishUnknown(id)
  BY <1>1 DEF ledgerVars, FinishUnknown
<1>2. CASE ReserveFails(id)
  <2>1. ~Full(records)
    BY <1>2, NeverCrowded DEF Crowded, ReserveFails, IsNew
  <2>2. Pruned(records) = {records}
    BY <2>1 DEF Pruned
  <2>. QED
    BY <1>2, <2>1, <2>2, RefusedKeeps DEF ReserveFails, DiskInv
<1>3. ASSUME NEW from, TransitionFails(id, from) \/ GiveUp(id, from)
      PROVE  records' = records /\ Recovered(disk') = Recovered(disk)
  BY <1>3, RefusedKeeps DEF TransitionFails, GiveUp, DiskInv
<1>. QED
  BY <1>1, <1>2, <1>3

\* A reservation or transition that succeeds writes one record, in memory and
\* for every restart.
LEMMA Written ==
  ASSUME RoomForAll, LedgerTypeOK, DiskInv, NEW id \in Ids, NEW to \in RecordStates,
         \/ Reserve(id) /\ to = "Prepared"
         \/ \E from \in RecordStates, finish \in BOOLEAN : Transition(id, from, to, finish)
  PROVE  /\ records' = [records EXCEPT ![id] = to]
         /\ Recovered(disk') = records'
<1>1. records' = [records EXCEPT ![id] = to] /\ PersistOk(records')
  <2>1. CASE Reserve(id) /\ to = "Prepared"
    <3>1. ~Full(records)
      BY <2>1, NeverCrowded DEF Crowded, Reserve, IsNew
    <3>2. Pruned(records) = {records}
      BY <3>1 DEF Pruned
    <3>. QED
      BY <2>1, <3>2 DEF Reserve
  <2>2. ASSUME NEW from, NEW finish, Transition(id, from, to, finish)
        PROVE  records' = [records EXCEPT ![id] = to] /\ PersistOk(records')
    BY <2>2 DEF Transition
  <2>. QED
    BY <2>1, <2>2
<1>2. records' \in Images
  BY <1>1 DEF LedgerTypeOK, Images
<1>. QED
  BY <1>1, <1>2, ReplacedKeeps DEF PersistOk

\* What a call writes when it is at its next ledger operation.
WrittenState(step) ==
  CASE step = "begin" -> "Prepared"
    [] step = "start" -> "ExternalStarted"
    [] step = "complete" -> "Completed"
    [] OTHER -> "Failed"

WriteSteps == {"begin", "start", "failing", "refusing", "complete"}

\* A crash inside the write of a call comes back with the old records or with
\* the ones that were being written.
LEMMA CutWrite ==
  ASSUME MaxCuts <= 1, RoomForAll, CallInv, DiskInv, NEW c \in Calls, CrashInWrite(c)
  PROVE  /\ records' = Recovered(disk')
         /\ pc[c] \in WriteSteps
         /\ pc[c] = "begin" => records[target[c]] = "Absent"
         /\ \/ Recovered(disk') = Recovered(disk)
            \/ Recovered(disk') = [records EXCEPT ![target[c]] = WrittenState(pc[c])]
<1>. USE DEF CallInv, TypeOK, DiskInv
<1>. DEFINE id == target[c]
            written == [records EXCEPT ![id] = WrittenState(pc[c])]
<1>1. PICK next \in LedgerWrite(c) :
        \E pair \in Cut(KeepLast, disk, next) : StopOver(pair)
  BY DEF CrashInWrite
<1>2. /\ pc[c] \in WriteSteps
      /\ pc[c] = "begin" => IsNew(id)
  BY <1>1 DEF LedgerWrite, WriteSteps
<1>3. next = written
  <2>1. CASE pc[c] = "begin"
    <3>1. ~Full(records)
      <4>1. id \in Ids /\ records[id] = "Absent"
        BY <1>2, <2>1 DEF TargetOK, IsNew
      <4>. QED
        BY <4>1, NeverCrowded DEF Crowded
    <3>2. Pruned(records) = {records}
      BY <3>1 DEF Pruned
    <3>. QED
      BY <1>1, <2>1, <3>2 DEF LedgerWrite, WrittenState
  <2>2. CASE pc[c] \in {"start", "failing", "refusing", "complete"}
    BY <1>1, <2>2 DEF LedgerWrite, WrittenState
  <2>. QED
    BY <1>2, <2>1, <2>2 DEF WriteSteps
<1>4. next \in Images
  BY <1>3 DEF LedgerTypeOK, Images, WrittenState, RecordStates
<1>5. PICK pair \in Cut(KeepLast, disk, next) : RestartFrom(pair)
  BY <1>1 DEF StopOver
<1>6. LeaveFiles(pair) /\ records' = Recovered(disk')
  BY <1>5 DEF RestartFrom, LeaveFiles
<1>. QED
  BY <1>2, <1>3, <1>4, <1>6, CutKeeps DEF IsNew

\* What a record may say of a turn that the provider has made p of.
Honest(state, p) ==
  /\ state \in {"Absent", "Prepared"} => p = "never"
  /\ state = "Failed" => p \in {"never", "refused"}

\* The records in memory and the ones a restart would load are honest, and a
\* call knows what it is about to do: its turn is unsent, its refusal is real.
HonestInv ==
  /\ \A id \in Ids : /\ Honest(records[id], provider[id])
                     /\ Honest(Recovered(disk)[id], provider[id])
  /\ \A c \in Calls :
       /\ pc[c] = "turn" => provider[target[c]] = "never"
       /\ pc[c] = "refusing" => provider[target[c]] \in {"never", "refused"}

\* A step of call c that asks the provider nothing keeps the records honest when
\* the record it writes, if any, is honest.
LEMMA RecordsHonest ==
  ASSUME LedgerTypeOK, HonestInv, provider' = provider,
         \/ records' = records /\ Recovered(disk') = Recovered(disk)
         \/ records' = Recovered(disk) /\ Recovered(disk') = Recovered(disk)
         \/ \E id \in Ids, to \in RecordStates :
              /\ records' = [records EXCEPT ![id] = to]
              /\ Recovered(disk') = records'
              /\ Honest(to, provider[id])
  PROVE  \A id \in Ids : /\ Honest(records'[id], provider'[id])
                         /\ Honest(Recovered(disk')[id], provider'[id])
<1>1. ASSUME NEW id \in Ids, NEW to, NEW j \in Ids, Honest(to, provider[id])
      PROVE  Honest([records EXCEPT ![id] = to][j], provider[j])
  <2>1. CASE j = id
    BY <1>1, <2>1 DEF LedgerTypeOK, Images
  <2>2. CASE j # id
    BY <2>2 DEF LedgerTypeOK, Images, HonestInv
  <2>. QED
    BY <2>1, <2>2
<1>. QED
  BY <1>1 DEF HonestInv

\* A step in which the provider makes something of the turn of call c: the record
\* says that the turn was started, and no other call is at the same dispatch.
LEMMA ProviderMoves ==
  ASSUME CallInv, DiskInv, HonestInv, NEW c \in Calls, pc[c] \in {"turn", "sent"},
         NEW to, to # "turn", pc' = [pc EXCEPT ![c] = to], target' = target,
         UNCHANGED ledgerVars,
         NEW p, provider' = [provider EXCEPT ![target[c]] = p],
         to = "refusing" => p = "refused"
  PROVE  HonestInv'
<1>. USE DEF CallInv, TypeOK
<1>. DEFINE id == target[c]
<1>1. records' = records /\ disk' = disk
  BY DEF ledgerVars
<1>2. id \in Ids /\ records[id] = "ExternalStarted"
  BY DEF TargetOK, CallOwnsRecord, OwnerSteps, GateSteps, ExpectedRecord
<1>3. Recovered(disk)[id] = "ExternalStarted"
  BY <1>2 DEF DiskInv, MemoryIsOnDisk
<1>4. ASSUME NEW j \in Ids
      PROVE  /\ Honest(records'[j], provider'[j])
             /\ Honest(Recovered(disk')[j], provider'[j])
  <2>1. CASE j = id
    BY <1>1, <1>2, <1>3, <2>1 DEF Honest
  <2>2. CASE j # id
    BY <1>1, <2>2 DEF HonestInv
  <2>. QED
    BY <2>1, <2>2
<1>5. ASSUME NEW d \in Calls, pc'[d] \in {"turn", "refusing"}
      PROVE  /\ pc'[d] = "turn" => provider'[target'[d]] = "never"
             /\ pc'[d] = "refusing" => provider'[target'[d]] \in {"never", "refused"}
  <2>1. CASE d = c
    <3>1. pc'[d] = to
      BY <2>1
    <3>. QED
      BY <1>2, <1>5, <2>1, <3>1
  <2>2. CASE d # c
    <3>1. pc'[d] = pc[d]
      BY <2>2
    <3>2. target[d] # id
      BY <1>5, <2>2, <3>1 DEF CallOwnsRecord, OwnerSteps, GateSteps
    <3>3. provider'[target'[d]] = provider[target[d]]
      BY <3>2
    <3>. QED
      BY <3>1, <3>3 DEF HonestInv
  <2>. QED
    BY <2>1, <2>2
<1>. QED
  BY <1>4, <1>5 DEF HonestInv

\* Every step of a call keeps the records honest.
LEMMA CallStepHonest ==
  ASSUME MaxCuts <= 1, RoomForAll, CallInv, DiskInv, HonestInv,
         NEW c \in Calls, CallStep(c)
  PROVE  HonestInv'
<1>. USE DEF CallInv
<1>. DEFINE id == target[c]
            Same == records' = records /\ Recovered(disk') = Recovered(disk)
<1>0. LedgerTypeOK /\ (pc[c] # "idle" => id \in Ids)
  BY DEF TypeOK, TargetOK
<1>1. ASSUME provider' = provider, target' = target, NEW to, pc' = [pc EXCEPT ![c] = to],
             to = "turn" => provider[id] = "never",
             to = "refusing" => provider[id] \in {"never", "refused"},
             \A j \in Ids : /\ Honest(records'[j], provider'[j])
                            /\ Honest(Recovered(disk')[j], provider'[j])
      PROVE  HonestInv'
  BY <1>1 DEF HonestInv, TypeOK
<1>2. ASSUME provider' = provider, Same, target' = target, NEW to,
             pc' = [pc EXCEPT ![c] = to],
             to = "turn" => provider[id] = "never",
             to = "refusing" => provider[id] \in {"never", "refused"}
      PROVE  HonestInv'
  BY <1>0, <1>1, <1>2, RecordsHonest
<1>. DEFINE Kept == \A j \in Ids : /\ Honest(records'[j], provider'[j])
                                   /\ Honest(Recovered(disk')[j], provider'[j])
<1>3. ASSUME provider' = provider, pc[c] # "idle", NEW to \in RecordStates,
             \/ Reserve(id) /\ to = "Prepared"
             \/ \E from \in RecordStates, finish \in BOOLEAN : Transition(id, from, to, finish),
             Honest(to, provider[id])
      PROVE  Kept
  <2>1. records' = [records EXCEPT ![id] = to] /\ Recovered(disk') = records'
    BY <1>0, <1>3, Written
  <2>. QED
    BY <1>0, <1>3, <2>1, RecordsHonest
<1>4. CASE SendTurn(c) \/ TurnReplies(c) \/ TurnRefused(c)
  BY <1>4, ProviderMoves DEF SendTurn, TurnReplies, TurnRefused, Goto
<1>5. CASE FindDuplicate(c) \/ FindMissing(c) \/ FindFails(c) \/ BeginActive(c)
           \/ BeginExisting(c) \/ AcquireGate(c) \/ PreflightPasses(c)
           \/ PreflightFails(c) \/ AppendReply(c)
  BY <1>5, <1>2 DEF FindDuplicate, FindMissing, FindFails, BeginActive,
     BeginExisting, AcquireGate, PreflightPasses, PreflightFails, AppendReply,
     Goto, Finish, ledgerVars, providerVars
<1>6. CASE RejectLocally(c)
  BY <1>6, <1>2 DEF RejectLocally, Goto, ledgerVars, providerVars, HonestInv
<1>7. CASE BeginFails(c)
  <2>1. Same
    BY <1>0, <1>7, Unwritten DEF BeginFails, Finish
  <2>. QED
    BY <1>2, <1>7, <2>1 DEF BeginFails, Finish, providerVars
<1>8. CASE StartFails(c) \/ FinishFailedUnrecorded(c) \/ FinishRefusedUnrecorded(c)
           \/ CompleteUnrecorded(c)
  <2>1. pc[c] # "idle" /\ \E from \in {"Prepared", "ExternalStarted"} :
          TransitionFails(id, from) \/ GiveUp(id, from)
    BY <1>8 DEF StartFails, FinishFailedUnrecorded, FinishRefusedUnrecorded,
       CompleteUnrecorded, Goto, Finish
  <2>2. Same
    BY <1>0, <2>1, Unwritten
  <2>. QED
    BY <1>2, <1>8, <2>2 DEF StartFails, FinishFailedUnrecorded,
       FinishRefusedUnrecorded, CompleteUnrecorded, Goto, Finish, providerVars
<1>9. CASE TurnUnknown(c) \/ AppendFails(c)
  <2>1. Same
    BY <1>9 DEF TurnUnknown, AppendFails, FinishUnknown
  <2>. QED
    BY <1>2, <1>9, <2>1 DEF TurnUnknown, AppendFails, Finish, providerVars
<1>10. pc[c] \in OwnerSteps => id \in Ids /\ records[id] = ExpectedRecord(pc[c])
  BY <1>0 DEF CallOwnsRecord, OwnerSteps, GateSteps
<1>11. CASE BeginReserved(c)
  <2>1. /\ pc[c] = "begin" /\ pc' = [pc EXCEPT ![c] = "gate"]
        /\ target' = target /\ provider' = provider
        /\ records[id] = "Absent" /\ Reserve(id)
    BY <1>11 DEF BeginReserved, Goto, Reserve, IsNew, providerVars
  <2>2. Honest("Prepared", provider[id]) /\ "Prepared" \in RecordStates
    BY <1>0, <2>1 DEF HonestInv, Honest, RecordStates
  <2>3. Kept
    BY <1>3, <2>1, <2>2
  <2>. QED
    BY <1>1, <2>1, <2>3
<1>12. CASE StartExternal(c)
  <2>1. /\ pc[c] = "start" /\ pc' = [pc EXCEPT ![c] = "turn"]
        /\ target' = target /\ provider' = provider
        /\ Transition(id, "Prepared", "ExternalStarted", FALSE)
    BY <1>12 DEF StartExternal, Goto, MarkExternalStarted, providerVars
  <2>2. provider[id] = "never"
    BY <1>0, <2>1 DEF HonestInv, Honest, Transition
  <2>3. Honest("ExternalStarted", provider[id])
    BY DEF Honest
  <2>4. "Prepared" \in RecordStates /\ "ExternalStarted" \in RecordStates
    BY DEF RecordStates
  <2>5. \E from \in RecordStates, finish \in BOOLEAN :
          Transition(id, from, "ExternalStarted", finish)
    BY <2>1, <2>4
  <2>6. Kept
    BY <1>3, <2>1, <2>3, <2>4, <2>5
  <2>. QED
    BY <1>1, <2>1, <2>2, <2>6
<1>13. ASSUME NEW from \in RecordStates, NEW to \in RecordStates,
              Transition(id, from, to, TRUE), Honest(to, provider[id]),
              NEW step, NEW answer, Finish(c, step, answer), step # "idle",
              UNCHANGED providerVars
       PROVE  HonestInv'
  <2>1. /\ pc[c] = step /\ pc' = [pc EXCEPT ![c] = "idle"]
        /\ target' = target /\ provider' = provider
    BY <1>13 DEF Finish, providerVars
  <2>2. \E state \in RecordStates, finish \in BOOLEAN : Transition(id, state, to, finish)
    BY <1>13
  <2>3. Kept
    BY <1>3, <1>13, <2>1, <2>2
  <2>. QED
    BY <1>1, <2>1, <2>3
<1>14. /\ "Prepared" \in RecordStates /\ "ExternalStarted" \in RecordStates
       /\ "Failed" \in RecordStates /\ "Completed" \in RecordStates
  BY DEF RecordStates
<1>15. CASE FinishFailed(c)
  <2>1. /\ pc[c] = "failing" /\ Transition(id, "Prepared", "Failed", TRUE)
        /\ Finish(c, "failing", "Failed") /\ UNCHANGED providerVars
    BY <1>15 DEF FinishFailed, Finish, MarkFailed
  <2>2. Honest("Failed", provider[id])
    BY <1>0, <2>1 DEF HonestInv, Honest, Transition
  <2>. QED
    BY <1>13, <1>14, <2>1, <2>2
<1>16. CASE FinishRefused(c)
  <2>1. /\ pc[c] = "refusing" /\ Transition(id, "ExternalStarted", "Failed", TRUE)
        /\ Finish(c, "refusing", "Failed") /\ UNCHANGED providerVars
    BY <1>16 DEF FinishRefused, Finish, MarkExternalPreflightFailed
  <2>2. Honest("Failed", provider[id])
    BY <2>1 DEF HonestInv, Honest
  <2>. QED
    BY <1>13, <1>14, <2>1, <2>2
<1>17. CASE Complete(c)
  <2>1. /\ Transition(id, "ExternalStarted", "Completed", TRUE)
        /\ Finish(c, "complete", "Completed") /\ UNCHANGED providerVars
    BY <1>17 DEF Complete, MarkCompleted
  <2>2. Honest("Completed", provider[id])
    BY DEF Honest
  <2>. QED
    BY <1>13, <1>14, <2>1, <2>2
<1>. QED
  BY <1>4, <1>5, <1>6, <1>7, <1>8, <1>9, <1>11, <1>12, <1>15, <1>16, <1>17
  DEF CallStep

\* Every step of the dispatcher keeps the records honest.
LEMMA HonestStep ==
  ASSUME MaxCuts <= 1, RoomForAll, CallInv, DiskInv, HonestInv, [Next]_vars
  PROVE  HonestInv'
<1>. USE DEF CallInv, TypeOK
<1>1. ASSUME NEW c \in Calls, NEW id \in Ids, Call(c, id)
      PROVE  HonestInv'
  BY <1>1 DEF Call, HonestInv, ledgerVars, providerVars
<1>2. ASSUME NEW pair, StopOver(pair),
             \/ records' = Recovered(disk) /\ Recovered(disk') = Recovered(disk)
             \/ \E id \in Ids, to \in RecordStates :
                  /\ records' = [records EXCEPT ![id] = to]
                  /\ Recovered(disk') = records'
                  /\ Honest(to, provider[id])
      PROVE  HonestInv'
  <2>1. provider' = provider /\ pc' = [c \in Calls |-> "idle"]
    BY <1>2 DEF StopOver, providerVars
  <2>2. \A id \in Ids : /\ Honest(records'[id], provider'[id])
                        /\ Honest(Recovered(disk')[id], provider'[id])
    BY <1>2, <2>1, RecordsHonest
  <2>. QED
    BY <2>1, <2>2 DEF HonestInv
<1>3. CASE CrashAnywhere
  <2>1. RestartFrom(disk) /\ LeaveFiles(disk)
    BY <1>3 DEF CrashAnywhere, StopOver, RestartFrom
  <2>2. Recovered(disk') = Recovered(disk) /\ records' = Recovered(disk)
    BY <2>1, StoppedKeeps DEF RestartFrom, DiskInv
  <2>. QED
    BY <1>2, <1>3, <2>2 DEF CrashAnywhere
<1>4. ASSUME NEW c \in Calls, CrashInWrite(c)
      PROVE  HonestInv'
  <2>. DEFINE id == target[c]
  <2>1. /\ records' = Recovered(disk') /\ pc[c] \in WriteSteps
        /\ pc[c] = "begin" => records[id] = "Absent"
        /\ \/ Recovered(disk') = Recovered(disk)
           \/ Recovered(disk') = [records EXCEPT ![id] = WrittenState(pc[c])]
    BY <1>4, CutWrite
  <2>2. id \in Ids /\ WrittenState(pc[c]) \in RecordStates
    BY <2>1 DEF TargetOK, WriteSteps, WrittenState, RecordStates
  <2>3. pc[c] = "failing" => records[id] = "Prepared"
    BY DEF CallOwnsRecord, OwnerSteps, GateSteps, ExpectedRecord
  <2>4. Honest(WrittenState(pc[c]), provider[id])
    BY <2>1, <2>2, <2>3 DEF HonestInv, Honest, WrittenState, WriteSteps
  <2>5. PICK pair : StopOver(pair)
    BY <1>4 DEF CrashInWrite
  <2>. QED
    BY <1>2, <2>1, <2>2, <2>4, <2>5
<1>5. CASE ExportRooms \/ RestoreRooms \/ UNCHANGED vars
  BY <1>5 DEF ExportRooms, RestoreRooms, HonestInv, vars, callVars, ledgerVars,
     providerVars
<1>. QED
  BY <1>1, <1>3, <1>4, <1>5, CallStepHonest DEF Next

\* The invariant behind the next two theorems.
LEMMA HonestInvariant ==
  ASSUME MaxCuts <= 1, RoomForAll
  PROVE  Spec => [](CallInv /\ DiskInv /\ HonestInv)
<1>1. Init => HonestInv
  BY DEF Init, LedgerInit, HonestInv, Honest, NoRecords, Recovered, Loaded, NoFiles
<1>2. CallInv /\ DiskInv /\ HonestInv /\ [Next]_vars => HonestInv'
  BY HonestStep
<1>3. Spec => []DiskInv
  BY DispatchRefinesLedger, MemoryOnDisk, PTL DEF DiskInv
<1>. QED
  BY <1>1, <1>2, <1>3, CallInvariant, PTL DEF Spec

\* A turn that was delivered and whose reply is not in the Room is reported as
\* unknown: after any restart, restore or failed write, for every participant.
THEOREM TurnsNotForgotten ==
  ASSUME MaxCuts <= 1, RoomForAll
  PROVE  Spec => []NoTurnForgotten
<1>1. CallInv /\ HonestInv => NoTurnForgotten
  BY DEF CallInv, TypeOK, LedgerTypeOK, Images, RecordStates, HonestInv, Honest,
     NoTurnForgotten, Unknowns, Unresolved
<1>. QED
  BY <1>1, HonestInvariant, PTL

-----------------------------------------------------------------------------
(* What the caller is told stays true.                                      *)

\* A dispatch nobody owns, and whose record keeps anyone from reserving it or
\* from starting its turn again.
Settled(id) == id \in Ids \ active /\ records[id] \in {"Prepared", "Failed"}

SettledInv == \A c \in Calls : result[c] \in {"Failed", "PreviouslyFailed"} => Settled(target[c])

\* A settled dispatch stays settled over every step of every call.
LEMMA SettledStays ==
  ASSUME MaxCuts <= 1, RoomForAll, CallInv, DiskInv, NEW c \in Calls, CallStep(c),
         NEW id, Settled(id)
  PROVE  Settled(id)'
<1>. USE DEF CallInv, TypeOK, Settled
<1>1. pc[c] # "idle" => target[c] \in Ids
  BY DEF TargetOK
<1>2. ASSUME records' = records, active' \subseteq active
      PROVE  Settled(id)'
  BY <1>2
<1>3. CASE BeginReserved(c)
  <2>1. pc[c] = "begin" /\ Reserve(target[c])
    BY <1>3 DEF BeginReserved, Goto
  <2>2. /\ records' = [records EXCEPT ![target[c]] = "Prepared"]
        /\ active' = active \cup {target[c]} /\ records[target[c]] = "Absent"
    <3>1. "Prepared" \in RecordStates
      BY DEF RecordStates
    <3>. QED
      BY <1>1, <2>1, <3>1, Written DEF Reserve, IsNew
  <2>. QED
    BY <1>1, <2>1, <2>2
<1>4. CASE BeginFails(c) \/ StartFails(c) \/ FinishFailedUnrecorded(c)
           \/ FinishRefusedUnrecorded(c) \/ CompleteUnrecorded(c)
           \/ TurnUnknown(c) \/ AppendFails(c)
  <2>1. /\ pc[c] # "idle"
        /\ \/ UNCHANGED ledgerVars \/ ReserveFails(target[c]) \/ FinishUnknown(target[c])
           \/ \E from \in {"Prepared", "ExternalStarted"} :
                TransitionFails(target[c], from) \/ GiveUp(target[c], from)
    BY <1>4 DEF BeginFails, StartFails, FinishFailedUnrecorded,
       FinishRefusedUnrecorded, CompleteUnrecorded, TurnUnknown, AppendFails,
       Goto, Finish
  <2>2. records' = records
    BY <1>1, <2>1, Unwritten
  <2>3. active' \subseteq active
    BY <2>1 DEF ledgerVars, ReserveFails, FinishUnknown, TransitionFails, GiveUp
  <2>. QED
    BY <1>2, <2>2, <2>3
<1>5. CASE StartExternal(c) \/ FinishFailed(c) \/ FinishRefused(c) \/ Complete(c)
  <2>1. \E from, to, finish : Transition(target[c], from, to, finish)
    BY <1>5 DEF StartExternal, FinishFailed, FinishRefused, Complete,
       MarkExternalStarted, MarkFailed, MarkExternalPreflightFailed, MarkCompleted
  <2>2. target[c] # id /\ active' \subseteq active
    BY <2>1 DEF Transition
  <2>3. records'[id] = records[id]
    BY <2>1, <2>2 DEF Transition, LedgerTypeOK, Images
  <2>. QED
    BY <2>2, <2>3
<1>6. CASE \/ FindDuplicate(c) \/ FindMissing(c) \/ FindFails(c)
           \/ BeginActive(c) \/ BeginExisting(c)
           \/ AcquireGate(c) \/ PreflightPasses(c) \/ PreflightFails(c)
           \/ SendTurn(c) \/ RejectLocally(c)
           \/ TurnReplies(c) \/ TurnRefused(c) \/ AppendReply(c)
  BY <1>2, <1>6 DEF FindDuplicate, FindMissing, FindFails, BeginActive,
     BeginExisting, AcquireGate, PreflightPasses, PreflightFails, SendTurn,
     RejectLocally, TurnReplies, TurnRefused, AppendReply, ledgerVars
<1>. QED
  BY <1>3, <1>4, <1>5, <1>6 DEF CallStep

\* A call that answers "failed" leaves its dispatch settled.
LEMMA FailureSettles ==
  ASSUME CallInv, NEW c \in Calls, CallStep(c), result'[c] # result[c],
         result'[c] \in {"Failed", "PreviouslyFailed"}
  PROVE  /\ target[c] \in Ids \ active'
         /\ records'[target[c]] \in {"Prepared", "Failed"}
<1>. USE DEF CallInv, TypeOK
<1>. DEFINE id == target[c]
<1>1. \/ BeginExisting(c) \/ FinishFailed(c) \/ FinishFailedUnrecorded(c)
      \/ FinishRefused(c)
  BY DEF CallStep, FindDuplicate, FindMissing, FindFails, BeginReserved,
     BeginFails, BeginActive, AcquireGate, PreflightPasses, PreflightFails,
     StartExternal, StartFails, SendTurn, RejectLocally, TurnReplies, TurnRefused,
     TurnUnknown, FinishRefusedUnrecorded, AppendReply, AppendFails, Complete,
     CompleteUnrecorded, Goto, Finish
<1>2. id \in Ids /\ target' = target
  BY <1>1 DEF BeginExisting, FinishFailed, FinishFailedUnrecorded, FinishRefused,
     Finish, TargetOK
<1>3. CASE BeginExisting(c)
  <2>1. /\ result'[c] = AnswerOfRecord(records[id])
        /\ IsExisting(id) /\ records' = records /\ active' = active
    BY <1>3 DEF BeginExisting, Finish, ledgerVars
  <2>2. records[id] \in {"Prepared", "Failed"}
    <3>1. result'[c] \in {"PreviouslyFailed", "OutcomeUnknown", "ReplyMissing"}
      BY <2>1 DEF AnswerOfRecord
    <3>2. AnswerOfRecord(records[id]) = "PreviouslyFailed"
      BY <2>1, <3>1
    <3>. QED
      BY <3>2 DEF AnswerOfRecord
  <2>. QED
    BY <1>2, <2>1, <2>2 DEF Settled, IsExisting
<1>4. CASE FinishFailed(c) \/ FinishRefused(c)
  <2>1. /\ records' = [records EXCEPT ![id] = "Failed"]
        /\ active' = active \ {id}
    BY <1>4 DEF FinishFailed, FinishRefused, MarkFailed,
       MarkExternalPreflightFailed, Transition
  <2>. QED
    BY <1>2, <2>1 DEF Settled, LedgerTypeOK, Images
<1>5. CASE FinishFailedUnrecorded(c)
  BY <1>2, <1>5 DEF FinishFailedUnrecorded, GiveUp, Settled
<1>. QED
  BY <1>1, <1>3, <1>4, <1>5

\* Every step of the dispatcher keeps what was answered settled.
LEMMA SettledStep ==
  ASSUME MaxCuts <= 1, RoomForAll, CallInv, DiskInv, SettledInv, [Next]_vars
  PROVE  SettledInv'
<1>. USE DEF CallInv, TypeOK
<1>1. ASSUME NEW c \in Calls, CallStep(c)
      PROVE  SettledInv'
  <2>. SUFFICES ASSUME NEW d \in Calls, result'[d] \in {"Failed", "PreviouslyFailed"}
                PROVE  /\ target'[d] \in Ids \ active'
                       /\ records'[target'[d]] \in {"Prepared", "Failed"}
    BY DEF SettledInv, Settled
  <2>1. target' = target
    BY <1>1, CallStepType
  <2>2. CASE result'[d] = result[d]
    <3>1. Settled(target[d])
      BY <2>2 DEF SettledInv
    <3>2. \A id : Settled(id) => Settled(id)'
      BY <1>1, SettledStays
    <3>. QED
      BY <2>1, <3>1, <3>2 DEF Settled
  <2>3. CASE result'[d] # result[d]
    <3>1. d = c
      BY <1>1, <2>3 DEF CallStep, FindDuplicate, FindMissing, FindFails,
         BeginReserved, BeginFails, BeginActive, BeginExisting, AcquireGate,
         PreflightPasses, PreflightFails, StartExternal, StartFails, FinishFailed,
         FinishFailedUnrecorded, SendTurn, RejectLocally, TurnReplies, TurnRefused,
         TurnUnknown, FinishRefused, FinishRefusedUnrecorded, AppendReply,
         AppendFails, Complete, CompleteUnrecorded, Goto, Finish
    <3>. QED
      BY <1>1, <2>1, <2>3, <3>1, FailureSettles DEF Settled
  <2>. QED
    BY <2>2, <2>3
<1>2. ASSUME NEW c \in Calls, NEW id \in Ids, Call(c, id)
      PROVE  SettledInv'
  BY <1>2 DEF Call, SettledInv, Settled, ledgerVars
<1>3. ASSUME NEW pair, StopOver(pair)
      PROVE  SettledInv'
  BY <1>3 DEF StopOver, SettledInv
<1>4. CASE ExportRooms \/ RestoreRooms \/ UNCHANGED vars
  BY <1>4 DEF ExportRooms, RestoreRooms, SettledInv, Settled, vars, callVars, ledgerVars
<1>. QED
  BY <1>1, <1>2, <1>3, <1>4 DEF Next, CrashInWrite, CrashAnywhere

\* A command that says "failed" is right for good: the provider never got the
\* turn, or refused it, and no other call will deliver it.
THEOREM FailuresConfirmed ==
  ASSUME MaxCuts <= 1, RoomForAll
  PROVE  Spec => []FailureIsConfirmed
<1>1. Init => SettledInv
  BY DEF Init, SettledInv
<1>2. CallInv /\ DiskInv /\ SettledInv /\ [Next]_vars => SettledInv'
  BY SettledStep
<1>3. HonestInv /\ SettledInv => FailureIsConfirmed
  BY DEF HonestInv, Honest, SettledInv, Settled, FailureIsConfirmed
<1>. QED
  BY <1>1, <1>2, <1>3, HonestInvariant, PTL DEF Spec
=============================================================================
