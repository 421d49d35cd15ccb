------------------------- MODULE SnapshotStore_proofs -------------------------
(***************************************************************************)
(* Theorems about a snapshot store for every set of contents and every        *)
(* number of interrupted replacements.  A store that keeps a lone backup       *)
(* (KeepLast, six of the desktop's stores) implements DurableCell; one that    *)
(* does not may lose its value in a second interrupted replacement.           *)
(***************************************************************************)
EXTENDS SnapshotStore, TLAPS

-----------------------------------------------------------------------------
(* The file pair.                                                           *)

\* The steps of persist() lead from store files to store files.
LEMMA StepsOfPersistType ==
  ASSUME NEW pair \in FilePairs(Values), NEW image \in Values
  PROVE  /\ RemoveBackup(KeepLast, pair) \in FilePairs(Values)
         /\ MoveAside(pair) \in FilePairs(Values)
         /\ Install(pair, image) \in FilePairs(Values)
         /\ PutBack(pair) \in FilePairs(Values)
BY DEF FilePairs, RemoveBackup, MoveAside, Install, PutBack

\* No step before the last one changes what a restart would load: the only
\* readable file is moved or put back, and a lone backup is never removed.
LEMMA LoadedKept ==
  ASSUME KeepLast, NEW pair \in FilePairs(Values)
  PROVE  /\ Loaded(RemoveBackup(KeepLast, pair)) = Loaded(pair)
         /\ Loaded(MoveAside(pair)) = Loaded(pair)
         /\ Loaded(PutBack(pair)) = Loaded(pair)
BY DEF FilePairs, Loaded, RemoveBackup, MoveAside, PutBack

\* The last step makes the new content the one a restart would load.
LEMMA LoadedInstalled ==
  ASSUME NEW pair \in FilePairs(Values), NEW image \in Values
  PROVE  image # NoFile /\ Loaded(Install(pair, image)) = image
BY StoreConstants DEF FilePairs, Loaded, Install

-----------------------------------------------------------------------------
(* Types.                                                                   *)

Writing == {"written", "cleared", "aside", "installed"}

\* A persist has a temporary file exactly while it runs.
TempOK == (stage \in Writing => temp \in Values) /\ (stage \notin Writing => temp = NoFile)

\* The number of cuts stays a number when a persist stops.
LEMMA StopType ==
  ASSUME TypeOK, NEW pair \in FilePairs(Values), StopAt(pair)
  PROVE  files' \in FilePairs(Values) /\ cuts' \in 0..MaxCuts
<1>1. cuts' \in Nat /\ cuts' <= MaxCuts
  BY StoreConstants DEF StopAt, TypeOK
<1>. QED
  BY <1>1, StoreConstants DEF StopAt

\* A restart reads a content of the store.
LEMMA StoredType == files \in FilePairs(Values) => Stored \in Values
BY StoreConstants DEF Stored, Loaded, FilePairs

\* Every step keeps the types and the rule about the temporary file.
LEMMA TypeStep ==
  ASSUME TypeOK, TempOK, [Next]_vars
  PROVE  TypeOK' /\ TempOK'
<1>. USE DEF TypeOK, TempOK, Writing, Stages
<1>1. ASSUME NEW v \in Values, WriteTemp(v)
      PROVE  TypeOK' /\ TempOK'
  BY <1>1 DEF WriteTemp
<1>2. CASE ClearBackup
  BY <1>2, StepsOfPersistType DEF ClearBackup
<1>3. CASE SetAside
  BY <1>3, StepsOfPersistType DEF SetAside
<1>4. CASE InstallTemp
  <2>1. temp \in Values
    BY <1>4 DEF InstallTemp
  <2>2. files' \in FilePairs(Values) /\ cuts' \in 0..MaxCuts
    BY <1>4, <2>1, StepsOfPersistType, StoreConstants DEF InstallTemp
  <2>. QED
    BY <1>4, <2>1, <2>2 DEF InstallTemp
<1>5. CASE Return
  BY <1>5 DEF Return
<1>6. ASSUME NEW pair \in FilePairs(Values), Fail(pair)
      PROVE  TypeOK' /\ TempOK'
  <2>1. files' \in FilePairs(Values) /\ cuts' \in 0..MaxCuts
    BY <1>6, StopType DEF Fail
  <2>. QED
    BY <1>6, <2>1 DEF Fail
<1>7. CASE ClearBackupFails \/ SetAsideFails \/ InstallFails
  BY <1>6, <1>7, StepsOfPersistType DEF ClearBackupFails, SetAsideFails, InstallFails
<1>8. CASE Crash
  <2>1. files' \in FilePairs(Values) /\ cuts' \in 0..MaxCuts
    BY <1>8, StopType DEF Crash
  <2>. QED
    BY <1>8, <2>1, StoreConstants DEF Crash
<1>9. CASE Restart
  BY <1>9, StoredType DEF Restart
<1>10. CASE UNCHANGED vars
  BY <1>10 DEF vars
<1>. QED
  BY <1>1, <1>2, <1>3, <1>4, <1>5, <1>7, <1>8, <1>9, <1>10 DEF Next

\* The store's state stays well typed.
LEMMA TypeInvariant == Spec => [](TypeOK /\ TempOK)
<1>1. Init => TypeOK /\ TempOK
  BY StoreConstants
  DEF Init, TypeOK, TempOK, Stages, Writing, FilePairs, NoFiles
<1>2. TypeOK /\ TempOK /\ [Next]_vars => TypeOK' /\ TempOK'
  BY TypeStep
<1>. QED
  BY <1>1, <1>2, PTL DEF Spec

\* Types of the store, whether or not it keeps a lone backup.
THEOREM StoreTypeCorrect == Spec => []TypeOK
BY TypeInvariant, PTL

-----------------------------------------------------------------------------
(* Durability and the refinement of DurableCell.                            *)

\* What the files hold while a persist runs: the old content, which memory
\* still has, up to the last rename, and the new one after it.
ContentInv ==
  /\ stage \in {"idle", "written", "cleared", "aside"} => memory = Stored
  /\ stage = "installed" => Stored = temp

\* What a step does to the value a restart would read: it changes only when the
\* last rename has been done, to the value being written.
LEMMA StoredStep ==
  ASSUME KeepLast, TypeOK, TempOK, Next
  PROVE  \/ ~InstallTemp /\ Stored' = Stored
         \/ InstallTemp /\ Stored' = temp /\ temp' = temp
<1>. USE DEF TypeOK
<1>1. ASSUME Loaded(files') = Loaded(files), ~InstallTemp
      PROVE  ~InstallTemp /\ Stored' = Stored
  BY <1>1 DEF Stored
<1>2. CASE InstallTemp
  <2>1. temp \in Values
    BY <1>2 DEF InstallTemp, TempOK, Writing
  <2>. QED
    BY <1>2, <2>1, LoadedInstalled DEF InstallTemp, Stored
<1>3. CASE ClearBackup \/ SetAside
  BY <1>1, <1>3, LoadedKept DEF ClearBackup, SetAside, InstallTemp
<1>4. CASE ClearBackupFails \/ SetAsideFails \/ InstallFails
  <2>1. Loaded(files') = Loaded(files) /\ stage' = "idle"
    BY <1>4, LoadedKept DEF ClearBackupFails, SetAsideFails, InstallFails, Fail, StopAt
  <2>. QED
    BY <1>1, <2>1 DEF InstallTemp
<1>5. CASE (\E v \in Values : WriteTemp(v)) \/ Return \/ Crash \/ Restart
  <2>1. files' = files /\ stage' # "installed"
    BY <1>5 DEF WriteTemp, Return, Crash, StopAt, Restart
  <2>. QED
    BY <1>1, <2>1 DEF InstallTemp
<1>. QED
  BY <1>2, <1>3, <1>4, <1>5 DEF Next

\* Every step keeps the relation between memory, files and temporary file.
LEMMA ContentStep ==
  ASSUME KeepLast, TypeOK, TempOK, ContentInv, [Next]_vars
  PROVE  ContentInv'
<1>. USE DEF ContentInv
<1>1. CASE UNCHANGED vars
  BY <1>1 DEF vars, Stored
<1>2. CASE InstallTemp
  BY <1>2, StoredStep DEF InstallTemp, Next
<1>3. CASE Return
  BY <1>3, StoredStep DEF Return, InstallTemp, Next
<1>4. CASE Restart
  BY <1>4, StoredStep DEF Restart, InstallTemp, Next
<1>5. CASE Crash
  BY <1>5 DEF Crash
<1>6. CASE \/ \E v \in Values : WriteTemp(v)
           \/ ClearBackup \/ SetAside
           \/ ClearBackupFails \/ SetAsideFails \/ InstallFails
  <2>1. /\ stage \in {"idle", "written", "cleared", "aside"} /\ memory' = memory
        /\ stage' # "installed"
    BY <1>6 DEF WriteTemp, ClearBackup, SetAside, ClearBackupFails, SetAsideFails,
       InstallFails, Fail
  <2>2. Stored' = Stored
    BY <1>6, <2>1, StoredStep DEF InstallTemp, Next
  <2>. QED
    BY <2>1, <2>2
<1>. QED
  BY <1>1, <1>2, <1>3, <1>4, <1>5, <1>6 DEF Next

\* The invariant behind the next two theorems.
LEMMA ContentInvariant ==
  ASSUME KeepLast
  PROVE  Spec => [](TypeOK /\ TempOK /\ ContentInv)
<1>1. Init => ContentInv
  BY DEF Init, ContentInv, Stored, Loaded, NoFiles
<1>2. TypeOK /\ TempOK /\ ContentInv /\ [Next]_vars => ContentInv'
  BY ContentStep
<1>. QED
  BY <1>1, <1>2, TypeInvariant, PTL DEF Spec

\* Between two writes the commands are served what a restart would read, after
\* any number of failed and interrupted replacements.
THEOREM MemoryDurable ==
  ASSUME KeepLast
  PROVE  Spec => []MemoryIsDurable
<1>1. ContentInv => MemoryIsDurable
  BY DEF ContentInv, MemoryIsDurable
<1>. QED
  BY <1>1, ContentInvariant, PTL

\* The store is a durable cell: its readable value changes as a whole, to the
\* value being written, or not at all.
THEOREM StoreIsACell ==
  ASSUME KeepLast
  PROVE  Spec => ImplementsCell
<1>. DEFINE cell == Stored
            writing == IF temp = NoFile THEN Stored ELSE temp
<1>1. Init => Cell!Init
  BY DEF Init, Cell!Init, Stored, Loaded, NoFiles
<1>2. ASSUME TypeOK, TempOK, ContentInv, [Next]_vars
      PROVE  [Cell!Next]_<<cell, writing>>
  <2>1. CASE UNCHANGED vars
    BY <2>1 DEF vars, Stored
  <2>2. ASSUME NEW v \in Values, WriteTemp(v)
        PROVE  Cell!Submit(v)
    <3>1. temp = NoFile /\ temp' = v /\ v # NoFile
      BY <1>2, <2>2, StoreConstants DEF WriteTemp, TempOK, Writing
    <3>2. Stored' = Stored
      BY <2>2 DEF WriteTemp, Stored
    <3>. QED
      BY <3>1, <3>2 DEF Cell!Submit
  <2>3. CASE InstallTemp
    <3>1. temp # NoFile
      BY <1>2, <2>3, StoreConstants DEF InstallTemp, TempOK, Writing
    <3>2. Stored' = temp /\ temp' = temp
      BY <1>2, <2>3, StoredStep DEF Next
    <3>. QED
      BY <3>1, <3>2 DEF Cell!Next, Cell!Commit
  <2>4. CASE ClearBackup \/ SetAside
    <3>1. temp' = temp /\ Stored' = Stored
      BY <1>2, <2>4, StoredStep DEF Next, ClearBackup, SetAside, InstallTemp
    <3>. QED
      BY <3>1
  <2>5. CASE \/ Return \/ Crash \/ Restart
             \/ ClearBackupFails \/ SetAsideFails \/ InstallFails
    <3>1. stage' \in {"idle", "down"}
      BY <2>5 DEF Return, Crash, Restart, ClearBackupFails, SetAsideFails,
         InstallFails, Fail
    <3>2. temp' = NoFile /\ Stored' = Stored
      BY <1>2, <2>5, <3>1, TypeStep, StoredStep
      DEF Next, InstallTemp, TempOK, Writing
    <3>. QED
      BY <3>2 DEF Cell!Next, Cell!Abandon
  <2>. QED
    BY <1>2, <2>1, <2>2, <2>3, <2>4, <2>5 DEF Next, Cell!Next
<1>. QED
  BY <1>1, <1>2, ContentInvariant, PTL DEF Spec, ImplementsCell, Cell!Spec
=============================================================================
