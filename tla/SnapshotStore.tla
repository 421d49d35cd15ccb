---------------------------- MODULE SnapshotStore ----------------------------
(***************************************************************************)
(* One desktop store that keeps its value in memory under a mutex and        *)
(* persists it with the protocol of SnapshotFiles, one step per file         *)
(* operation, with failures of each operation, crashes and restarts.         *)
(***************************************************************************)
EXTENDS SnapshotFiles, Naturals

CONSTANTS Values,     \* contents the store can have
          Empty,      \* the content of a store with no file
          KeepLast,   \* whether a lone backup is kept (see SnapshotFiles)
          MaxCuts     \* bound: consecutive persists that leave no primary

ASSUME StoreConstants ==
  /\ NoFile \notin Values
  /\ Empty \in Values
  /\ KeepLast \in BOOLEAN
  /\ MaxCuts \in Nat

VARIABLES memory,   \* the value served to the commands
          files,    \* the primary and the backup
          temp,     \* the content of the temporary file of the running persist
          stage,    \* how far the running persist has come
          cuts      \* consecutive persists that left no primary

vars == <<memory, files, temp, stage, cuts>>

Stages == {"idle",       \* next: WriteTemp
           "written",    \* next: ClearBackup
           "cleared",    \* next: SetAside
           "aside",      \* next: InstallTemp
           "installed",  \* next: Return
           "down"}       \* next: Restart

TypeOK ==
  /\ memory \in Values
  /\ files \in FilePairs(Values)
  /\ temp \in Values \cup {NoFile}
  /\ stage \in Stages
  /\ cuts \in 0..MaxCuts

Init ==
  /\ memory = Empty
  /\ files = NoFiles
  /\ temp = NoFile
  /\ stage = "idle"
  /\ cuts = 0

\* Fault: a store without a file is not given its empty content.
StoredOrNothing == Loaded(files)

\* The value a start of the program would read now.
Stored == IF Loaded(files) = NoFile THEN Empty ELSE Loaded(files)

WriteTemp(v) ==
  /\ stage = "idle"
  /\ stage' = "written"
  /\ temp' = v
  /\ UNCHANGED <<memory, files, cuts>>

ClearBackup ==
  /\ stage = "written"
  /\ stage' = "cleared"
  /\ files' = RemoveBackup(KeepLast, files)
  /\ UNCHANGED <<memory, temp, cuts>>

SetAside ==
  /\ stage = "cleared"
  /\ stage' = "aside"
  /\ files' = MoveAside(files)
  /\ UNCHANGED <<memory, temp, cuts>>

InstallTemp ==
  /\ stage = "aside"
  /\ stage' = "installed"
  /\ files' = Install(files, temp)
  /\ cuts' = 0
  /\ UNCHANGED <<memory, temp>>

\* The caller stores the new value in memory only after persist() returned Ok.
Return ==
  /\ stage = "installed"
  /\ stage' = "idle"
  /\ memory' = temp
  /\ temp' = NoFile
  /\ UNCHANGED <<files, cuts>>

\* A persist stops at pair: it counts as cut when it leaves no primary.
StopAt(pair) ==
  /\ files' = pair
  /\ cuts' = IF stage \in {"cleared", "aside"} /\ pair.primary = NoFile
             THEN cuts + 1 ELSE cuts
  /\ cuts' <= MaxCuts

\* A file operation fails: the guard removes the temporary file, persist()
\* returns Err(Io) and the value in memory stays what it was.
Fail(pair) ==
  /\ StopAt(pair)
  /\ stage' = "idle"
  /\ temp' = NoFile
  /\ UNCHANGED memory

ClearBackupFails == stage = "written" /\ Fail(files)
SetAsideFails == stage = "cleared" /\ Fail(files)
InstallFails == stage = "aside" /\ \E pair \in {files, PutBack(files)} : Fail(pair)

Crash ==
  /\ stage # "down"
  /\ StopAt(files)
  /\ stage' = "down"
  /\ temp' = NoFile
  /\ memory' = Empty

Restart ==
  /\ stage = "down"
  /\ stage' = "idle"
  /\ memory' = Stored
  /\ UNCHANGED <<files, temp, cuts>>

Next ==
  \/ \E v \in Values : WriteTemp(v)
  \/ ClearBackup \/ SetAside \/ InstallTemp \/ Return
  \/ ClearBackupFails \/ SetAsideFails \/ InstallFails
  \/ Crash \/ Restart

Spec == Init /\ [][Next]_vars

-----------------------------------------------------------------------------
(* Between two writes the commands are served exactly what a restart would   *)
(* read: persist() never reports Ok for a value that is not on disk, nor Err  *)
(* for one that is.                                                          *)
MemoryIsDurable == stage = "idle" => memory = Stored

\* The store implements the durable cell: whatever is cut, fails or crashes,
\* the readable value changes only to the value being written, all at once.
Cell == INSTANCE DurableCell
          WITH cell <- Stored, writing <- IF temp = NoFile THEN Stored ELSE temp

ImplementsCell == Cell!Spec
=============================================================================
