--------------------------- MODULE AiDispatchLedger ---------------------------
(***************************************************************************)
(* The durable per-recipient dispatch ledger (ai_dispatch_ledger.rs): one    *)
(* record per (source message, recipient) and an in-memory set of the        *)
(* dispatches some call of this process owns, both under one mutex that is   *)
(* held across the file replacement.  Each operation is therefore one        *)
(* action; its persist() takes one of the outcomes of SnapshotFiles.         *)
(*                                                                         *)
(* A record keeps only its state: the IDs are its key and its time stamp     *)
(* only orders the pruning of terminal records, where any of them may be     *)
(* the oldest.                                                              *)
(***************************************************************************)
EXTENDS SnapshotFiles, Naturals, FiniteSets

CONSTANTS Ids,         \* dispatch IDs
          MaxRecords,  \* MAXIMUM_DISPATCH_RECORDS
          MaxCuts      \* bound: consecutive persists that leave no primary

ASSUME LedgerConstants ==
  /\ IsFiniteSet(Ids)
  /\ MaxRecords \in Nat \ {0}
  /\ MaxCuts \in Nat

ASSUME NoFileIsNoImage ==
  NoFile \notin [Ids -> {"Absent", "Prepared", "ExternalStarted", "Completed", "Failed"}]

VARIABLES records,   \* the records in memory
          active,    \* the dispatches a call of this process owns
          disk,      \* the ledger file and its backup
          cuts       \* consecutive persists that left no primary

ledgerVars == <<records, active, disk, cuts>>

-----------------------------------------------------------------------------
RecordStates == {"Prepared", "ExternalStarted", "Completed", "Failed"}
Terminal == {"Completed", "Failed"}

Images == [Ids -> RecordStates \cup {"Absent"}]
NoRecords == [id \in Ids |-> "Absent"]

\* The dispatch ledger removes the backup whether or not there is a primary.
KeepLast == FALSE

\* The records a start of the program would load from pair.
Recovered(pair) == IF Loaded(pair) = NoFile THEN NoRecords ELSE Loaded(pair)

Present(recs) == {id \in Ids : recs[id] # "Absent"}
Full(recs) == Cardinality(Present(recs)) >= MaxRecords

\* Fault: pruning takes the oldest record, whatever its state.
PrunedOfAnyState(recs) ==
  IF Full(recs)
  THEN {[recs EXCEPT ![id] = "Absent"] : id \in Present(recs)}
  ELSE {recs}

\* prune_terminal_records: at capacity one terminal record, if any, goes.
Pruned(recs) ==
  LET victims == {id \in Ids : recs[id] \in Terminal}
  IN IF Full(recs) /\ victims # {}
     THEN {[recs EXCEPT ![id] = "Absent"] : id \in victims}
     ELSE {recs}

LedgerTypeOK ==
  /\ records \in Images
  /\ active \subseteq Ids
  /\ disk \in FilePairs(Images)
  /\ cuts \in 0..MaxCuts

LedgerInit ==
  /\ records = NoRecords
  /\ active = {}
  /\ disk = NoFiles
  /\ cuts = 0

-----------------------------------------------------------------------------
(* Outcomes of DispatchLedgerPersistence::persist.                          *)

\* The files become pair: a replacement that left no primary is one more cut.
LeaveFiles(pair) ==
  /\ disk' = pair
  /\ cuts' = IF IsInterrupted(disk, pair) THEN cuts + 1
             ELSE IF pair.primary # NoFile THEN 0 ELSE cuts
  /\ cuts' <= MaxCuts

PersistOk(next) == LeaveFiles(Replaced(KeepLast, disk, next))

PersistFails == \E pair \in Refused(KeepLast, disk) : LeaveFiles(pair)

-----------------------------------------------------------------------------
(* begin(): Active and Existing answers read only; a new dispatch prunes the  *)
(* records in memory before it persists, so a refused persist loses the       *)
(* pruned record in memory although it is still on disk.                      *)

IsActive(id) == id \in active
IsExisting(id) == id \notin active /\ records[id] # "Absent"

\* Fault: a confirmed failure may be dispatched again.
IsNewOrFailed(id) == id \notin active /\ records[id] \in {"Absent", "Failed"}

IsNew(id) == id \notin active /\ records[id] = "Absent"

Reserve(id) ==
  /\ IsNew(id)
  /\ \E pruned \in Pruned(records) :
       /\ ~Full(pruned)
       /\ records' = [pruned EXCEPT ![id] = "Prepared"]
  /\ PersistOk(records')
  /\ active' = active \cup {id}

ReserveFails(id) ==
  /\ IsNew(id)
  /\ \E pruned \in Pruned(records) :
       /\ records' = pruned
       /\ IF Full(pruned) THEN UNCHANGED <<disk, cuts>> ELSE PersistFails
  /\ UNCHANGED active

\* Fault: the result of persist() is ignored.
TransitionUnsaved(id, from, to, finish) ==
  /\ id \in active
  /\ records[id] = from
  /\ records' = [records EXCEPT ![id] = to]
  /\ PersistOk(records') \/ PersistFails
  /\ active' = IF finish THEN active \ {id} ELSE active

\* transition(): needs an owned record in the expected state.
Transition(id, from, to, finish) ==
  /\ id \in active
  /\ records[id] = from
  /\ records' = [records EXCEPT ![id] = to]
  /\ PersistOk(records')
  /\ active' = IF finish THEN active \ {id} ELSE active

\* Fault: a refused transition also gives the record up.
TransitionFailsReleasing(id, from) ==
  /\ id \in active
  /\ records[id] = from
  /\ PersistFails
  /\ active' = active \ {id}
  /\ UNCHANGED records

TransitionFails(id, from) ==
  /\ id \in active
  /\ records[id] = from
  /\ PersistFails
  /\ UNCHANGED <<records, active>>

MarkExternalStarted(id) == Transition(id, "Prepared", "ExternalStarted", FALSE)

\* Fault: a local failure is recorded with a state no record can have.
MarkFailedAsUnknown(id) == Transition(id, "Prepared", "Unknown", TRUE)

MarkFailed(id) == Transition(id, "Prepared", "Failed", TRUE)
MarkExternalPreflightFailed(id) == Transition(id, "ExternalStarted", "Failed", TRUE)

\* Fault: the completed record stays owned.
MarkCompletedOwned(id) == Transition(id, "ExternalStarted", "Completed", FALSE)

MarkCompleted(id) == Transition(id, "ExternalStarted", "Completed", TRUE)

\* Fault: the record of an unknown outcome stays owned.
FinishUnknownOwned(id) == UNCHANGED ledgerVars

\* finish_unknown(): gives the record up, in whatever state it is.
FinishUnknown(id) ==
  /\ active' = active \ {id}
  /\ UNCHANGED <<records, disk, cuts>>

\* The callers' `if mark_x().is_err() { finish_unknown() }`, the persist failing.
GiveUp(id, from) ==
  /\ id \in active
  /\ records[id] = from
  /\ PersistFails
  /\ active' = active \ {id}
  /\ UNCHANGED records

\* The program dies and starts again over the files pair.
RestartFrom(pair) ==
  /\ LeaveFiles(pair)
  /\ records' = Recovered(pair)
  /\ active' = {}

\* Fault: a completed record is never looked at again.
UnresolvedStarted == {id \in Ids : records[id] = "ExternalStarted"}

\* unresolved_for_room(): the records whose outcome the Room must answer for.
Unresolved == {id \in Ids : records[id] \in {"ExternalStarted", "Completed"}}

-----------------------------------------------------------------------------
(* The ledger alone: any caller, any operation, in any order.               *)

Crash == RestartFrom(disk)

\* The states transition() may be writing for a record in state from.
Successors(from) ==
  CASE from = "Prepared" -> {"ExternalStarted", "Failed"}
    [] from = "ExternalStarted" -> {"Completed", "Failed"}
    [] OTHER -> {}

CrashInTransition(id, to) ==
  /\ id \in active
  /\ to \in Successors(records[id])
  /\ \E pair \in Cut(KeepLast, disk, [records EXCEPT ![id] = to]) : RestartFrom(pair)

CrashInReserve(id) ==
  /\ IsNew(id)
  /\ \E pruned \in Pruned(records) :
       /\ ~Full(pruned)
       /\ \E pair \in Cut(KeepLast, disk, [pruned EXCEPT ![id] = "Prepared"]) :
            RestartFrom(pair)

LedgerOperation(id) ==
  \/ Reserve(id)
  \/ ReserveFails(id)
  \/ MarkExternalStarted(id)
  \/ MarkFailed(id)
  \/ MarkExternalPreflightFailed(id)
  \/ MarkCompleted(id)
  \/ \E from \in {"Prepared", "ExternalStarted"} :
       TransitionFails(id, from) \/ GiveUp(id, from)
  \/ FinishUnknown(id)
  \/ \E to \in RecordStates : CrashInTransition(id, to)
  \/ CrashInReserve(id)

LedgerNext == Crash \/ \E id \in Ids : LedgerOperation(id)

LedgerSpec == LedgerInit /\ [][LedgerNext]_ledgerVars

-----------------------------------------------------------------------------
(* A dispatch some call owns is still undecided: a record never ends while a  *)
(* call of this process may still act on it, and one nobody owns any more can  *)
(* never be moved again (transition() demands ownership).                     *)
OwnedIsUndecided ==
  \A id \in active : records[id] \in {"Prepared", "ExternalStarted"}

\* Every record the program acts on is the one a restart would find, so no
\* decision is taken on a state that a crash can take back.  The only records
\* on disk but not in memory are terminal ones whose pruning was not persisted.
MemoryIsOnDisk ==
  \A id \in Ids :
    \/ Recovered(disk)[id] = records[id]
    \/ records[id] = "Absent" /\ Recovered(disk)[id] \in Terminal

\* While a primary is missing although there was one, exactly the backup is
\* left to load, and the persist that caused it is counted.
LoneBackupIsCounted ==
  /\ disk.primary # NoFile => cuts = 0
  /\ disk.primary = NoFile /\ disk.backup # NoFile => cuts > 0

Rank(state) ==
  CASE state = "Absent" -> 0
    [] state = "Prepared" -> 1
    [] state = "ExternalStarted" -> 2
    [] OTHER -> 3

\* A dispatch without a record finds the ledger full.
Crowded(recs) == Full(recs) /\ \E id \in Ids : recs[id] = "Absent"

\* Whatever fails or crashes, what a restart would find of a dispatch only
\* moves forward: a turn that may have been delivered is never forgotten.  Only
\* terminal records are pruned, only to make room for a new dispatch, and only
\* then can their ID be reserved again.
EvidenceMovesForward ==
  [][\A id \in Ids :
       \/ Rank(Recovered(disk)[id]) <= Rank(Recovered(disk')[id])
       \/ /\ Recovered(disk)[id] \in Terminal
          /\ \/ Recovered(disk')[id] = "Absent" /\ Crowded(records)
             \/ records[id] = "Absent"]_ledgerVars
=============================================================================
