---------------------------- MODULE SnapshotFiles ----------------------------
(***************************************************************************)
(* The file replacement protocol every desktop store of M.I.O. uses: a     *)
(* JSON file <name>.json (the primary) and <name>.json.backup.  A persist   *)
(* writes and syncs a temporary file, removes the backup, renames the       *)
(* primary to the backup and renames the temporary file to the primary.     *)
(*                                                                         *)
(* The stores differ in one condition.  ai_dispatch_ledger, room_ai_        *)
(* continuity and room_workspace remove an existing backup always           *)
(* (keepLast = FALSE); room_source, room_orchestration_ledger,              *)
(* room_conductor_settings, participant_profiles, appearance_settings and   *)
(* room_backup_commands only when there is a primary (keepLast = TRUE).      *)
(* An image is the whole decoded content of a file; files are complete      *)
(* because the temporary file is synced before it is renamed.               *)
(***************************************************************************)
CONSTANT NoFile      \* stands for a file that does not exist

FilePairs(Images) ==
  [primary : Images \cup {NoFile}, backup : Images \cup {NoFile}]

NoFiles == [primary |-> NoFile, backup |-> NoFile]

\* What load() reads: the primary, the backup when there is no primary, and
\* NoFile (the store then starts empty) when there is neither.
Loaded(pair) == IF pair.primary # NoFile THEN pair.primary ELSE pair.backup

-----------------------------------------------------------------------------
(* The steps of persist(), in their order.                                 *)

\* Fault: the backup goes although there is no primary to replace it.
RemoveBackupAlways(keepLast, pair) == [pair EXCEPT !.backup = NoFile]

RemoveBackup(keepLast, pair) ==
  IF keepLast /\ pair.primary = NoFile
  THEN pair
  ELSE [pair EXCEPT !.backup = NoFile]

\* Fault: the primary is deleted instead of renamed.
DeletePrimary(pair) == [pair EXCEPT !.primary = NoFile]

MoveAside(pair) ==
  IF pair.primary = NoFile
  THEN pair
  ELSE [primary |-> NoFile, backup |-> pair.primary]

Install(pair, image) == [pair EXCEPT !.primary = image]

\* The rollback when the last rename fails.
PutBack(pair) ==
  IF pair.primary = NoFile /\ pair.backup # NoFile
  THEN [primary |-> pair.backup, backup |-> NoFile]
  ELSE pair

-----------------------------------------------------------------------------
(* The outcomes of one whole persist(), for the stores that call it under   *)
(* their mutex: nobody else looks at the files in between, so only what is   *)
(* left behind matters.                                                     *)

Ready(keepLast, pair) == MoveAside(RemoveBackup(keepLast, pair))

\* persist() returned Ok.
Replaced(keepLast, pair, image) == Install(Ready(keepLast, pair), image)

\* persist() returned Err(Io): a step failed and the later ones did not run;
\* after a failed last rename the rollback may fail as well.
Refused(keepLast, pair) ==
  {pair, RemoveBackup(keepLast, pair),
   PutBack(Ready(keepLast, pair)), Ready(keepLast, pair)}

\* The process died inside persist().
Cut(keepLast, pair, image) ==
  {pair, RemoveBackup(keepLast, pair), Ready(keepLast, pair),
   Replaced(keepLast, pair, image)}

\* A persist that changed the files and left no primary behind.
IsInterrupted(before, after) == after # before /\ after.primary = NoFile
=============================================================================
