---------------------------- MODULE DesktopStores ----------------------------
(***************************************************************************)
(* The stores of the running desktop: what each serves and its two files,    *)
(* the start that reads them one after the other and writes some again        *)
(* (lib.rs), and the write every command goes through, which may be refused   *)
(* by the file system or cut by the end of the process at any of its steps.   *)
(***************************************************************************)
EXTENDS RoomSnapshots

VARIABLES stores,    \* store -> what it serves and its files
          phase,     \* how far the start has come
          faults     \* bound: refused and cut writes, crashes and damaged
                     \* files that may still come

storeVars == <<stores, phase, faults>>

Phases == {"down",        \* next: PrepareRooms
           "prepared",    \* next: MigrateProfiles
           "migrated",    \* next: CommitRooms
           "committed",   \* next: LoadSettings
           "running"}

Unloaded == NoFile
Served(store) == stores[store].memory
Files(store) == stores[store].files

\* Bound: two writes in a row are cut or refused only of a store that keeps and
\* reads a lone backup.  (Of the others the run store_guarded shows what happens
\* then, and profiles and appearance that were lost may come back.)
MayFail(store) ==
  /\ faults > 0
  /\ \/ KeepsLast(store) /\ ~NeedsPrimary(store)
     \/ Files(store).primary # NoFile
     \/ Files(store).backup = NoFile

Put(store, value, pair) ==
  stores' = [stores EXCEPT ![store] = [memory |-> value, files |-> pair]]

\* The process ends and leaves pair as the files of the store.
End(store, pair) ==
  /\ phase' = "down"
  /\ stores' = [s \in Stores |-> [memory |-> Unloaded,
                                  files |-> IF s = store THEN pair ELSE Files(s)]]

Fault == faults > 0 /\ faults' = faults - 1

Results == {"saved", "refused", "cut"}

Save(store, value) ==
  /\ Put(store, value, Written(store, Files(store), value))
  /\ UNCHANGED <<phase, faults>>

\* The file system refuses a step of the write; the readers are left with left.
RefuseSave(store, left) ==
  /\ MayFail(store)
  /\ Fault
  /\ \E pair \in WriteRefused(store, Files(store)) : Put(store, left, pair)
  /\ UNCHANGED phase

CutSave(store, value) ==
  /\ MayFail(store)
  /\ Fault
  /\ \E pair \in WriteCut(store, Files(store), value) : End(store, pair)

\* Fault: a refused write leaves the new value to the readers.
PersistLate(store, value, result) ==
  \/ result = "saved" /\ Save(store, value)
  \/ result = "refused" /\ RefuseSave(store, value)
  \/ result = "cut" /\ CutSave(store, value)

\* A command stores value: the readers see it once it is on disk.
Persist(store, value, result) ==
  \/ result = "saved" /\ Save(store, value)
  \/ result = "refused" /\ RefuseSave(store, Served(store))
  \/ result = "cut" /\ CutSave(store, value)

-----------------------------------------------------------------------------
(* The start.  A step that fails ends the process.                          *)

\* A step loads value and, when there is an image to write, writes it first.
LoadAfterWrite(store, value, image, next) ==
  \/ /\ image = NoFile
     /\ Put(store, value, Files(store))
     /\ phase' = next
     /\ UNCHANGED faults
  \/ /\ image # NoFile
     /\ Put(store, value, Written(store, Files(store), image))
     /\ phase' = next
     /\ UNCHANGED faults
  \/ /\ image # NoFile
     /\ Fault
     /\ \E pair \in WriteRefused(store, Files(store)) \cup WriteCut(store, Files(store), image) :
          End(store, pair)

\* What the Rooms' files hold, NoFile for a new installation
RoomFile == ReadFile(RoomStore, Files(RoomStore))

\* RoomPersistence::load and prepare: a damaged primary is set aside and
\* replaced by its backup; the snapshot is then brought up to date in memory.
PrepareRooms ==
  /\ phase = "down"
  /\ RoomFile # NoFile => Usable(RoomFile)
  /\ LoadAfterWrite(RoomStore, StartRooms(Files(RoomStore)),
                    IF Files(RoomStore).primary = Damaged THEN RoomFile ELSE NoFile,
                    "prepared")

MigrateProfiles ==
  LET loaded == ReadValue("profiles", Files("profiles"))
      migrated == MigratedFor(RoomFile, loaded)
  IN /\ phase = "prepared"
     /\ CanMigrate(RoomFile, loaded)
     /\ LoadAfterWrite("profiles", migrated,
                       IF migrated # loaded THEN migrated ELSE NoFile, "migrated")

\* The new snapshot is written only now: until then a start that ends finds
\* the old owner in the Rooms and migrates the profiles again.
CommitRooms ==
  /\ phase = "migrated"
  /\ LoadAfterWrite(RoomStore, Served(RoomStore),
                    IF RoomFile \in {NoFile, Served(RoomStore)} THEN NoFile
                    ELSE Served(RoomStore),
                    "committed")

LoadSettings ==
  /\ phase = "committed"
  /\ \A s \in Settings : Readable(s, Files(s))
  /\ stores' = [s \in Stores |->
                  IF s \in {RoomStore, "profiles"} THEN stores[s]
                  ELSE [stores[s] EXCEPT !.memory = ReadValue(s, Files(s))]]
  /\ phase' = "running"
  /\ UNCHANGED faults

Crash ==
  /\ phase # "down"
  /\ Fault
  /\ End(RoomStore, Files(RoomStore))

\* A primary is damaged while the desktop does not run.  (Workspaces and
\* continuity then refuse every start; what becomes of profiles is not followed.)
Damage(store) ==
  /\ phase = "down"
  /\ Fault
  /\ store \notin {"workspaces", "continuity", "profiles"}
  /\ {Files(store).primary, Files(store).backup} \cap {NoFile, Damaged} = {}
  /\ stores' = [stores EXCEPT ![store].files.primary = Damaged]
  /\ UNCHANGED phase
=============================================================================
