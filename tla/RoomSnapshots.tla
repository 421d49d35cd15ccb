---------------------------- MODULE RoomSnapshots ----------------------------
(***************************************************************************)
(* What a start of the desktop makes of its files (room_source.rs, the       *)
(* settings stores): which file is read, how an older Room snapshot is       *)
(* brought up to date, and what a write of each store leaves behind.         *)
(***************************************************************************)
EXTENDS RoomCatalog, SnapshotFiles, TLC

CONSTANTS Damaged,     \* a file whose content does not decode
          BundledRoom  \* one of the three Rooms every installation has

ASSUME SnapshotConstants == NoFile # Damaged

Owner == "owner"
Codex == "codex"
Gemini == "gemini"

\* The entries of f, and those of g under the other keys
Over(f, g) == [x \in DOMAIN f \cup DOMAIN g |-> IF x \in DOMAIN f THEN f[x] ELSE g[x]]

\* bundled_snapshot; the welcome messages are left out.
Bundled ==
  [people |-> [p \in {Owner, Codex, Gemini} |-> IF p = Owner THEN "human" ELSE "ai"],
   rooms |-> [r \in {BundledRoom} |-> NewRoom("bundled", {Owner, Codex, Gemini})]]

-----------------------------------------------------------------------------
(* Bringing a snapshot up to date                                           *)

\* normalize_owner_participant accepts one human, and no AI under its new ID.
HasOneOwner(s) ==
  /\ Cardinality(Humans(s)) = 1
  /\ Owner \in DOMAIN s.people => s.people[Owner] = "human"

OwnerOf(s) == CHOOSE p \in Humans(s) : TRUE

\* Whether the owner still has the ID of an earlier version.
HasOldOwner(s) == HasOneOwner(s) /\ OwnerOf(s) # Owner

Normalized(s) ==
  LET id(p) == IF p = OwnerOf(s) THEN Owner ELSE p
      message(m) == [m EXCEPT !.author = id(@), !.to = {id(p) : p \in @}]
      room(q) == [q EXCEPT !.members = {id(p) : p \in @},
                           !.log = [i \in DOMAIN @ |-> message(@[i])]]
  IN IF ~HasOldOwner(s) THEN s
     ELSE [people |-> [p \in {id(q) : q \in DOMAIN s.people} |->
                         IF p = Owner THEN "human" ELSE s.people[p]],
           rooms |-> [r \in RoomIds(s) |-> room(s.rooms[r])]]

\* Fault: a bundled Room replaces the one in the file.
MergedOver(s) ==
  [people |-> Over(s.people, Bundled.people), rooms |-> Over(Bundled.rooms, s.rooms)]

\* merge_bundled_catalog: what is missing of the bundled catalog is added.
Merged(s) ==
  [people |-> Over(s.people, Bundled.people), rooms |-> Over(s.rooms, Bundled.rooms)]

Prepared(s) == Merged(Normalized(s))
Usable(s) == HasOneOwner(s) /\ ValidSnapshot(Prepared(s))

-----------------------------------------------------------------------------
(* The stores                                                               *)

RoomStore == "rooms"
Settings == {"conductors", "workspaces", "continuity", "profiles", "appearance",
             "backup_directory"}
Stores == {RoomStore} \cup Settings

DefaultOf(store) ==
  CASE store = RoomStore -> Bundled
    [] store \in {"conductors", "workspaces", "continuity", "profiles"} -> <<>>
    [] store \in {"appearance", "backup_directory"} -> "default"

\* room_ai_continuity and room_workspace remove a lone backup.
KeepsLast(store) == store \notin {"continuity", "workspaces"}

\* profiles and appearance do not look for a backup when there is no primary.
NeedsPrimary(store) == store \in {"profiles", "appearance"}

\* workspaces and continuity read the backup only when there is no primary.
NoBackupForDamage(store) == store \in {"workspaces", "continuity"}

\* The others read it when the primary does not decode, or holds a value that
\* is not valid; a damaged primary without a backup is not a new installation.
ReadOrDefault(pair) == IF pair.primary = Damaged THEN pair.backup ELSE pair.primary
ReadRecovered(pair) ==
  IF pair.primary \in {Damaged, NoFile} /\ pair.backup # NoFile
  THEN pair.backup ELSE pair.primary

\* The file a start reads
ReadFile(store, pair) ==
  CASE NoBackupForDamage(store) -> Loaded(pair)
    [] NeedsPrimary(store) -> ReadOrDefault(pair)
    [] OTHER -> ReadRecovered(pair)

\* profiles and appearance start with their default when nothing decodes; the
\* other stores refuse to start.
Readable(store, pair) == ReadFile(store, pair) # Damaged \/ NeedsPrimary(store)

\* The value a start reads, before the snapshot of the Rooms is prepared.
ReadValue(store, pair) ==
  IF ReadFile(store, pair) \in {NoFile, Damaged} THEN DefaultOf(store)
  ELSE ReadFile(store, pair)

StartRooms(pair) ==
  IF ReadFile(RoomStore, pair) = NoFile THEN Bundled
  ELSE Prepared(ReadFile(RoomStore, pair))

\* A damaged primary is no backup: the Rooms rename it to a quarantine file,
\* the conductor settings delete it.  The other stores move it aside as any.
SetDamageAside(store, pair) ==
  IF store \in {RoomStore, "conductors"} /\ pair.primary = Damaged
  THEN [pair EXCEPT !.primary = NoFile] ELSE pair

Written(store, pair, image) ==
  Replaced(KeepsLast(store), SetDamageAside(store, pair), image)

WriteRefused(store, pair) ==
  {pair} \cup Refused(KeepsLast(store), SetDamageAside(store, pair))

WriteCut(store, pair, image) ==
  {pair} \cup Cut(KeepsLast(store), SetDamageAside(store, pair), image)

-----------------------------------------------------------------------------
(* Participant profiles: the owner's profile moves to its new ID.           *)

Migrated(profiles, old) ==
  IF old \in DOMAIN profiles
  THEN [p \in (DOMAIN profiles \ {old}) \cup {Owner} |->
          IF p = Owner THEN profiles[old] ELSE profiles[p]]
  ELSE profiles

\* The migration that goes with a Room snapshot that was read.
MigratedFor(snapshot, profiles) ==
  IF snapshot # NoFile /\ HasOldOwner(snapshot)
  THEN Migrated(profiles, OwnerOf(snapshot)) ELSE profiles

\* Fails when both IDs have profiles that differ.
CanMigrate(snapshot, profiles) ==
  snapshot # NoFile /\ HasOldOwner(snapshot)
    => LET old == OwnerOf(snapshot)
       IN {old, Owner} \subseteq DOMAIN profiles => profiles[old] = profiles[Owner]
=============================================================================
