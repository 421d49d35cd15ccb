-------------------------- MODULE RoomService_proofs --------------------------
(***************************************************************************)
(* The desktop implements RoomService, for any installations, folders,        *)
(* scenarios and faults.  The Rooms of the service are what a start would make *)
(* of their two files, at every moment: a write - saved, refused or cut - and   *)
(* a damaged primary are looked at once, for any pair of files.  What the       *)
(* profiles and the folders need on the way are two more invariants.           *)
(***************************************************************************)
EXTENDS RoomDesktop_proofs
LOCAL INSTANCE SequencesExt

-----------------------------------------------------------------------------
(* The files of the Rooms.                                                  *)

\* The Rooms a start would make of a pair of files, and those of its backup.
Current(pair) == StartRooms(pair).rooms
Before(pair) == IF pair.backup = NoFile THEN Current(pair) ELSE Prepared(pair.backup).rooms

\* A start reads the primary, or the backup for a primary that is missing or damaged.
LEMMA ReadRooms ==
  ASSUME NEW pair
  PROVE  /\ ReadFile(RoomStore, pair) = ReadRecovered(pair)
         /\ StartRooms(pair) = IF ReadRecovered(pair) = NoFile THEN Bundled
                               ELSE Prepared(ReadRecovered(pair))
BY DEF ReadFile, StartRooms, NoBackupForDamage, NeedsPrimary, RoomStore

\* Whatever becomes of a write of the Rooms, a start makes the old or the new ones of
\* the files, and the backup - if it is not the one that was there - is one of them.
LEMMA RoomsWritten ==
  ASSUME NEW pair, IsPair(pair), Repairable(RoomStore, pair),
         NEW value, value \notin {NoFile, Damaged},
         NEW new \in WriteRefused(RoomStore, pair) \cup WriteCut(RoomStore, pair, value)
  PROVE  \/ /\ ReadFile(RoomStore, new) = ReadFile(RoomStore, pair)
            /\ Current(new) = Current(pair)
            /\ Before(new) \in {Before(pair), Current(pair)}
         \/ /\ ReadFile(RoomStore, new) = value
            /\ Current(new) = Prepared(value).rooms
            /\ Before(new) \in {Before(pair), Current(pair), Current(new)}
<1>. DEFINE Old(p) == /\ ReadFile(RoomStore, p) = ReadFile(RoomStore, pair)
                      /\ Before(p) \in {Before(pair), Current(pair)}
            New(p) == /\ ReadFile(RoomStore, p) = value
                      /\ Before(p) \in {Before(pair), Current(pair), Current(p)}
            put == SetDamageAside(RoomStore, pair)
            cleared == RemoveBackup(TRUE, put)
            ready == MoveAside(cleared)
<1>. USE SnapshotConstants
<1>1. KeepsLast(RoomStore) = TRUE
  BY DEF KeepsLast, RoomStore
<1>2. new \in {pair, put, cleared, ready, PutBack(ready), Install(ready, value)}
  BY <1>1 DEF WriteRefused, WriteCut, Refused, Cut, Ready, Replaced
<1>3. \A p : Old(p) => Current(p) = Current(pair)
  BY DEF Current, StartRooms
<1>4. \A p : New(p) => Current(p) = Prepared(value).rooms
  BY DEF Current, StartRooms
<1>5. Old(pair)
  OBVIOUS
<1>6. CASE pair.primary \notin {NoFile, Damaged}
  <2>. DEFINE P == pair.primary
  <2>1. put = pair
    BY <1>6 DEF SetDamageAside
  <2>2. cleared = [primary |-> P, backup |-> NoFile]
    BY <1>6, <2>1 DEF RemoveBackup, IsPair
  <2>. HIDE DEF put, cleared
  <2>3. ready = [primary |-> NoFile, backup |-> P]
    BY <1>6, <2>2 DEF MoveAside
  <2>. HIDE DEF ready
  <2>4. PutBack(ready) = cleared /\ Install(ready, value) = [primary |-> value, backup |-> P]
    BY <1>6, <2>2, <2>3 DEF PutBack, Install
  <2>5. Current(pair) = Prepared(P).rooms /\ ReadFile(RoomStore, pair) = P
    BY <1>6, ReadRooms DEF Current, ReadRecovered
  <2>6. ReadFile(RoomStore, cleared) = P /\ Before(cleared) = Current(pair)
    BY <1>6, <2>2, <2>5, ReadRooms DEF Current, Before, ReadRecovered
  <2>7. ReadFile(RoomStore, ready) = P /\ Before(ready) = Current(pair)
    BY <1>6, <2>3, <2>5, ReadRooms DEF Before, ReadRecovered
  <2>8. New([primary |-> value, backup |-> P])
    BY <1>6, <2>5, ReadRooms DEF Before, ReadRecovered
  <2>. HIDE DEF Old, New
  <2>9. Old(cleared) /\ Old(ready)
    BY <2>5, <2>6, <2>7 DEF Old
  <2>10. Old(new) \/ New(new)
    BY <1>2, <1>5, <2>1, <2>4, <2>8, <2>9
  <2>. QED
    BY <1>3, <1>4, <2>10 DEF Old, New
<1>7. CASE pair.primary \in {NoFile, Damaged}
  <2>. DEFINE B == pair.backup
              lone == [primary |-> NoFile, backup |-> B]
  <2>1. put = lone
    BY <1>7 DEF SetDamageAside, IsPair
  <2>2. cleared = lone /\ ready = lone
    BY <2>1 DEF RemoveBackup, MoveAside
  <2>3. Install(lone, value) = [primary |-> value, backup |-> B]
    BY DEF Install
  <2>4. PutBack(lone) = IF B = NoFile THEN lone ELSE [primary |-> B, backup |-> NoFile]
    BY DEF PutBack
  <2>5. B # Damaged /\ (pair.primary = Damaged => B # NoFile)
    BY DEF Repairable, Unguarded, RoomStore
  <2>6. ReadFile(RoomStore, pair) = B
    BY <1>7, <2>5, ReadRooms DEF ReadRecovered
  <2>7. Before(pair) = Current(pair)
    BY <2>6, ReadRooms DEF Before, Current
  <2>8. ReadFile(RoomStore, lone) = B
    BY ReadRooms DEF ReadRecovered
  <2>9. Before(lone) = Before(pair)
    BY <2>6, <2>8 DEF Before, Current, StartRooms
  <2>10. ReadFile(RoomStore, [primary |-> value, backup |-> B]) = value
    BY ReadRooms DEF ReadRecovered
  <2>11. New([primary |-> value, backup |-> B])
    BY <2>10, <2>6 DEF Before
  <2>12. B # NoFile => Old([primary |-> B, backup |-> NoFile])
    <3>. DEFINE back == [primary |-> B, backup |-> NoFile]
    <3>. SUFFICES ASSUME B # NoFile PROVE Old(back)
      OBVIOUS
    <3>1. ReadFile(RoomStore, back) = B
      BY <2>5, ReadRooms DEF ReadRecovered
    <3>2. Before(back) = Current(back) /\ Current(back) = Current(pair)
      BY <2>6, <3>1 DEF Before, Current, StartRooms
    <3>. QED
      BY <2>6, <3>1, <3>2
  <2>13. Old(lone)
    BY <2>6, <2>8, <2>9
  <2>. HIDE DEF Old, New, put, cleared, ready, lone
  <2>14. Old(new) \/ New(new)
    BY <1>2, <1>5, <2>1, <2>2, <2>3, <2>4, <2>11, <2>12, <2>13
  <2>. QED
    BY <1>3, <1>4, <2>14 DEF Old, New
<1>. QED
  BY <1>6, <1>7

\* A damaged primary takes the Rooms back to those of the backup.
LEMMA RoomsDamaged ==
  ASSUME NEW backup, backup \notin {NoFile, Damaged}, NEW pair, pair.backup = backup
  PROVE  LET new == [primary |-> Damaged, backup |-> backup]
         IN /\ ReadFile(RoomStore, new) = backup
            /\ Current(new) = Before(pair) /\ Before(new) = Before(pair)
BY ReadRooms DEF Current, Before, ReadRecovered

\* The Rooms every start makes have the bundled one.
LEMMA BundledIsThere ==
  ASSUME NEW pair
  PROVE  BundledRoom \in DOMAIN Current(pair) \cap DOMAIN Before(pair)
<1>1. BundledRoom \in DOMAIN Bundled.rooms
  BY DEF Bundled
<1>2. ASSUME NEW s PROVE BundledRoom \in DOMAIN Prepared(s).rooms
  BY <1>1 DEF Prepared, Merged, Over
<1>3. BundledRoom \in DOMAIN Current(pair)
  BY <1>1, <1>2 DEF Current, StartRooms
<1>. QED
  BY <1>2, <1>3 DEF Before

-----------------------------------------------------------------------------
(* The profiles.                                                            *)

\* Who has no profile under the old ID of a Room file has nothing to migrate.
LEMMA NothingToMigrate ==
  ASSUME NEW f, NEW profiles
  PROVE  MigratedFor(f, profiles) = profiles
           <=> (f # NoFile /\ HasOldOwner(f) => OwnerOf(f) \notin DOMAIN profiles)
<1>1. ASSUME f # NoFile, HasOldOwner(f), OwnerOf(f) \in DOMAIN profiles
      PROVE  MigratedFor(f, profiles) # profiles
  <2>1. OwnerOf(f) # Owner
    BY <1>1 DEF HasOldOwner
  <2>2. DOMAIN MigratedFor(f, profiles) = (DOMAIN profiles \ {OwnerOf(f)}) \cup {Owner}
    BY <1>1 DEF MigratedFor, Migrated
  <2>3. OwnerOf(f) \notin DOMAIN MigratedFor(f, profiles)
    BY <2>1, <2>2
  <2>. QED
    BY <1>1, <2>3
<1>2. ASSUME f # NoFile /\ HasOldOwner(f) => OwnerOf(f) \notin DOMAIN profiles
      PROVE  MigratedFor(f, profiles) = profiles
  BY <1>2 DEF MigratedFor, Migrated
<1>. QED
  BY <1>1, <1>2

LEMMA MigratedTwice ==
  ASSUME NEW f, NEW profiles
  PROVE  /\ MigratedFor(f, MigratedFor(f, profiles)) = MigratedFor(f, profiles)
         /\ MigratedFor(f, <<>>) = <<>>
<1>1. MigratedFor(f, <<>>) = <<>>
  <2>1. DOMAIN <<>> = {}
    OBVIOUS
  <2>. QED
    BY <2>1, NothingToMigrate
<1>2. CASE f # NoFile /\ HasOldOwner(f) /\ OwnerOf(f) \in DOMAIN profiles
  <2>1. OwnerOf(f) # Owner
    BY <1>2 DEF HasOldOwner
  <2>2. DOMAIN MigratedFor(f, profiles) = (DOMAIN profiles \ {OwnerOf(f)}) \cup {Owner}
    BY <1>2 DEF MigratedFor, Migrated
  <2>3. OwnerOf(f) \notin DOMAIN MigratedFor(f, profiles)
    BY <2>1, <2>2
  <2>. QED
    BY <1>1, <2>3, NothingToMigrate
<1>3. CASE ~(f # NoFile /\ HasOldOwner(f) /\ OwnerOf(f) \in DOMAIN profiles)
  <2>1. MigratedFor(f, profiles) = profiles
    BY <1>3, NothingToMigrate
  <2>. QED
    BY <1>1, <2>1
<1>. QED
  BY <1>2, <1>3

\* A write of the profiles leaves the old or the new ones to the next start, or
\* only a backup it does not look for.
LEMMA ProfilesWritten ==
  ASSUME NEW pair, IsPair(pair), Undamaged(pair), MayBeCut("profiles", pair),
         NEW value, value \notin {NoFile, Damaged},
         NEW new \in WriteRefused("profiles", pair) \cup WriteCut("profiles", pair, value)
  PROVE  ReadValue("profiles", new) \in {ReadValue("profiles", pair), <<>>, value}
<1>1. "profiles" \in Stores /\ NeedsPrimary("profiles")
  BY DEF Stores, Settings, NeedsPrimary
<1>2. Repairable("profiles", pair)
  BY DEF Repairable, Undamaged
<1>3. new \in WriteRefused("profiles", pair) \/ new = Written("profiles", pair, value)
  BY DEF WriteCut, Cut, WriteRefused, Refused, Written
<1>4. CASE new \in WriteRefused("profiles", pair)
  <2>1. CASE ReadFile("profiles", new) = ReadFile("profiles", pair)
    BY <2>1 DEF ReadValue
  <2>2. CASE new.primary = NoFile
    <3>1. ReadFile("profiles", new) = NoFile
      BY <2>2, SnapshotConstants DEF ReadFile, NoBackupForDamage, NeedsPrimary, ReadOrDefault
    <3>. QED
      BY <3>1 DEF ReadValue, DefaultOf, RoomStore
  <2>. QED
    BY <1>1, <1>2, <1>4, <2>1, <2>2, RefusedIsRead
<1>5. CASE new = Written("profiles", pair, value)
  <2>1. ReadFile("profiles", new) = value
    BY <1>1, <1>2, <1>5, WrittenIsRead
  <2>. QED
    BY <2>1 DEF ReadValue
<1>. QED
  BY <1>3, <1>4, <1>5

-----------------------------------------------------------------------------
(* What is served of the profiles, at every moment.                         *)

\* The profiles before they are migrated.
Chosen == IF Served("profiles") = Unloaded THEN ReadValue("profiles", Files("profiles"))
          ELSE Served("profiles")

LoadedInTime ==
  /\ phase = "down" => Served(RoomStore) = Unloaded
  /\ phase \in {"down", "prepared"} => Served("profiles") = Unloaded
  /\ phase \in {"migrated", "committed", "running"} => Served("profiles") # Unloaded
  /\ phase \in {"migrated", "committed"} =>
       Served("profiles") = ReadValue("profiles", Files("profiles"))

\* Whichever file of the Rooms is read next, the profiles are the same.
OneOwner ==
  \A f \in FilesOf(Files(RoomStore)) :
    /\ MigratedFor(f, Chosen) = ServedProfiles
    /\ HasOldOwner(f) => OwnerOf(f) # Codex

ProfilesInv == LoadedInTime /\ OneOwner

\* What a step may make of the Rooms and of the profiles.
RoomsStay ==
  /\ Current(Files(RoomStore)') = Current(Files(RoomStore))
  /\ Before(Files(RoomStore)') \in {Before(Files(RoomStore)), Current(Files(RoomStore))}

RoomsBecome(rooms) ==
  /\ Current(Files(RoomStore)') = rooms
  /\ Before(Files(RoomStore)') \in {Before(Files(RoomStore)), Current(Files(RoomStore)),
                                    Current(Files(RoomStore)')}

ProfilesStay == ServedProfiles' \in {ServedProfiles, <<>>}

\* The Rooms that are served are those of the files.
RoomsView == ServedRooms = Current(Files(RoomStore))

LEMMA RoomsAreViewed ==
  ASSUME MarksAreNoValues, DesktopInv, ProfilesInv
  PROVE  RoomsView
<1>1. CASE phase = "down"
  BY <1>1 DEF ProfilesInv, LoadedInTime, RoomsView, ServedRooms, ViewRooms, Current
<1>2. CASE phase # "down"
  <2>1. UpToDate(Served(RoomStore))
    BY <1>2 DEF DesktopInv, StoreInv, RoomsServed
  <2>2. Served(RoomStore) \notin {NoFile, Damaged}
    BY <2>1 DEF UpToDate, MarksAreNoValues
  <2>3. ServedRooms = Served(RoomStore).rooms
    BY <2>2 DEF ServedRooms, Rooms, Unloaded
  <2>4. StartRooms(Files(RoomStore)) = Served(RoomStore)
    <3>1. CASE phase \in {"prepared", "migrated"}
      BY <3>1 DEF DesktopInv, StoreInv, RoomsServed
    <3>2. CASE RoomFile = Served(RoomStore)
      BY <2>1, <2>2, <3>2, UpToDateIsPrepared DEF StartRooms, RoomFile
    <3>3. CASE RoomFile = NoFile /\ Served(RoomStore) = Bundled
      BY <3>3 DEF StartRooms, RoomFile
    <3>. QED
      BY <1>2, <3>1, <3>2, <3>3 DEF DesktopInv, StoreInv, RoomsServed, Phases
  <2>. QED
    BY <2>3, <2>4 DEF RoomsView, Current
<1>. QED
  BY <1>1, <1>2

\* What a start reads of the Rooms is one of their files.
LEMMA OneFileIsRead ==
  ASSUME NEW pair, Repairable(RoomStore, pair)
  PROVE  ReadFile(RoomStore, pair) \in FilesOf(pair) \cup {NoFile}
<1>1. ReadFile(RoomStore, pair) = ReadRecovered(pair)
  BY ReadRooms
<1>2. ReadRecovered(pair) # Damaged
  BY DEF ReadRecovered, Repairable, Unguarded, RoomStore
<1>. QED
  BY <1>1, <1>2 DEF ReadRecovered, FilesOf

\* The profiles that are served need no migration any more.
LEMMA ProfilesAreSettled ==
  ASSUME DesktopInv, ProfilesInv
  PROVE  /\ \A f \in FilesOf(Files(RoomStore)) : MigratedFor(f, ServedProfiles) = ServedProfiles
         /\ RoomFile = NoFile \/ phase \notin {"down", "prepared"} => Chosen = ServedProfiles
<1>1. \A f \in FilesOf(Files(RoomStore)) : MigratedFor(f, ServedProfiles) = ServedProfiles
  BY MigratedTwice DEF ProfilesInv, OneOwner
<1>2. RoomFile = NoFile => MigratedFor(RoomFile, Chosen) = Chosen
  BY NothingToMigrate
<1>3. RoomFile = NoFile => Chosen = ServedProfiles
  BY <1>2 DEF Chosen, ServedProfiles, ViewProfiles
<1>4. phase \notin {"down", "prepared"} => Chosen = ServedProfiles
  BY DEF DesktopInv, StoreInv, RoomsServed, Phases, ProfilesInv, LoadedInTime, Chosen,
     ServedProfiles
<1>. QED
  BY <1>1, <1>3, <1>4

\* A snapshot that is up to date asks for no migration.
LEMMA UpToDateNeedsNone ==
  ASSUME NEW f, UpToDate(f), NEW profiles
  PROVE  MigratedFor(f, profiles) = profiles /\ ~HasOldOwner(f)
BY OwnerIsPresent DEF UpToDate, MigratedFor

\* When whatever is read next gives the same profiles, they are the ones that are served.
LEMMA ProfilesFollow ==
  ASSUME DesktopInv', NEW w,
         \A f \in FilesOf(Files(RoomStore)') : /\ MigratedFor(f, Chosen') = w
                                               /\ HasOldOwner(f) => OwnerOf(f) # Codex,
         ReadFile(RoomStore, Files(RoomStore)') = NoFile => Chosen' = w,
         Served("profiles")' # Unloaded => Chosen' = w
  PROVE  OneOwner' /\ ServedProfiles' = w
<1>1. RoomStore \in Stores
  BY DEF Stores
<1>2. Repairable(RoomStore, Files(RoomStore)')
  BY <1>1 DEF DesktopInv, StoreInv, StoresOK
<1>3. RoomFile' = ReadFile(RoomStore, Files(RoomStore)')
  BY DEF RoomFile
<1>4. RoomFile' \in FilesOf(Files(RoomStore)') \cup {NoFile}
  BY <1>2, <1>3, OneFileIsRead
<1>5. CASE Served("profiles")' = Unloaded
  <2>1. ServedProfiles' = MigratedFor(RoomFile', Chosen')
    BY <1>5 DEF ServedProfiles, ViewProfiles, Chosen
  <2>2. RoomFile' = NoFile => MigratedFor(RoomFile', Chosen') = Chosen'
    BY NothingToMigrate
  <2>3. ServedProfiles' = w
    BY <1>3, <1>4, <2>1, <2>2
  <2>. QED
    BY <2>3 DEF OneOwner
<1>6. CASE Served("profiles")' # Unloaded
  <2>1. ServedProfiles' = w
    BY <1>6 DEF ServedProfiles, Chosen
  <2>. QED
    BY <2>1 DEF OneOwner
<1>. QED
  BY <1>5, <1>6

-----------------------------------------------------------------------------
(* The end of the process.                                                  *)

\* What the next start reads of the profiles, when no write of them was cut.
LEMMA ProfilesOnFile ==
  ASSUME DesktopInv, ProfilesInv
  PROVE  ReadValue("profiles", Files("profiles")) \in {Chosen, <<>>}
<1>1. CASE phase # "running"
  BY <1>1 DEF DesktopInv, StoreInv, RoomsServed, Phases, ProfilesInv, LoadedInTime, Chosen
<1>2. CASE phase = "running"
  <2>1. SettingServed("profiles") /\ Served("profiles") # Unloaded
    BY <1>2 DEF DesktopInv, StoreInv, SettingsServed, Settings, ProfilesInv, LoadedInTime
  <2>2. CASE LostPrimary("profiles")
    <3>1. ReadFile("profiles", Files("profiles")) = NoFile
      BY <2>2, SnapshotConstants
      DEF LostPrimary, ReadFile, NoBackupForDamage, NeedsPrimary, ReadOrDefault
    <3>. QED
      BY <3>1 DEF ReadValue, DefaultOf, RoomStore
  <2>3. CASE ~LostPrimary("profiles")
    BY <2>1, <2>3 DEF SettingServed, Chosen
  <2>. QED
    BY <2>2, <2>3
<1>. QED
  BY <1>1, <1>2

\* The process ends with files from which every start makes the profiles w.
LEMMA EndFollows ==
  ASSUME MarksAreNoValues, DesktopInv, DesktopInv', ProfilesInv,
         NEW store \in Stores, NEW pair, End(store, pair),
         \A f \in FilesOf(Files(RoomStore)') : f \in FilesOf(Files(RoomStore)) \/ UpToDate(f),
         phase \in {"down", "prepared"} =>
           FilesOf(Files(RoomStore)') \subseteq FilesOf(Files(RoomStore)),
         ReadFile(RoomStore, Files(RoomStore)') = NoFile => RoomFile = NoFile,
         NEW next, ReadValue("profiles", Files("profiles")') = next,
         NEW w, \A f \in FilesOf(Files(RoomStore)) : MigratedFor(f, next) = w,
         RoomFile = NoFile \/ phase \notin {"down", "prepared"} => next = w
  PROVE  ProfilesInv' /\ ServedProfiles' = w
<1>1. /\ phase' = "down"
      /\ Served(RoomStore)' = Unloaded /\ Served("profiles")' = Unloaded
  BY DEF End, Served, Stores, Settings
<1>2. Chosen' = next
  BY <1>1 DEF Chosen
<1>3. ASSUME NEW f \in FilesOf(Files(RoomStore)')
      PROVE  MigratedFor(f, Chosen') = w /\ (HasOldOwner(f) => OwnerOf(f) # Codex)
  <2>1. CASE f \in FilesOf(Files(RoomStore))
    BY <1>2, <2>1 DEF ProfilesInv, OneOwner
  <2>2. CASE f \notin FilesOf(Files(RoomStore))
    BY <1>2, <2>2, UpToDateNeedsNone
  <2>. QED
    BY <2>1, <2>2
<1>4. OneOwner' /\ ServedProfiles' = w
  BY <1>1, <1>2, <1>3, ProfilesFollow
<1>5. LoadedInTime'
  BY <1>1 DEF LoadedInTime
<1>. QED
  BY <1>4, <1>5 DEF ProfilesInv

\* The process ends and the profiles stay, or were lost by an earlier write.
LEMMA EndStays ==
  ASSUME MarksAreNoValues, DesktopInv, DesktopInv', ProfilesInv,
         NEW store \in Stores, NEW pair, End(store, pair),
         \A f \in FilesOf(Files(RoomStore)') : f \in FilesOf(Files(RoomStore)) \/ UpToDate(f),
         phase \in {"down", "prepared"} =>
           FilesOf(Files(RoomStore)') \subseteq FilesOf(Files(RoomStore)),
         ReadFile(RoomStore, Files(RoomStore)') = NoFile => RoomFile = NoFile,
         ReadValue("profiles", Files("profiles")') \in {Chosen, ServedProfiles, <<>>}
  PROVE  ProfilesInv' /\ ProfilesStay
<1>. DEFINE next == ReadValue("profiles", Files("profiles")')
            w == IF next = Chosen THEN ServedProfiles ELSE next
<1>1. /\ \A f \in FilesOf(Files(RoomStore)) : MigratedFor(f, ServedProfiles) = ServedProfiles
      /\ RoomFile = NoFile \/ phase \notin {"down", "prepared"} => Chosen = ServedProfiles
  BY ProfilesAreSettled
<1>. HIDE DEF next
<1>2. next \in {Chosen, ServedProfiles, <<>>}
  BY DEF next
<1>3. \A f \in FilesOf(Files(RoomStore)) : MigratedFor(f, next) = w
  BY <1>1, <1>2, MigratedTwice DEF ProfilesInv, OneOwner
<1>4. RoomFile = NoFile \/ phase \notin {"down", "prepared"} => next = w
  BY <1>1, <1>2
<1>5. w \in {ServedProfiles, <<>>}
  BY <1>2
<1>. HIDE DEF w
<1>6. ReadValue("profiles", Files("profiles")') = next
  BY DEF next
<1>7. ProfilesInv' /\ ServedProfiles' = w
  BY <1>3, <1>4, <1>6, EndFollows
<1>. QED
  BY <1>5, <1>7 DEF ProfilesStay

LEMMA CrashFollows ==
  ASSUME MarksAreNoValues, DesktopInv, DesktopInv', ProfilesInv, End(RoomStore, Files(RoomStore))
  PROVE  ProfilesInv' /\ ProfilesStay /\ Files(RoomStore)' = Files(RoomStore)
<1>1. RoomStore \in Stores /\ "profiles" \in Stores \ {RoomStore}
  BY DEF Stores, Settings, RoomStore
<1>2. Files(RoomStore)' = Files(RoomStore) /\ Files("profiles")' = Files("profiles")
  BY <1>1, EndStores
<1>3. ReadValue("profiles", Files("profiles")') \in {Chosen, <<>>}
  BY <1>2, ProfilesOnFile
<1>4. ReadFile(RoomStore, Files(RoomStore)') = RoomFile
  BY <1>2 DEF RoomFile
<1>. QED
  BY <1>1, <1>2, <1>3, <1>4, EndStays

-----------------------------------------------------------------------------
(* Writes of the running desktop.                                           *)

\* Nothing of the Rooms and profiles changes with stores that stay.
LEMMA StoresStayed ==
  ASSUME ProfilesInv, UNCHANGED <<stores, phase>>
  PROVE  /\ ProfilesInv' /\ ServedProfiles' = ServedProfiles
         /\ Files(RoomStore)' = Files(RoomStore)
<1>1. \A s : Served(s)' = Served(s) /\ Files(s)' = Files(s)
  BY DEF Served, Files
<1>2. RoomFile' = RoomFile /\ Chosen' = Chosen
  BY <1>1 DEF RoomFile, Chosen
<1>3. ServedProfiles' = ServedProfiles
  BY <1>1, <1>2 DEF ServedProfiles, ViewProfiles
<1>. QED
  BY <1>1, <1>2, <1>3 DEF ProfilesInv, LoadedInTime, OneOwner

\* A step that leaves the phase and the stores but one alone, and what is served of the
\* profiles, in a desktop that has loaded them.
LEMMA ServedProfilesStay ==
  ASSUME DesktopInv, DesktopInv', ProfilesInv, phase \in {"migrated", "committed", "running"},
         Served("profiles")' = Served("profiles"),
         \A f \in FilesOf(Files(RoomStore)') : f \in FilesOf(Files(RoomStore)) \/ UpToDate(f)
  PROVE  OneOwner' /\ ServedProfiles' = ServedProfiles
<1>1. /\ \A f \in FilesOf(Files(RoomStore)) : MigratedFor(f, ServedProfiles) = ServedProfiles
      /\ Chosen = ServedProfiles
  BY ProfilesAreSettled
<1>2. Served("profiles") # Unloaded
  BY DEF ProfilesInv, LoadedInTime
<1>3. Chosen' = ServedProfiles
  BY <1>1, <1>2 DEF Chosen
<1>4. \A f \in FilesOf(Files(RoomStore)') : /\ MigratedFor(f, Chosen') = ServedProfiles
                                            /\ HasOldOwner(f) => OwnerOf(f) # Codex
  BY <1>1, <1>3, UpToDateNeedsNone DEF ProfilesInv, OneOwner
<1>. QED
  BY <1>3, <1>4, ProfilesFollow

\* The files of the Rooms after a write of an up to date snapshot.
LEMMA RoomFilesWritten ==
  ASSUME MarksAreNoValues, DesktopInv, NEW value, UpToDate(value), NEW new,
         new \in WriteRefused(RoomStore, Files(RoomStore))
                   \cup WriteCut(RoomStore, Files(RoomStore), value),
         Files(RoomStore)' = new
  PROVE  /\ RoomsStay \/ RoomsBecome(value.rooms)
         /\ \A f \in FilesOf(Files(RoomStore)') : f \in FilesOf(Files(RoomStore)) \/ UpToDate(f)
         /\ ReadFile(RoomStore, Files(RoomStore)') \in {RoomFile, value}
<1>1. RoomStore \in Stores
  BY DEF Stores
<1>2. IsPair(Files(RoomStore)) /\ Repairable(RoomStore, Files(RoomStore))
  BY <1>1 DEF DesktopInv, StoreInv, StoresOK
<1>3. value \notin {NoFile, Damaged}
  BY DEF UpToDate, MarksAreNoValues
<1>4. Prepared(value) = value
  BY UpToDateIsPrepared
<1>5. FilesOf(new) \subseteq FilesOf(Files(RoomStore)) \cup {value}
  BY <1>1, <1>2, <1>3, CutPairs
<1>6. \/ /\ ReadFile(RoomStore, new) = ReadFile(RoomStore, Files(RoomStore))
         /\ Current(new) = Current(Files(RoomStore))
         /\ Before(new) \in {Before(Files(RoomStore)), Current(Files(RoomStore))}
      \/ /\ ReadFile(RoomStore, new) = value
         /\ Current(new) = value.rooms
         /\ Before(new) \in {Before(Files(RoomStore)), Current(Files(RoomStore)), Current(new)}
  BY <1>2, <1>3, <1>4, RoomsWritten
<1>. QED
  BY <1>5, <1>6 DEF RoomsStay, RoomsBecome, RoomFile

\* The files after any write, saved ones included.
LEMMA WrittenIsCut ==
  ASSUME NEW store, NEW pair, NEW value
  PROVE  Written(store, pair, value) \in WriteCut(store, pair, value)
BY DEF Written, WriteCut, Cut

\* A command on the Rooms.
LEMMA RoomsFollow ==
  ASSUME MarksAreNoValues, DesktopInv, DesktopInv', ProfilesInv,
         phase \in {"committed", "running"},
         NEW value, UpToDate(value), NEW result, Persist(RoomStore, value, result)
  PROVE  ProfilesInv' /\ ProfilesStay /\ (RoomsStay \/ RoomsBecome(value.rooms))
<1>. DEFINE Outcomes == WriteRefused(RoomStore, Files(RoomStore))
                          \cup WriteCut(RoomStore, Files(RoomStore), value)
<1>1. RoomStore \in Stores /\ "profiles" \in Stores \ {RoomStore}
  BY DEF Stores, Settings, RoomStore
<1>2. value \notin {NoFile, Damaged}
  BY DEF UpToDate, MarksAreNoValues
<1>3. ASSUME NEW new \in Outcomes, NEW served, Put(RoomStore, served, new), phase' = phase
      PROVE  ProfilesInv' /\ ProfilesStay /\ (RoomsStay \/ RoomsBecome(value.rooms))
  <2>1. /\ Files(RoomStore)' = new
        /\ Served("profiles")' = Served("profiles") /\ Files("profiles")' = Files("profiles")
    BY <1>1, <1>3, PutStores DEF DesktopInv, StoreInv
  <2>2. /\ RoomsStay \/ RoomsBecome(value.rooms)
        /\ \A f \in FilesOf(Files(RoomStore)') : f \in FilesOf(Files(RoomStore)) \/ UpToDate(f)
    BY <2>1, RoomFilesWritten
  <2>3. OneOwner' /\ ServedProfiles' = ServedProfiles
    BY <2>1, <2>2, ServedProfilesStay
  <2>4. LoadedInTime'
    BY <1>3, <2>1 DEF ProfilesInv, LoadedInTime
  <2>. QED
    BY <2>2, <2>3, <2>4 DEF ProfilesInv, ProfilesStay
<1>4. ASSUME NEW new \in Outcomes, End(RoomStore, new)
      PROVE  ProfilesInv' /\ ProfilesStay /\ (RoomsStay \/ RoomsBecome(value.rooms))
  <2>1. Files(RoomStore)' = new /\ Files("profiles")' = Files("profiles")
    BY <1>1, <1>4, EndStores
  <2>2. /\ RoomsStay \/ RoomsBecome(value.rooms)
        /\ \A f \in FilesOf(Files(RoomStore)') : f \in FilesOf(Files(RoomStore)) \/ UpToDate(f)
        /\ ReadFile(RoomStore, Files(RoomStore)') \in {RoomFile, value}
    BY <2>1, RoomFilesWritten
  <2>3. ReadValue("profiles", Files("profiles")') \in {Chosen, <<>>}
    BY <2>1, ProfilesOnFile
  <2>4. ProfilesInv' /\ ProfilesStay
    BY <1>1, <1>2, <1>4, <2>2, <2>3, EndStays
  <2>. QED
    BY <2>2, <2>4
<1>5. CASE Save(RoomStore, value)
  <2>1. Written(RoomStore, Files(RoomStore), value) \in Outcomes
    BY WrittenIsCut
  <2>. QED
    BY <1>3, <1>5, <2>1 DEF Save
<1>6. CASE RefuseSave(RoomStore, Served(RoomStore))
  BY <1>3, <1>6 DEF RefuseSave
<1>7. CASE CutSave(RoomStore, value)
  BY <1>4, <1>7 DEF CutSave
<1>. QED
  BY <1>5, <1>6, <1>7 DEF Persist

\* A command on a settings store leaves the Rooms alone; the profiles get their new
\* value, or stay.
LEMMA SettingFollows ==
  ASSUME MarksAreNoValues, DesktopInv, DesktopInv', ProfilesInv, phase = "running",
         NEW store \in Settings, NEW value, IsSetting(value),
         NEW result, Persist(store, value, result),
         store = "profiles" => \E p \in {Owner, Codex}, v \in Profiles : value = With("profiles", p, v)
  PROVE  /\ ProfilesInv'
         /\ Files(RoomStore)' = Files(RoomStore)
         /\ ProfilesStay \/ (store = "profiles" /\ ServedProfiles' = value)
<1>. DEFINE Outcomes == WriteRefused(store, Files(store)) \cup WriteCut(store, Files(store), value)
<1>1. /\ store \in Stores \ {RoomStore} /\ RoomStore \in Stores \ {store}
      /\ "profiles" \in Stores
  BY DEF Stores, Settings, RoomStore
<1>2. value \notin {NoFile, Damaged}
  BY DEF IsSetting, MarksAreNoValues
<1>3. /\ \A f \in FilesOf(Files(RoomStore)) : MigratedFor(f, ServedProfiles) = ServedProfiles
      /\ Chosen = ServedProfiles
      /\ Served("profiles") # Unloaded /\ ServedProfiles = Served("profiles")
  BY ProfilesAreSettled DEF ProfilesInv, LoadedInTime, ServedProfiles
\* Nobody who gets a profile has the old ID of an owner.
<1>4. store = "profiles" =>
        \A f \in FilesOf(Files(RoomStore)) : MigratedFor(f, value) = value
  <2>. SUFFICES ASSUME store = "profiles", NEW f \in FilesOf(Files(RoomStore)), HasOldOwner(f)
                PROVE  OwnerOf(f) \notin DOMAIN value
    BY NothingToMigrate
  <2>1. PICK p \in {Owner, Codex}, v \in Profiles : value = With("profiles", p, v)
    OBVIOUS
  <2>2. DOMAIN value = {p} \cup DOMAIN ServedProfiles
    <3>1. value = Over([q \in {p} |-> v], ServedProfiles)
      BY <1>3, <2>1 DEF With
    <3>2. DOMAIN [q \in {p} |-> v] = {p}
      OBVIOUS
    <3>. QED
      BY ONLY <3>1, <3>2 DEF Over
  <2>3. OwnerOf(f) \notin DOMAIN ServedProfiles
    <3>1. f # NoFile
      BY DEF FilesOf
    <3>. QED
      BY <1>3, <3>1, NothingToMigrate
  <2>4. OwnerOf(f) # Owner /\ OwnerOf(f) # Codex
    BY DEF HasOldOwner, ProfilesInv, OneOwner
  <2>. QED
    BY <2>2, <2>3, <2>4
<1>5. ASSUME NEW new \in Outcomes, NEW served \in {Served(store), value}, Put(store, served, new),
             phase' = phase
      PROVE  /\ ProfilesInv'
             /\ Files(RoomStore)' = Files(RoomStore)
             /\ ProfilesStay \/ (store = "profiles" /\ ServedProfiles' = value)
  <2>1. /\ Files(RoomStore)' = Files(RoomStore)
        /\ Served(store)' = served
        /\ \A s \in Stores \ {store} : Served(s)' = Served(s)
    BY <1>1, <1>5, PutStores DEF DesktopInv, StoreInv
  <2>2. Served("profiles")' # Unloaded
    BY <1>1, <1>2, <1>3, <2>1 DEF Unloaded
  <2>3. LoadedInTime'
    BY <1>5, <2>1, <2>2 DEF LoadedInTime
  <2>4. CASE Served("profiles")' = Served("profiles")
    <3>1. OneOwner' /\ ServedProfiles' = ServedProfiles
      BY <2>1, <2>4, ServedProfilesStay
    <3>. QED
      BY <2>1, <2>3, <3>1 DEF ProfilesInv, ProfilesStay
  <2>5. CASE store = "profiles" /\ served = value
    <3>1. Chosen' = value
      BY <2>1, <2>2, <2>5 DEF Chosen
    <3>2. \A f \in FilesOf(Files(RoomStore)') : /\ MigratedFor(f, Chosen') = value
                                                /\ HasOldOwner(f) => OwnerOf(f) # Codex
      BY <1>4, <2>1, <2>5, <3>1 DEF ProfilesInv, OneOwner
    <3>3. OneOwner' /\ ServedProfiles' = value
      BY <3>1, <3>2, ProfilesFollow
    <3>. QED
      BY <2>1, <2>3, <2>5, <3>3 DEF ProfilesInv
  <2>. QED
    BY <1>1, <2>1, <2>4, <2>5
<1>6. ASSUME NEW new \in Outcomes, End(store, new), MayFail(store)
      PROVE  /\ ProfilesInv'
             /\ Files(RoomStore)' = Files(RoomStore)
             /\ ProfilesStay \/ (store = "profiles" /\ ServedProfiles' = value)
  <2>1. /\ Files(RoomStore)' = Files(RoomStore)
        /\ store = "profiles" => Files("profiles")' = new
        /\ store # "profiles" => Files("profiles")' = Files("profiles")
    BY <1>1, <1>6, EndStores
  <2>2. ReadFile(RoomStore, Files(RoomStore)') = RoomFile
    BY <2>1 DEF RoomFile
  <2>3. CASE ReadValue("profiles", Files("profiles")') \in {Chosen, <<>>}
    <3>1. ProfilesInv' /\ ProfilesStay
      BY <1>1, <1>6, <2>1, <2>2, <2>3, EndStays
    <3>. QED
      BY <2>1, <3>1
  <2>4. CASE store = "profiles" /\ ReadValue("profiles", Files("profiles")') = value
    <3>1. ProfilesInv' /\ ServedProfiles' = value
      BY <1>1, <1>4, <1>6, <2>1, <2>2, <2>4, EndFollows
    <3>. QED
      BY <2>1, <2>4, <3>1
  <2>5. CASE store = "profiles"
    <3>1. IsPair(Files("profiles")) /\ Undamaged(Files("profiles"))
      BY <1>1 DEF DesktopInv, StoreInv, StoresOK, Repairable, Undamaged, SetsAside, Unguarded,
         RoomStore
    <3>2. MayBeCut("profiles", Files("profiles"))
      BY <1>6, <2>5 DEF MayFail, MayBeCut
    <3>3. ReadValue("profiles", new) \in {ReadValue("profiles", Files("profiles")), <<>>, value}
      BY <1>2, <1>6, <2>5, <3>1, <3>2, ProfilesWritten
    <3>. QED
      BY <2>1, <2>3, <2>4, <2>5, <3>3, ProfilesOnFile
  <2>6. CASE store # "profiles"
    BY <2>1, <2>3, <2>6, ProfilesOnFile
  <2>. QED
    BY <2>5, <2>6
<1>7. CASE Save(store, value)
  <2>1. Written(store, Files(store), value) \in Outcomes
    BY WrittenIsCut
  <2>. QED
    BY <1>5, <1>7, <2>1 DEF Save
<1>8. CASE RefuseSave(store, Served(store))
  BY <1>5, <1>8 DEF RefuseSave
<1>9. CASE CutSave(store, value)
  BY <1>6, <1>9 DEF CutSave
<1>. QED
  BY <1>7, <1>8, <1>9 DEF Persist

-----------------------------------------------------------------------------
(* The start, and damaged files.                                            *)

\* The files of the Rooms after a write of what is served anyway.
LEMMA RoomFilesRewritten ==
  ASSUME DesktopInv, NEW value, value \notin {NoFile, Damaged},
         Prepared(value).rooms = Current(Files(RoomStore)), NEW new,
         new \in WriteRefused(RoomStore, Files(RoomStore))
                   \cup WriteCut(RoomStore, Files(RoomStore), value),
         Files(RoomStore)' = new
  PROVE  /\ RoomsStay
         /\ FilesOf(Files(RoomStore)') \subseteq FilesOf(Files(RoomStore)) \cup {value}
         /\ ReadFile(RoomStore, Files(RoomStore)') \in {RoomFile, value}
<1>1. RoomStore \in Stores
  BY DEF Stores
<1>2. IsPair(Files(RoomStore)) /\ Repairable(RoomStore, Files(RoomStore))
  BY <1>1 DEF DesktopInv, StoreInv, StoresOK
<1>3. FilesOf(new) \subseteq FilesOf(Files(RoomStore)) \cup {value}
  BY <1>1, <1>2, CutPairs
<1>4. \/ /\ ReadFile(RoomStore, new) = ReadFile(RoomStore, Files(RoomStore))
         /\ Current(new) = Current(Files(RoomStore))
         /\ Before(new) \in {Before(Files(RoomStore)), Current(Files(RoomStore))}
      \/ /\ ReadFile(RoomStore, new) = value
         /\ Current(new) = Prepared(value).rooms
         /\ Before(new) \in {Before(Files(RoomStore)), Current(Files(RoomStore)), Current(new)}
  BY <1>2, RoomsWritten
<1>. QED
  BY <1>3, <1>4 DEF RoomsStay, RoomFile

LEMMA PrepareFollows ==
  ASSUME MarksAreNoValues, DesktopInv, DesktopInv', ProfilesInv, PrepareRooms
  PROVE  ProfilesInv' /\ ProfilesStay /\ RoomsStay
<1>. DEFINE value == StartRooms(Files(RoomStore))
            written == IF Files(RoomStore).primary = Damaged THEN RoomFile ELSE NoFile
            Outcomes == WriteRefused(RoomStore, Files(RoomStore))
                          \cup WriteCut(RoomStore, Files(RoomStore), written)
<1>1. RoomStore \in Stores /\ "profiles" \in Stores \ {RoomStore}
  BY DEF Stores, Settings, RoomStore
<1>2. phase = "down" /\ LoadAfterWrite(RoomStore, value, written, "prepared")
  BY DEF PrepareRooms
<1>3. written # NoFile => /\ written = RoomFile /\ written \in FilesOf(Files(RoomStore))
                          /\ written # Damaged
                          /\ Prepared(written).rooms = Current(Files(RoomStore))
  <2>1. RoomFile = NoFile \/ RoomFile \in FilesOf(Files(RoomStore))
    BY RoomFileIsSnapshot DEF DesktopInv
  <2>2. RoomFile # NoFile => Current(Files(RoomStore)) = Prepared(RoomFile).rooms
    BY DEF Current, StartRooms, RoomFile
  <2>. QED
    BY <2>1, <2>2 DEF FilesOf
<1>. HIDE DEF written
<1>4. ASSUME NEW new, Put(RoomStore, value, new), phase' = "prepared",
             FilesOf(new) \subseteq FilesOf(Files(RoomStore)), ReadFile(RoomStore, new) = RoomFile
      PROVE  ProfilesInv' /\ ProfilesStay
  <2>1. /\ Files(RoomStore)' = new
        /\ Served("profiles")' = Served("profiles") /\ Files("profiles")' = Files("profiles")
    BY <1>1, <1>4, PutStores DEF DesktopInv, StoreInv
  <2>2. Served("profiles") = Unloaded
    BY <1>2 DEF ProfilesInv, LoadedInTime
  <2>3. Chosen' = Chosen
    BY <2>1 DEF Chosen
  <2>4. \A f \in FilesOf(Files(RoomStore)') : /\ MigratedFor(f, Chosen') = ServedProfiles
                                              /\ HasOldOwner(f) => OwnerOf(f) # Codex
    BY <1>4, <2>1, <2>3 DEF ProfilesInv, OneOwner
  <2>5. ReadFile(RoomStore, Files(RoomStore)') = NoFile => Chosen' = ServedProfiles
    BY <1>4, <2>1, <2>3, ProfilesAreSettled
  <2>6. OneOwner' /\ ServedProfiles' = ServedProfiles
    BY <2>1, <2>2, <2>4, <2>5, ProfilesFollow
  <2>7. LoadedInTime'
    BY <1>4, <2>1, <2>2 DEF LoadedInTime
  <2>. QED
    BY <2>6, <2>7 DEF ProfilesInv, ProfilesStay
<1>5. CASE written = NoFile /\ Put(RoomStore, value, Files(RoomStore)) /\ phase' = "prepared"
  <2>1. ProfilesInv' /\ ProfilesStay
    BY <1>4, <1>5 DEF RoomFile
  <2>2. Files(RoomStore)' = Files(RoomStore)
    BY <1>1, <1>5, PutStores DEF DesktopInv, StoreInv
  <2>. QED
    BY <2>1, <2>2 DEF RoomsStay
<1>6. CASE /\ written # NoFile /\ phase' = "prepared"
           /\ Put(RoomStore, value, Written(RoomStore, Files(RoomStore), written))
  <2>1. PICK new \in Outcomes : Put(RoomStore, value, new)
    BY <1>6, WrittenIsCut
  <2>2. Files(RoomStore)' = new
    BY <1>1, <2>1, PutStores DEF DesktopInv, StoreInv
  <2>3. /\ RoomsStay
        /\ FilesOf(new) \subseteq FilesOf(Files(RoomStore)) \cup {written}
        /\ ReadFile(RoomStore, new) \in {RoomFile, written}
    BY <1>3, <1>6, <2>1, <2>2, RoomFilesRewritten
  <2>4. FilesOf(new) \subseteq FilesOf(Files(RoomStore)) /\ ReadFile(RoomStore, new) = RoomFile
    BY <1>3, <1>6, <2>3
  <2>. QED
    BY <1>4, <1>6, <2>1, <2>3, <2>4
<1>7. CASE written # NoFile /\ \E new \in Outcomes : End(RoomStore, new)
  <2>1. PICK new \in Outcomes : End(RoomStore, new)
    BY <1>7
  <2>2. Files(RoomStore)' = new /\ Files("profiles")' = Files("profiles")
    BY <1>1, <2>1, EndStores
  <2>3. /\ RoomsStay
        /\ FilesOf(new) \subseteq FilesOf(Files(RoomStore)) \cup {written}
        /\ ReadFile(RoomStore, new) \in {RoomFile, written}
    BY <1>3, <1>7, <2>1, <2>2, RoomFilesRewritten
  <2>4. /\ FilesOf(Files(RoomStore)') \subseteq FilesOf(Files(RoomStore))
        /\ ReadFile(RoomStore, Files(RoomStore)') = RoomFile
    BY <1>3, <1>7, <2>2, <2>3
  <2>5. ReadValue("profiles", Files("profiles")') \in {Chosen, <<>>}
    BY <2>2, ProfilesOnFile
  <2>6. ProfilesInv' /\ ProfilesStay
    BY <1>1, <2>1, <2>4, <2>5, EndStays
  <2>. QED
    BY <2>3, <2>6
<1>. QED
  BY <1>2, <1>5, <1>6, <1>7 DEF LoadAfterWrite

LEMMA MigrateFollows ==
  ASSUME MarksAreNoValues, DesktopInv, DesktopInv', ProfilesInv, MigrateProfiles
  PROVE  ProfilesInv' /\ ProfilesStay /\ Files(RoomStore)' = Files(RoomStore)
<1>. DEFINE loaded == ReadValue("profiles", Files("profiles"))
            migrated == MigratedFor(RoomFile, loaded)
            written == IF migrated # loaded THEN migrated ELSE NoFile
            Outcomes == WriteRefused("profiles", Files("profiles"))
                          \cup WriteCut("profiles", Files("profiles"), written)
<1>1. "profiles" \in Stores /\ RoomStore \in Stores \ {"profiles"}
  BY DEF Stores, Settings, RoomStore
<1>2. phase = "prepared" /\ LoadAfterWrite("profiles", migrated, written, "migrated")
  BY DEF MigrateProfiles
<1>3. Served("profiles") = Unloaded /\ loaded = Chosen /\ migrated = ServedProfiles
  BY <1>2 DEF ProfilesInv, LoadedInTime, Chosen, ServedProfiles, ViewProfiles
<1>4. loaded \notin {NoFile, Damaged}
  <2>1. IsFunction(DefaultOf("profiles"))
    BY DEF IsFunction, DefaultOf, RoomStore
  <2>. QED
    BY <2>1 DEF ReadValue, MarksAreNoValues
<1>5. migrated # loaded => /\ migrated \notin {NoFile, Damaged}
                           /\ Files("profiles").primary # NoFile
  <2>. SUFFICES ASSUME migrated # loaded
                PROVE  /\ migrated \notin {NoFile, Damaged}
                       /\ Files("profiles").primary # NoFile
    OBVIOUS
  <2>1. IsFunction(migrated)
    BY DEF MigratedFor, Migrated, IsFunction
  <2>2. loaded # <<>>
    BY MigratedTwice
  <2>3. Files("profiles").primary # NoFile
    BY <2>2, SnapshotConstants DEF ReadValue, ReadFile, NoBackupForDamage, NeedsPrimary,
       ReadOrDefault, DefaultOf, RoomStore
  <2>. QED
    BY <2>1, <2>3 DEF MarksAreNoValues
<1>6. /\ written = NoFile => migrated = loaded
      /\ written # NoFile => written = migrated /\ migrated # loaded
  BY <1>5
<1>7. /\ IsPair(Files("profiles")) /\ Undamaged(Files("profiles"))
      /\ Repairable("profiles", Files("profiles"))
  BY <1>1 DEF DesktopInv, StoreInv, StoresOK, Repairable, Undamaged, SetsAside, Unguarded,
     RoomStore
<1>. HIDE DEF loaded, migrated, written
<1>8. ASSUME NEW new, Put("profiles", migrated, new), phase' = "migrated",
             ReadValue("profiles", new) = migrated
      PROVE  ProfilesInv' /\ ProfilesStay /\ Files(RoomStore)' = Files(RoomStore)
  <2>1. /\ Files(RoomStore)' = Files(RoomStore)
        /\ Served("profiles")' = migrated /\ Files("profiles")' = new
    BY <1>1, <1>8, PutStores DEF DesktopInv, StoreInv
  <2>2. migrated # Unloaded
    BY <1>4, <1>5 DEF Unloaded
  <2>3. Chosen' = migrated
    BY <2>1, <2>2 DEF Chosen
  <2>4. \A f \in FilesOf(Files(RoomStore)') : /\ MigratedFor(f, Chosen') = migrated
                                              /\ HasOldOwner(f) => OwnerOf(f) # Codex
    BY <1>3, <2>1, <2>3, ProfilesAreSettled DEF ProfilesInv, OneOwner
  <2>5. OneOwner' /\ ServedProfiles' = migrated
    BY <2>3, <2>4, ProfilesFollow
  <2>6. LoadedInTime'
    BY <1>8, <2>1, <2>2 DEF LoadedInTime
  <2>. QED
    BY <1>3, <2>1, <2>5, <2>6 DEF ProfilesInv, ProfilesStay
<1>9. CASE written = NoFile /\ Put("profiles", migrated, Files("profiles")) /\ phase' = "migrated"
  BY <1>6, <1>8, <1>9 DEF loaded
<1>10. CASE /\ written # NoFile /\ phase' = "migrated"
            /\ Put("profiles", migrated, Written("profiles", Files("profiles"), written))
  <2>1. ReadFile("profiles", Written("profiles", Files("profiles"), written)) = migrated
    BY <1>1, <1>5, <1>6, <1>7, <1>10, WrittenIsRead
  <2>2. ReadValue("profiles", Written("profiles", Files("profiles"), written)) = migrated
    BY <1>5, <1>6, <1>10, <2>1 DEF ReadValue
  <2>. QED
    BY <1>8, <1>10, <2>2
<1>11. CASE written # NoFile /\ \E new \in Outcomes : End("profiles", new)
  <2>1. PICK new \in Outcomes : End("profiles", new)
    BY <1>11
  <2>2. Files(RoomStore)' = Files(RoomStore) /\ Files("profiles")' = new
    BY <1>1, <2>1, EndStores
  <2>3. MayBeCut("profiles", Files("profiles"))
    BY <1>5, <1>6, <1>11 DEF MayBeCut
  <2>4. ReadValue("profiles", new) \in {loaded, <<>>, written}
    BY <1>5, <1>6, <1>7, <1>11, <2>3, ProfilesWritten DEF loaded
  <2>5. ReadValue("profiles", Files("profiles")') \in {Chosen, ServedProfiles, <<>>}
    BY <1>3, <1>6, <1>11, <2>2, <2>4
  <2>6. ReadFile(RoomStore, Files(RoomStore)') = RoomFile
    BY <2>2 DEF RoomFile
  <2>7. ProfilesInv' /\ ProfilesStay
    BY <1>1, <2>1, <2>2, <2>5, <2>6, EndStays
  <2>. QED
    BY <2>2, <2>7
<1>. QED
  BY <1>2, <1>9, <1>10, <1>11 DEF LoadAfterWrite

LEMMA CommitFollows ==
  ASSUME MarksAreNoValues, DesktopInv, DesktopInv', ProfilesInv, CommitRooms
  PROVE  ProfilesInv' /\ ProfilesStay /\ RoomsStay
<1>. DEFINE value == Served(RoomStore)
            written == IF RoomFile \in {NoFile, value} THEN NoFile ELSE value
            Outcomes == WriteRefused(RoomStore, Files(RoomStore))
                          \cup WriteCut(RoomStore, Files(RoomStore), written)
<1>1. RoomStore \in Stores /\ "profiles" \in Stores \ {RoomStore}
  BY DEF Stores, Settings, RoomStore
<1>2. phase = "migrated" /\ LoadAfterWrite(RoomStore, value, written, "committed")
  BY DEF CommitRooms
<1>3. UpToDate(value) /\ value = StartRooms(Files(RoomStore)) /\ value \notin {NoFile, Damaged}
  BY <1>2 DEF DesktopInv, StoreInv, RoomsServed, UpToDate, MarksAreNoValues
<1>4. written # NoFile => /\ written = value
                          /\ Prepared(written).rooms = Current(Files(RoomStore))
  BY <1>3, UpToDateIsPrepared DEF Current
<1>. HIDE DEF value, written
<1>5. ASSUME NEW new, Put(RoomStore, value, new), phase' = "committed",
             \A f \in FilesOf(new) : f \in FilesOf(Files(RoomStore)) \/ UpToDate(f)
      PROVE  ProfilesInv' /\ ProfilesStay
  <2>1. /\ Files(RoomStore)' = new
        /\ Served("profiles")' = Served("profiles") /\ Files("profiles")' = Files("profiles")
    BY <1>1, <1>5, PutStores DEF DesktopInv, StoreInv
  <2>2. OneOwner' /\ ServedProfiles' = ServedProfiles
    BY <1>2, <1>5, <2>1, ServedProfilesStay
  <2>3. LoadedInTime'
    BY <1>2, <1>5, <2>1 DEF ProfilesInv, LoadedInTime
  <2>. QED
    BY <2>2, <2>3 DEF ProfilesInv, ProfilesStay
<1>6. CASE written = NoFile /\ Put(RoomStore, value, Files(RoomStore)) /\ phase' = "committed"
  <2>1. ProfilesInv' /\ ProfilesStay
    BY <1>5, <1>6
  <2>2. Files(RoomStore)' = Files(RoomStore)
    BY <1>1, <1>6, PutStores DEF DesktopInv, StoreInv
  <2>. QED
    BY <2>1, <2>2 DEF RoomsStay
<1>7. CASE /\ written # NoFile /\ phase' = "committed"
           /\ Put(RoomStore, value, Written(RoomStore, Files(RoomStore), written))
  <2>1. PICK new \in Outcomes : Put(RoomStore, value, new)
    BY <1>7, WrittenIsCut
  <2>2. Files(RoomStore)' = new
    BY <1>1, <2>1, PutStores DEF DesktopInv, StoreInv
  <2>3. RoomsStay /\ FilesOf(new) \subseteq FilesOf(Files(RoomStore)) \cup {written}
    BY <1>3, <1>4, <1>7, <2>1, <2>2, RoomFilesRewritten
  <2>4. ProfilesInv' /\ ProfilesStay
    BY <1>3, <1>4, <1>5, <1>7, <2>1, <2>3
  <2>. QED
    BY <2>3, <2>4
<1>8. CASE written # NoFile /\ \E new \in Outcomes : End(RoomStore, new)
  <2>1. PICK new \in Outcomes : End(RoomStore, new)
    BY <1>8
  <2>2. Files(RoomStore)' = new /\ Files("profiles")' = Files("profiles")
    BY <1>1, <2>1, EndStores
  <2>3. /\ RoomsStay
        /\ FilesOf(Files(RoomStore)') \subseteq FilesOf(Files(RoomStore)) \cup {written}
        /\ ReadFile(RoomStore, Files(RoomStore)') \in {RoomFile, written}
    BY <1>3, <1>4, <1>8, <2>1, <2>2, RoomFilesRewritten
  <2>4. ReadValue("profiles", Files("profiles")') \in {Chosen, <<>>}
    BY <2>2, ProfilesOnFile
  <2>5. ProfilesInv' /\ ProfilesStay
    BY <1>1, <1>2, <1>3, <1>4, <1>8, <2>1, <2>3, <2>4, EndStays
  <2>. QED
    BY <2>3, <2>5
<1>. QED
  BY <1>2, <1>6, <1>7, <1>8 DEF LoadAfterWrite

LEMMA LoadFollows ==
  ASSUME DesktopInv, DesktopInv', ProfilesInv, LoadSettings
  PROVE  ProfilesInv' /\ ServedProfiles' = ServedProfiles /\ Files(RoomStore)' = Files(RoomStore)
<1>1. phase = "committed" /\ phase' = "running"
  BY DEF LoadSettings
<1>2. Files(RoomStore)' = Files(RoomStore) /\ Served("profiles")' = Served("profiles")
  BY DEF LoadSettings, Files, Served, DesktopInv, StoreInv, StoresOK, Stores, Settings, RoomStore
<1>3. OneOwner' /\ ServedProfiles' = ServedProfiles
  BY <1>1, <1>2, ServedProfilesStay
<1>4. LoadedInTime'
  BY <1>1, <1>2 DEF ProfilesInv, LoadedInTime
<1>. QED
  BY <1>2, <1>3, <1>4 DEF ProfilesInv

\* A damaged file takes the Rooms back by one write, or is not one of theirs.
LEMMA DamageFollows ==
  ASSUME DesktopInv, DesktopInv', ProfilesInv, NEW store \in Stores, Damage(store)
  PROVE  /\ ProfilesInv' /\ ServedProfiles' = ServedProfiles
         /\ \/ Files(RoomStore)' = Files(RoomStore)
            \/ /\ Current(Files(RoomStore)') = Before(Files(RoomStore))
               /\ Before(Files(RoomStore)') = Before(Files(RoomStore))
<1>1. /\ Files(store)' = [primary |-> Damaged, backup |-> Files(store).backup]
      /\ \A s \in Stores \ {store} : Files(s)' = Files(s)
      /\ \A s \in Stores : Served(s)' = Served(s)
  BY DamagedStores DEF DesktopInv, StoreInv
<1>2. /\ store # "profiles" /\ phase = "down" /\ phase' = "down"
      /\ Files(store).backup \notin {NoFile, Damaged}
  BY DEF Damage
<1>3. {"profiles", RoomStore} \subseteq Stores
  BY DEF Stores, Settings
<1>4. Chosen' = Chosen
  BY <1>1, <1>2, <1>3 DEF Chosen
<1>5. FilesOf(Files(RoomStore)') \subseteq FilesOf(Files(RoomStore))
  BY <1>1, <1>3 DEF FilesOf
<1>6. /\ \/ Files(RoomStore)' = Files(RoomStore)
         \/ /\ ReadFile(RoomStore, Files(RoomStore)') # NoFile
            /\ Current(Files(RoomStore)') = Before(Files(RoomStore))
            /\ Before(Files(RoomStore)') = Before(Files(RoomStore))
  <2>1. CASE store = RoomStore
    BY <1>1, <1>2, <2>1, RoomsDamaged
  <2>2. CASE store # RoomStore
    BY <1>1, <1>3, <2>2
  <2>. QED
    BY <2>1, <2>2
<1>7. Served("profiles")' = Unloaded
  BY <1>1, <1>2, <1>3 DEF ProfilesInv, LoadedInTime
<1>8. \A f \in FilesOf(Files(RoomStore)') : /\ MigratedFor(f, Chosen') = ServedProfiles
                                            /\ HasOldOwner(f) => OwnerOf(f) # Codex
  BY <1>4, <1>5 DEF ProfilesInv, OneOwner
<1>9. ReadFile(RoomStore, Files(RoomStore)') = NoFile => Chosen' = ServedProfiles
  BY <1>4, <1>6, ProfilesAreSettled DEF RoomFile
<1>10. OneOwner' /\ ServedProfiles' = ServedProfiles
  BY <1>7, <1>8, <1>9, ProfilesFollow
<1>11. LoadedInTime'
  BY <1>1, <1>2, <1>3 DEF ProfilesInv, LoadedInTime
<1>. QED
  BY <1>6, <1>10, <1>11 DEF ProfilesInv

-----------------------------------------------------------------------------
(* What the catalog does to the Rooms is what the service allows.           *)

\* The first half of Service!ByOrder, and what of it writes no message.
Rearranged ==
  \/ \E r \in DOMAIN ServedRooms : Service!Arrange(r) \/ Service!Delete(r)
  \/ \E r \in DOMAIN ServedRooms' \ DOMAIN ServedRooms : Service!Open(r)

Ordered == (\E r \in DOMAIN ServedRooms : Service!Post(r)) \/ Rearranged \/ Service!Restore

LEMMA AppendsAtTheEnd ==
  ASSUME NEW log, IsLog(log), NEW m
  PROVE  Len(Append(log, m)) = Len(log) + 1 /\ Append(log, m)[Len(log) + 1] = m
<1>. DEFINE S == ToSet(log) \cup {m}
<1>1. log \in Seq(S) /\ m \in S
  BY SeqMonotonic DEF IsLog
<1>. HIDE DEF S
<1>. QED
  BY <1>1

LEMMA AppendIsPost ==
  ASSUME NEW s, UpToDate(s), NEW m,
         ServedRooms = s.rooms, ServedRooms' = AppendMessage(s, m).snapshot.rooms
  PROVE  Ordered \/ ServedRooms' = ServedRooms
<1>1. CASE AppendMessage(s, m).snapshot = s
  BY <1>1
<1>2. CASE /\ ~\E n \in Messages(s) : n.id = m.id
           /\ CanAppend(s, m)
  <2>. DEFINE r == m.room
              q == s.rooms[r]
              log == q.log
              next == Len(log) + 1
  <2>1. r \in RoomIds(s) /\ IsRoom(q) /\ {m.author} \cup m.to \subseteq q.members
    BY <1>2 DEF CanAppend, UpToDate, IsSnapshot
  <2>2. ServedRooms' = [s.rooms EXCEPT ![r] = [q EXCEPT !.log = Append(log, m)]]
    <3>1. AppendMessage(s, m).snapshot = [s EXCEPT !.rooms[r].log = Append(@, m)]
      BY <1>2 DEF AppendMessage, Result
    <3>2. [s EXCEPT !.rooms[r].log = Append(@, m)].rooms
            = [s.rooms EXCEPT ![r] = [q EXCEPT !.log = Append(log, m)]]
      BY <2>1 DEF UpToDate, IsSnapshot, RoomIds
    <3>. QED
      BY <3>1, <3>2
  <2>3. s.rooms = [x \in RoomIds(s) |-> s.rooms[x]]
    BY DEF UpToDate, IsSnapshot, IsFunction, RoomIds
  <2>4. [q EXCEPT !.log = Append(log, m)].log = Append(log, m)
    BY <2>1 DEF IsRoom
  <2>5. /\ DOMAIN ServedRooms' = DOMAIN ServedRooms
        /\ ServedRooms'[r].log = Append(log, m)
    BY <2>1, <2>2, <2>3, <2>4 DEF RoomIds
  <2>6. Len(Append(log, m)) = next /\ Append(log, m)[next] = m
    BY <2>1, AppendsAtTheEnd DEF IsRoom
  <2>7. ServedRooms' = [ServedRooms EXCEPT ![r].log = Append(@, m)]
    BY <2>2
  <2>8. m.id \notin Service!AllIds
    <3>1. \A x \in DOMAIN s.rooms : \A i \in DOMAIN s.rooms[x].log : s.rooms[x].log[i].id # m.id
      BY <1>2 DEF Messages, MessagesIn, ToSet, RoomIds
    <3>. QED
      BY <3>1 DEF Service!AllIds
  <2>9. r \in DOMAIN ServedRooms
    BY <2>1 DEF RoomIds
  <2>. HIDE DEF next
  <2>10. /\ Len(ServedRooms'[r].log) = Len(ServedRooms[r].log) + 1
         /\ ServedRooms'[r].log[Len(ServedRooms[r].log) + 1] = m
         /\ {m.author} \cup m.to \subseteq ServedRooms[r].members
    BY <2>1, <2>5, <2>6 DEF next
  <2>. HIDE DEF r
  <2>11. Service!Post(r)
    BY <2>5, <2>7, <2>8, <2>10 DEF Service!Post
  <2>. QED
    BY <2>9, <2>11 DEF Ordered
<1>. QED
  BY <1>1, <1>2 DEF AppendMessage, Result

LEMMA CreateIsOpen ==
  ASSUME NEW s, UpToDate(s), NEW r, NEW name, NEW members,
         ServedRooms = s.rooms, ServedRooms' = CreateRoom(s, r, name, members).snapshot.rooms
  PROVE  Rearranged \/ ServedRooms' = ServedRooms
<1>1. CASE CreateRoom(s, r, name, members).snapshot = s
  BY <1>1
<1>2. CASE r \notin RoomIds(s)
           /\ CreateRoom(s, r, name, members).snapshot = PutRoom(s, r, NewRoom(name, members))
  <2>1. ServedRooms' = [q \in RoomIds(s) \cup {r} |->
                          IF q = r THEN NewRoom(name, members) ELSE s.rooms[q]]
    BY <1>2 DEF PutRoom, UpToDate, IsSnapshot
  <2>2. /\ DOMAIN ServedRooms' = DOMAIN ServedRooms \cup {r}
        /\ r \notin DOMAIN ServedRooms
        /\ ServedRooms'[r] = NewRoom(name, members)
        /\ \A q \in DOMAIN ServedRooms : ServedRooms'[q] = ServedRooms[q]
    BY <1>2, <2>1 DEF RoomIds
  <2>3. ServedRooms'[r].log = <<>>
    BY <2>2 DEF NewRoom
  <2>4. Service!Open(r)
    BY <2>2, <2>3 DEF Service!Open
  <2>. QED
    BY <2>2, <2>4 DEF Rearranged
<1>. QED
  BY <1>1, <1>2 DEF CreateRoom, Result

\* A Room gets another name or other members, but keeps those its messages name.
LEMMA ArrangedIsArrange ==
  ASSUME NEW s, UpToDate(s), NEW r \in RoomIds(s), NEW room,
         room.log = s.rooms[r].log,
         \A p \in s.rooms[r].members : InUse(s.rooms[r], p) => p \in room.members,
         ServedRooms = s.rooms, ServedRooms' = [s.rooms EXCEPT ![r] = room]
  PROVE  Rearranged
<1>1. s.rooms = [x \in RoomIds(s) |-> s.rooms[x]]
  BY DEF UpToDate, IsSnapshot, IsFunction, RoomIds
<1>2. /\ r \in DOMAIN ServedRooms
      /\ DOMAIN ServedRooms' = DOMAIN ServedRooms
      /\ ServedRooms'[r] = room
      /\ \A q \in DOMAIN ServedRooms \ {r} : ServedRooms'[q] = ServedRooms[q]
  BY <1>1 DEF RoomIds
<1>3. ServedRooms[r].members \cap Service!Named(ServedRooms[r]) \subseteq room.members
  <2>. SUFFICES ASSUME NEW p \in s.rooms[r].members, p \in Service!Named(s.rooms[r])
                PROVE  InUse(s.rooms[r], p)
    OBVIOUS
  <2>1. PICK i \in DOMAIN s.rooms[r].log :
           p \in {s.rooms[r].log[i].author} \cup s.rooms[r].log[i].to
    BY DEF Service!Named
  <2>2. s.rooms[r].log[i] \in MessagesIn(s.rooms[r])
    BY DEF MessagesIn, ToSet
  <2>. QED
    BY <2>1, <2>2 DEF InUse
<1>4. Service!Arrange(r)
  BY <1>2, <1>3 DEF Service!Arrange
<1>. QED
  BY <1>2, <1>4 DEF Rearranged

\* The Rooms after one of them was named or got its members anew.
LEMMA RenamedRooms ==
  ASSUME NEW s, UpToDate(s), NEW r \in RoomIds(s), NEW name
  PROVE  LET q == s.rooms[r]
         IN [s EXCEPT !.rooms[r].name = name].rooms
              = [s.rooms EXCEPT ![r] = [name |-> name, members |-> q.members, log |-> q.log]]
<1>. DEFINE q == s.rooms[r]
            new == [q EXCEPT !.name = name]
<1>1. IsRoom(q)
  BY DEF UpToDate, IsSnapshot
<1>2. new = [name |-> name, members |-> q.members, log |-> q.log]
  BY <1>1 DEF IsRoom
<1>3. [s EXCEPT !.rooms[r].name = name].rooms = [s.rooms EXCEPT ![r] = new]
  BY DEF UpToDate, IsSnapshot, RoomIds
<1>. HIDE DEF new
<1>. QED
  BY <1>2, <1>3

LEMMA RegroupedRooms ==
  ASSUME NEW s, UpToDate(s), NEW r \in RoomIds(s), NEW members
  PROVE  LET q == s.rooms[r]
         IN [s EXCEPT !.rooms[r].members = members].rooms
              = [s.rooms EXCEPT ![r] = [name |-> q.name, members |-> members, log |-> q.log]]
<1>. DEFINE q == s.rooms[r]
            new == [q EXCEPT !.members = members]
<1>1. IsRoom(q)
  BY DEF UpToDate, IsSnapshot
<1>2. new = [name |-> q.name, members |-> members, log |-> q.log]
  BY <1>1 DEF IsRoom
<1>3. [s EXCEPT !.rooms[r].members = members].rooms
        = [s.rooms EXCEPT ![r] = new]
  BY DEF UpToDate, IsSnapshot, RoomIds
<1>. HIDE DEF new
<1>. QED
  BY <1>2, <1>3

LEMMA RenameIsArrange ==
  ASSUME NEW s, UpToDate(s), NEW r \in RoomIds(s), NEW name,
         ServedRooms = s.rooms, ServedRooms' = RenameRoom(s, r, name).snapshot.rooms
  PROVE  Rearranged \/ ServedRooms' = ServedRooms
<1>. DEFINE q == s.rooms[r]
            room == [name |-> name, members |-> q.members, log |-> q.log]
<1>1. CASE RenameRoom(s, r, name).snapshot = s
  BY <1>1
<1>2. CASE RenameRoom(s, r, name).snapshot = [s EXCEPT !.rooms[r].name = name]
  <2>1. ServedRooms' = [s.rooms EXCEPT ![r] = room]
    BY <1>2, RenamedRooms
  <2>2. room.log = q.log /\ room.members = q.members
    OBVIOUS
  <2>. HIDE DEF room
  <2>. QED
    BY <2>1, <2>2, ArrangedIsArrange
<1>. QED
  BY <1>1, <1>2 DEF RenameRoom, Result

LEMMA JoinIsArrange ==
  ASSUME NEW s, UpToDate(s), NEW r \in RoomIds(s), NEW p,
         ServedRooms = s.rooms, ServedRooms' = AddMember(s, r, p).snapshot.rooms
  PROVE  Rearranged \/ ServedRooms' = ServedRooms
<1>. DEFINE q == s.rooms[r]
            room == [name |-> q.name, members |-> q.members \cup {p}, log |-> q.log]
<1>1. CASE AddMember(s, r, p).snapshot = s
  BY <1>1
<1>2. CASE AddMember(s, r, p).snapshot = [s EXCEPT !.rooms[r].members = q.members \cup {p}]
  <2>1. ServedRooms' = [s.rooms EXCEPT ![r] = room]
    <3>. DEFINE members == q.members \cup {p}
    <3>1. ServedRooms' = [s EXCEPT !.rooms[r].members = members].rooms
      BY <1>2
    <3>. HIDE DEF members
    <3>2. ServedRooms' = [s.rooms EXCEPT ![r] =
                            [name |-> q.name, members |-> members, log |-> q.log]]
      BY <3>1, RegroupedRooms
    <3>. QED
      BY <3>2 DEF members
  <2>2. room.log = q.log /\ room.members = q.members \cup {p}
    OBVIOUS
  <2>. HIDE DEF room
  <2>. QED
    BY <2>1, <2>2, ArrangedIsArrange
<1>. QED
  BY <1>1, <1>2 DEF AddMember, Result

LEMMA LeaveIsArrange ==
  ASSUME NEW s, UpToDate(s), NEW r \in RoomIds(s), NEW p,
         ServedRooms = s.rooms, ServedRooms' = RemoveMember(s, r, p).snapshot.rooms
  PROVE  Rearranged \/ ServedRooms' = ServedRooms
<1>. DEFINE q == s.rooms[r]
            room == [name |-> q.name, members |-> q.members \ {p}, log |-> q.log]
<1>1. CASE RemoveMember(s, r, p).snapshot = s
  BY <1>1
<1>2. CASE /\ RemoveMember(s, r, p).snapshot = [s EXCEPT !.rooms[r].members = q.members \ {p}]
           /\ ~InUse(q, p)
  <2>1. ServedRooms' = [s.rooms EXCEPT ![r] = room]
    <3>. DEFINE members == q.members \ {p}
    <3>1. ServedRooms' = [s EXCEPT !.rooms[r].members = members].rooms
      BY <1>2
    <3>. HIDE DEF members
    <3>2. ServedRooms' = [s.rooms EXCEPT ![r] =
                            [name |-> q.name, members |-> members, log |-> q.log]]
      BY <3>1, RegroupedRooms
    <3>. QED
      BY <3>2 DEF members
  <2>2. room.log = q.log /\ room.members = q.members \ {p}
    OBVIOUS
  <2>. HIDE DEF room
  <2>3. \A x \in q.members : InUse(q, x) => x \in room.members
    BY <1>2, <2>2
  <2>. QED
    BY <2>1, <2>2, <2>3, ArrangedIsArrange
<1>. QED
  BY <1>1, <1>2 DEF RemoveMember, Result

LEMMA DeleteIsDelete ==
  ASSUME NEW s, UpToDate(s), NEW r, r # BundledRoom,
         ServedRooms = s.rooms, ServedRooms' = DeleteRoom(s, r).snapshot.rooms
  PROVE  Rearranged \/ ServedRooms' = ServedRooms
<1>1. CASE DeleteRoom(s, r).snapshot = s
  BY <1>1
<1>2. CASE /\ r \in RoomIds(s)
           /\ DeleteRoom(s, r).snapshot =
                [s EXCEPT !.rooms = [q \in RoomIds(s) \ {r} |-> s.rooms[q]]]
  <2>1. ServedRooms' = [q \in RoomIds(s) \ {r} |-> s.rooms[q]]
    BY <1>2 DEF UpToDate, IsSnapshot
  <2>2. /\ r \in DOMAIN ServedRooms
        /\ DOMAIN ServedRooms' = DOMAIN ServedRooms \ {r}
        /\ \A q \in DOMAIN ServedRooms' : ServedRooms'[q] = ServedRooms[q]
    BY <1>2, <2>1 DEF RoomIds
  <2>3. Service!Delete(r)
    BY <2>2 DEF Service!Delete
  <2>. QED
    BY <2>2, <2>3 DEF Rearranged
<1>. QED
  BY <1>1, <1>2 DEF DeleteRoom, Result

-----------------------------------------------------------------------------
(* What a step does to the Rooms and profiles is a step of the service.      *)

\* A step of the service that is about the Rooms and the profiles, and those of them
\* that change no Room.
Upkeep == Service!Export \/ Service!SetProfile \/ Service!RollBack \/ Service!WriteAgain
Move == Service!ByOrder \/ Upkeep

LEMMA NextRoomsView ==
  ASSUME MarksAreNoValues
  PROVE  DesktopInv' /\ ProfilesInv' => RoomsView'
<1>1. DesktopInv /\ ProfilesInv => RoomsView
  BY RoomsAreViewed
<1>. QED
  BY <1>1, PTL

LEMMA RoomsOfTheFiles ==
  ASSUME MarksAreNoValues, DesktopInv, DesktopInv', ProfilesInv, ProfilesInv'
  PROVE  /\ ServedRooms = Current(Files(RoomStore)) /\ ServedRooms' = Current(Files(RoomStore)')
         /\ RoomsBefore = Before(Files(RoomStore)) /\ RoomsBefore' = Before(Files(RoomStore)')
<1>1. RoomsView
  BY RoomsAreViewed
<1>2. RoomsView'
  BY NextRoomsView
<1>. QED
  BY <1>1, <1>2 DEF RoomsView, RoomsBefore, ViewRooms, Current, Before

LEMMA RoomsStayed ==
  ASSUME MarksAreNoValues, DesktopInv, DesktopInv', ProfilesInv, ProfilesInv',
         RoomsStay, ProfilesStay, UNCHANGED backups
  PROVE  Service!WriteAgain
<1>1. ServedRooms' = ServedRooms /\ RoomsBefore' \in {ServedRooms, RoomsBefore}
  BY RoomsOfTheFiles DEF RoomsStay
<1>2. ExportedRooms' = ExportedRooms
  BY DEF ExportedRooms
<1>. QED
  BY <1>1, <1>2 DEF Service!WriteAgain, Service!KeepProfiles, ProfilesStay

LEMMA RoomsChanged ==
  ASSUME MarksAreNoValues, DesktopInv, DesktopInv', ProfilesInv, ProfilesInv',
         ProfilesStay, UNCHANGED backups,
         NEW rooms, RoomsStay \/ RoomsBecome(rooms),
         ServedRooms' = rooms => Ordered \/ ServedRooms' = ServedRooms
  PROVE  /\ Service!ByOrder \/ Service!WriteAgain
         /\ ServedRooms' \in {ServedRooms, rooms}
<1>1. CASE RoomsStay
  BY <1>1, RoomsStayed DEF Service!WriteAgain
<1>2. CASE RoomsBecome(rooms)
  <2>1. ServedRooms' = rooms /\ RoomsBefore' \in {RoomsBefore, ServedRooms, ServedRooms'}
    BY <1>2, RoomsOfTheFiles DEF RoomsBecome
  <2>2. ExportedRooms' = ExportedRooms
    BY DEF ExportedRooms
  <2>3. CASE Ordered
    BY <2>1, <2>2, <2>3 DEF Ordered, Rearranged, Service!ByOrder, Service!KeepProfiles, ProfilesStay
  <2>4. CASE ServedRooms' = ServedRooms
    BY <2>1, <2>2, <2>4 DEF Service!WriteAgain, Service!KeepProfiles, ProfilesStay
  <2>5. Ordered \/ ServedRooms' = ServedRooms
    BY <2>1
  <2>. QED
    BY <2>1, <2>3, <2>4, <2>5
<1>. QED
  BY <1>1, <1>2

\* A command on the Rooms.
LEMMA ChangeFollows ==
  ASSUME MarksAreNoValues, DesktopInv, DesktopInv', ProfilesInv,
         phase \in {"committed", "running"}, UNCHANGED backups,
         NEW answer, UpToDate(answer.snapshot), NEW result, Change(answer, result),
         ServedRooms' = answer.snapshot.rooms => Ordered \/ ServedRooms' = ServedRooms
  PROVE  ProfilesInv' /\ Move /\ ServedRooms' \in {ServedRooms, answer.snapshot.rooms}
<1>1. CASE answer.status = "refused"
  <2>1. UNCHANGED <<stores, phase>>
    BY <1>1 DEF Change, storeVars
  <2>2. ProfilesInv' /\ ProfilesStay /\ RoomsStay
    BY <2>1, StoresStayed DEF ProfilesStay, RoomsStay
  <2>. QED
    BY <2>2, RoomsStayed DEF Move, Upkeep, Service!WriteAgain
<1>2. CASE Persist(RoomStore, answer.snapshot, result)
  <2>1. ProfilesInv' /\ ProfilesStay /\ (RoomsStay \/ RoomsBecome(answer.snapshot.rooms))
    BY <1>2, RoomsFollow
  <2>. QED
    BY <2>1, RoomsChanged DEF Move, Upkeep
<1>. QED
  BY <1>1, <1>2 DEF Change

LEMMA ServedIsRooms ==
  ASSUME MarksAreNoValues, DesktopInv, phase \in {"committed", "running"}
  PROVE  ServedRooms = Rooms.rooms /\ UpToDate(Rooms)
<1>1. Rooms = Served(RoomStore) /\ UpToDate(Rooms)
  BY RoomsAreServed
<1>2. Served(RoomStore) # Unloaded
  BY <1>1 DEF UpToDate, MarksAreNoValues, Unloaded
<1>. QED
  BY <1>1, <1>2 DEF ServedRooms

LEMMA PostFollows ==
  ASSUME MarksAreNoValues, DesktopInv, DesktopInv', ProfilesInv,
         phase \in {"committed", "running"}, UNCHANGED backups,
         NEW m, "images" \in DOMAIN m, NEW result, Change(AppendMessage(Rooms, m), result)
  PROVE  /\ ProfilesInv' /\ Move
         /\ ServedRooms' \in {ServedRooms, AppendMessage(Rooms, m).snapshot.rooms}
<1>1. ServedRooms = Rooms.rooms /\ UpToDate(Rooms)
  BY ServedIsRooms
<1>2. UpToDate(AppendMessage(Rooms, m).snapshot)
  BY <1>1, AppendKeeps
<1>3. ServedRooms' = AppendMessage(Rooms, m).snapshot.rooms => Ordered \/ ServedRooms' = ServedRooms
  BY <1>1, AppendIsPost
<1>. QED
  BY <1>2, <1>3, ChangeFollows

LEMMA MessagesFollow ==
  ASSUME MarksAreNoValues, DesktopInv, DesktopInv', ProfilesInv,
         WriteMessage \/ McpPost
  PROVE  ProfilesInv' /\ Move
<1>1. \A id, r, author, to, text, proxy, images :
        "images" \in DOMAIN Message(id, r, author, to, text, proxy, images)
  BY DEF Message
<1>2. CASE WriteMessage
  <2>1. PICK m, result : Change(AppendMessage(Rooms, m), result) /\ "images" \in DOMAIN m
    BY <1>1, <1>2 DEF WriteMessage
  <2>2. phase \in {"committed", "running"} /\ UNCHANGED backups
    BY <1>2 DEF WriteMessage, Does, outside
  <2>. QED
    BY <2>1, <2>2, PostFollows
<1>3. CASE McpPost
  <2>1. PICK m, result : Change(AppendMessage(Rooms, m), result) /\ "images" \in DOMAIN m
    BY <1>1, <1>3 DEF McpPost
  <2>2. phase \in {"committed", "running"} /\ UNCHANGED backups
    BY <1>3 DEF McpPost, outside
  <2>. QED
    BY <2>1, <2>2, PostFollows
<1>. QED
  BY <1>2, <1>3

LEMMA RoomCommandsFollow ==
  ASSUME MarksAreNoValues, DesktopInv, DesktopInv', ProfilesInv,
         Create \/ Rename \/ Join \/ Leave \/ Delete
  PROVE  ProfilesInv' /\ Move /\ (Rearranged \/ ServedRooms' = ServedRooms)
<1>1. ASSUME NEW answer, RoomCommand(answer), Kept(Rooms, answer.snapshot),
             ServedRooms' = answer.snapshot.rooms => Rearranged \/ ServedRooms' = ServedRooms
      PROVE  ProfilesInv' /\ Move /\ (Rearranged \/ ServedRooms' = ServedRooms)
  <2>1. PICK result : Change(answer, result)
    BY <1>1 DEF RoomCommand
  <2>2. phase \in {"committed", "running"} /\ UNCHANGED backups
    BY <1>1 DEF RoomCommand, Command, Does, outside
  <2>. QED
    BY <1>1, <2>1, <2>2, ChangeFollows DEF Kept, Ordered
<1>2. ServedRooms = Rooms.rooms /\ UpToDate(Rooms)
  <2>1. phase = "running"
    BY DEF Create, Rename, Join, Leave, Delete, RoomCommand, Command, Does
  <2>. QED
    BY <2>1, ServedIsRooms
<1>3. CASE Create
  BY <1>1, <1>2, <1>3, CreateKeeps, CreateIsOpen DEF Create
<1>4. CASE Rename
  BY <1>1, <1>2, <1>4, RenameKeeps, RenameIsArrange DEF Rename
<1>5. CASE Join
  BY <1>1, <1>2, <1>5, MembersKeep, JoinIsArrange DEF Join
<1>6. CASE Leave
  BY <1>1, <1>2, <1>6, MembersKeep, LeaveIsArrange DEF Leave
<1>7. CASE Delete
  BY <1>1, <1>2, <1>7, DeleteKeeps, DeleteIsDelete DEF Delete
<1>. QED
  BY <1>3, <1>4, <1>5, <1>6, <1>7

\* With the files of the Rooms as they are the service keeps its Rooms.
LEMMA FilesStayed ==
  ASSUME MarksAreNoValues, DesktopInv, DesktopInv', ProfilesInv, ProfilesInv',
         Files(RoomStore)' = Files(RoomStore)
  PROVE  UNCHANGED <<ServedRooms, RoomsBefore>>
BY RoomsOfTheFiles

\* A step that is not about the stores, and may end the process.
LEMMA FaultFollows ==
  ASSUME MarksAreNoValues, DesktopInv, DesktopInv', ProfilesInv,
         \/ UNCHANGED storeVars
         \/ Fault /\ UNCHANGED <<stores, phase>>
         \/ Fault /\ End(RoomStore, Files(RoomStore))
  PROVE  ProfilesInv' /\ ProfilesStay /\ UNCHANGED <<ServedRooms, RoomsBefore>>
<1>1. ProfilesInv' /\ ProfilesStay /\ Files(RoomStore)' = Files(RoomStore)
  BY StoresStayed, CrashFollows DEF storeVars, ProfilesStay
<1>. QED
  BY <1>1, FilesStayed

LEMMA QuietFollows ==
  ASSUME MarksAreNoValues, DesktopInv, DesktopInv', ProfilesInv, UNCHANGED backups,
         \/ UNCHANGED storeVars
         \/ Fault /\ UNCHANGED <<stores, phase>>
         \/ Fault /\ End(RoomStore, Files(RoomStore))
  PROVE  ProfilesInv' /\ Upkeep
<1>1. ProfilesInv' /\ ProfilesStay /\ UNCHANGED <<ServedRooms, RoomsBefore>>
  BY FaultFollows
<1>2. UNCHANGED ExportedRooms
  BY DEF ExportedRooms
<1>. QED
  BY <1>1, <1>2 DEF Upkeep, Service!WriteAgain, Service!KeepProfiles, ProfilesStay

LEMMA ExportFollows ==
  ASSUME MarksAreNoValues, DesktopInv, DesktopInv', ProfilesInv, ExportRooms
  PROVE  ProfilesInv' /\ Upkeep
<1>. DEFINE backup == [directory |-> Served("backup_directory"), image |-> Rooms]
            S == ToSet(backups) \cup {backup}
<1>1. phase = "running" /\ backups' = Append(backups, backup)
  BY DEF ExportRooms, Does
<1>2. ServedRooms = Rooms.rooms /\ UpToDate(Rooms)
  BY <1>1, ServedIsRooms
<1>3. Prepared(backup.image).rooms = ServedRooms
  BY <1>2, UpToDateIsPrepared
<1>4. backups \in Seq(S) /\ backup \in S
  BY SeqMonotonic DEF DesktopInv, BackupsOK
<1>. HIDE DEF S, backup
<1>5. /\ DOMAIN backups = 1..Len(backups) /\ Len(backups) \in Nat
      /\ DOMAIN backups' = 1..(Len(backups) + 1)
      /\ \A i \in 1..Len(backups) : backups'[i] = backups[i]
      /\ backups'[Len(backups) + 1] = backup
  BY <1>1, <1>4
<1>6. DOMAIN backups' = DOMAIN backups \cup {Len(backups) + 1}
  BY <1>5
<1>7. ExportedRooms' = ExportedRooms \cup {ServedRooms}
  BY <1>3, <1>5, <1>6 DEF ExportedRooms
<1>8. ProfilesInv' /\ ProfilesStay /\ UNCHANGED <<ServedRooms, RoomsBefore>>
  BY FaultFollows DEF ExportRooms
<1>. QED
  BY <1>7, <1>8 DEF Upkeep, Service!Export, Service!KeepProfiles, ProfilesStay

LEMMA RestoreFollows ==
  ASSUME MarksAreNoValues, DesktopInv, DesktopInv', ProfilesInv, RestoreBackup
  PROVE  ProfilesInv' /\ Move /\ ServedRooms' \in {ServedRooms} \cup ExportedRooms
<1>. DEFINE old == backups[preview].image
<1>1. phase = "running" /\ UNCHANGED backups
  BY DEF RestoreBackup, Does, outside
<1>2. preview \in DOMAIN backups
  BY DEF RestoreBackup, LatestBackup
<1>3. UpToDate(old) /\ Prepared(old) = old
  BY <1>2, UpToDateIsPrepared DEF DesktopInv, BackupsOK
<1>4. old.rooms \in ExportedRooms
  BY <1>2, <1>3 DEF ExportedRooms
<1>5. PICK result : Persist(RoomStore, old, result)
  BY <1>3 DEF RestoreBackup
<1>. HIDE DEF old
<1>6. ProfilesInv' /\ ProfilesStay /\ (RoomsStay \/ RoomsBecome(old.rooms))
  BY <1>1, <1>3, <1>5, RoomsFollow
<1>7. ServedRooms' = old.rooms => Ordered
  BY <1>4 DEF Ordered, Service!Restore
<1>. QED
  BY <1>1, <1>4, <1>6, <1>7, RoomsChanged DEF Move, Upkeep

\* A command stores a setting, or has nothing to store.
LEMMA SettingMoves ==
  ASSUME MarksAreNoValues, DesktopInv, DesktopInv', ProfilesInv, phase = "running",
         UNCHANGED backups,
         NEW store \in Settings, NEW value, IsSetting(value), NEW result,
         Persist(store, value, result),
         store = "profiles" => \E p \in {Owner, Codex}, v \in Profiles : value = With("profiles", p, v)
  PROVE  ProfilesInv' /\ Upkeep
<1>1. /\ ProfilesInv' /\ Files(RoomStore)' = Files(RoomStore)
      /\ ProfilesStay \/ (store = "profiles" /\ ServedProfiles' = value)
  BY SettingFollows
<1>2. UNCHANGED <<ServedRooms, RoomsBefore, ExportedRooms>>
  BY <1>1, FilesStayed DEF ExportedRooms
<1>3. CASE ProfilesStay
  BY <1>1, <1>2, <1>3 DEF Upkeep, Service!WriteAgain, Service!KeepProfiles, ProfilesStay
<1>4. CASE store = "profiles" /\ ServedProfiles' = value
  <2>1. PICK p \in {Owner, Codex}, v \in Profiles : value = With("profiles", p, v)
    BY <1>4
  <2>2. ServedProfiles = Served("profiles")
    BY DEF ProfilesInv, LoadedInTime, ServedProfiles
  <2>3. ServedProfiles' = Over([q \in {p} |-> v], ServedProfiles)
    BY <1>4, <2>1, <2>2 DEF With
  <2>4. DOMAIN [q \in {p} |-> v] = {p}
    OBVIOUS
  <2>5. /\ DOMAIN ServedProfiles' = DOMAIN ServedProfiles \cup {p}
        /\ \A q \in DOMAIN ServedProfiles \ {p} : ServedProfiles'[q] = ServedProfiles[q]
    BY ONLY <2>3, <2>4 DEF Over
  <2>6. Service!SetProfile
    BY <1>2, <2>5 DEF Service!SetProfile
  <2>. QED
    BY <1>1, <2>6 DEF Upkeep
<1>. QED
  BY <1>1, <1>3, <1>4

LEMMA StoreFollows ==
  ASSUME MarksAreNoValues, DesktopInv, DesktopInv', ProfilesInv, phase = "running",
         NEW store \in Settings, NEW value, IsSetting(value),
         Store(store, value) \/ Skip,
         store = "profiles" => \E p \in {Owner, Codex}, v \in Profiles : value = With("profiles", p, v)
  PROVE  ProfilesInv' /\ Upkeep
<1>1. CASE Store(store, value)
  <2>1. PICK result : Persist(store, value, result)
    BY <1>1 DEF Store
  <2>2. UNCHANGED backups
    BY <1>1 DEF Store, outside
  <2>. QED
    BY <2>1, <2>2, SettingMoves
<1>2. CASE Skip
  <2>1. UNCHANGED storeVars /\ UNCHANGED backups
    BY <1>2 DEF Skip, outside
  <2>. QED
    BY <2>1, QuietFollows
<1>. QED
  BY <1>1, <1>2

LEMMA SettingsFollow ==
  ASSUME MarksAreNoValues, DesktopInv, DesktopInv', ProfilesInv,
         \/ ConductorStatus \/ ChooseConductor \/ SetMode \/ DismissConductor
         \/ SaveAppearance \/ ChooseBackupDirectory \/ SaveProfile
         \/ ClearFolder \/ ResetContinuity
  PROVE  ProfilesInv' /\ Upkeep
<1>1. phase = "running"
  BY DEF ConductorStatus, ChooseConductor, SetMode, DismissConductor, SaveAppearance,
     ChooseBackupDirectory, SaveProfile, ClearFolder, ResetContinuity, Command, Does
<1>2. {"conductors", "appearance", "backup_directory", "profiles", "workspaces", "continuity"}
        \subseteq Settings
  BY DEF Settings
<1>3. ASSUME NEW store \in {"conductors", "workspaces", "continuity"}, NEW r, NEW value,
             \/ Store(store, With(store, r, value)) \/ Store(store, Without(store, r)) \/ Skip
      PROVE  ProfilesInv' /\ Upkeep
  BY <1>1, <1>2, <1>3, StoreFollows, WithIsSetting
<1>4. ASSUME NEW r, ClearConductor(r)
      PROVE  ProfilesInv' /\ Upkeep
  BY <1>3, <1>4 DEF ClearConductor
<1>5. CASE ConductorStatus \/ DismissConductor
  BY <1>4, <1>5 DEF ConductorStatus, DismissConductor
<1>6. CASE ChooseConductor
  BY <1>3, <1>6 DEF ChooseConductor
<1>7. CASE SetMode
  BY <1>3, <1>4, <1>7 DEF SetMode
<1>8. CASE SaveAppearance \/ ChooseBackupDirectory
  <2>1. PICK store \in {"appearance", "backup_directory"}, v \in {"default", "custom"} :
          Store(store, v)
    BY <1>8 DEF SaveAppearance, ChooseBackupDirectory
  <2>2. IsSetting(v)
    BY DEF IsSetting
  <2>. QED
    BY <1>1, <1>2, <2>1, <2>2, StoreFollows
<1>9. CASE SaveProfile
  <2>1. PICK p \in {Owner, Codex}, v \in Profiles : Store("profiles", With("profiles", p, v))
    BY <1>9 DEF SaveProfile
  <2>. QED
    BY <1>1, <1>2, <2>1, StoreFollows, WithIsSetting
<1>10. CASE ClearFolder
  BY <1>3, <1>10 DEF ClearFolder
<1>11. CASE ResetContinuity
  BY <1>3, <1>11 DEF ResetContinuity
<1>. QED
  BY <1>5, <1>6, <1>7, <1>8, <1>9, <1>10, <1>11

LEMMA RepliesFollow ==
  ASSUME MarksAreNoValues, DesktopInv, DesktopInv', ProfilesInv, BridgeReply \/ SaveReply
  PROVE  ProfilesInv' /\ Move
<1>1. CASE BridgeReply
  <2>. DEFINE q == NextQuestion(outbox)
  <2>1. PICK result, human :
          Change(AppendMessage(Rooms, SearchReply(q, Gemini, human, "text")), result)
    BY <1>1 DEF BridgeReply
  <2>2. phase \in {"committed", "running"} /\ UNCHANGED backups
    BY <1>1 DEF BridgeReply, Does, outside
  <2>3. "images" \in DOMAIN SearchReply(q, Gemini, human, "text")
    BY DEF SearchReply
  <2>. QED
    BY <2>1, <2>2, <2>3, PostFollows
<1>2. CASE SaveReply
  <2>1. PICK m, result : Change(AppendMessage(Rooms, m), result) /\ "images" \in DOMAIN m
    BY <1>2 DEF SaveReply, Message
  <2>2. phase \in {"committed", "running"} /\ UNCHANGED backups
    BY <1>2 DEF SaveReply, At, outside
  <2>. QED
    BY <2>1, <2>2, PostFollows
<1>. QED
  BY <1>1, <1>2

LEMMA BindingsFollow ==
  ASSUME MarksAreNoValues, DesktopInv, DesktopInv', ProfilesInv, CommitContinuity \/ CloseDialog
  PROVE  ProfilesInv' /\ Upkeep
<1>1. phase = "running" /\ UNCHANGED backups
  BY DEF CommitContinuity, CloseDialog, At, Does, outside
<1>2. ASSUME NEW store \in {"continuity", "workspaces"}, NEW r, NEW value, NEW result,
             Persist(store, With(store, r, value), result)
      PROVE  ProfilesInv' /\ Upkeep
  <2>1. store \in Settings /\ store # "profiles"
    BY DEF Settings
  <2>. QED
    BY <1>1, <1>2, <2>1, SettingMoves, WithIsSetting
<1>3. CASE CommitContinuity
  BY <1>2, <1>3 DEF CommitContinuity
<1>4. CASE CloseDialog
  BY <1>1, <1>2, <1>4, QuietFollows DEF CloseDialog
<1>. QED
  BY <1>3, <1>4

LEMMA OthersFollow ==
  ASSUME MarksAreNoValues, DesktopInv, DesktopInv', ProfilesInv,
         \/ PreviewBackup \/ OpenDialog \/ AskGemini \/ AskCodex \/ CodexReads
         \/ CodexFails \/ CodexAnswers \/ IngestImage \/ UNCHANGED vars
  PROVE  ProfilesInv' /\ Upkeep
<1>1. /\ UNCHANGED backups
      /\ \/ UNCHANGED storeVars
         \/ Fault /\ UNCHANGED <<stores, phase>>
         \/ Fault /\ End(RoomStore, Files(RoomStore))
  <2>1. CASE PreviewBackup \/ OpenDialog \/ AskGemini
    BY <2>1 DEF PreviewBackup, OpenDialog, AskGemini, outside
  <2>2. CASE AskCodex
    BY <2>2 DEF AskCodex
  <2>3. CASE CodexReads
    BY <2>3 DEF CodexReads, ToolCall
  <2>4. CASE CodexFails \/ CodexAnswers
    BY <2>4 DEF CodexFails, CodexAnswers
  <2>5. CASE IngestImage
    BY <2>5 DEF IngestImage
  <2>6. CASE UNCHANGED vars
    BY <2>6 DEF vars, outside
  <2>. QED
    BY <2>1, <2>2, <2>3, <2>4, <2>5, <2>6
<1>. QED
  BY <1>1, QuietFollows

LEMMA StartsFollow ==
  ASSUME MarksAreNoValues, DesktopInv, DesktopInv', ProfilesInv, Start
  PROVE  ProfilesInv' /\ Upkeep
<1>1. UNCHANGED backups
  BY DEF Start, outside
<1>2. CASE PrepareRooms
  BY <1>1, <1>2, PrepareFollows, RoomsStayed DEF Upkeep
<1>3. CASE MigrateProfiles
  <2>1. ProfilesInv' /\ ProfilesStay /\ RoomsStay
    BY <1>3, MigrateFollows DEF RoomsStay
  <2>. QED
    BY <1>1, <2>1, RoomsStayed DEF Upkeep
<1>4. CASE CommitRooms
  BY <1>1, <1>4, CommitFollows, RoomsStayed DEF Upkeep
<1>5. CASE LoadSettings
  <2>1. ProfilesInv' /\ ProfilesStay /\ RoomsStay
    BY <1>5, LoadFollows DEF RoomsStay, ProfilesStay
  <2>. QED
    BY <1>1, <2>1, RoomsStayed DEF Upkeep
<1>. QED
  BY <1>2, <1>3, <1>4, <1>5 DEF Start

LEMMA StopsFollow ==
  ASSUME MarksAreNoValues, DesktopInv, DesktopInv', ProfilesInv, Stop
  PROVE  ProfilesInv' /\ Upkeep
<1>1. UNCHANGED backups
  BY DEF Stop, outside
<1>2. CASE Crash
  BY <1>1, <1>2, QuietFollows DEF Crash
<1>3. CASE \E s \in Stores : Damage(s)
  <2>1. /\ ProfilesInv' /\ ServedProfiles' = ServedProfiles
        /\ \/ Files(RoomStore)' = Files(RoomStore)
           \/ /\ Current(Files(RoomStore)') = Before(Files(RoomStore))
              /\ Before(Files(RoomStore)') = Before(Files(RoomStore))
    BY <1>3, DamageFollows
  <2>2. UNCHANGED ExportedRooms
    BY <1>1 DEF ExportedRooms
  <2>3. CASE Files(RoomStore)' = Files(RoomStore)
    BY <1>1, <2>1, <2>3, RoomsStayed DEF Upkeep, RoomsStay, ProfilesStay
  <2>4. CASE /\ Current(Files(RoomStore)') = Before(Files(RoomStore))
             /\ Before(Files(RoomStore)') = Before(Files(RoomStore))
    <3>1. ServedRooms' = RoomsBefore /\ RoomsBefore' = RoomsBefore
      BY <2>1, <2>4, RoomsOfTheFiles
    <3>. QED
      BY <2>1, <2>2, <3>1 DEF Upkeep, Service!RollBack, Service!KeepProfiles
  <2>. QED
    BY <2>1, <2>3, <2>4
<1>. QED
  BY <1>2, <1>3 DEF Stop

-----------------------------------------------------------------------------
(* The folders.                                                             *)

FolderType == [root : {"here", "gone"}, temporary : BOOLEAN, entry : [Paths -> Entries]]

\* A file is replaced only in a turn that may write.
TurnAccessOK ==
  turn.step # "idle" =>
    /\ {"step", "access"} \subseteq DOMAIN turn
    /\ turn.access \in {"none", "read", "write"}
    /\ turn.step = "replacing" => turn.access = "write"

FoldersInv == folders \in [Folders -> FolderType] /\ TurnAccessOK

LEMMA InitFolders ==
  ASSUME Init
  PROVE  FoldersInv
<1>1. folders \in [Folders -> FolderType]
  BY OwnerFoldersType DEF Init, FolderType
<1>2. turn.step = "idle"
  BY DEF Init, NoTurn
<1>. QED
  BY <1>1, <1>2 DEF FoldersInv, TurnAccessOK

WithEntry(entries, p, e) == [entries EXCEPT ![p] = e]

LEMMA FolderWritten ==
  ASSUME NEW folder \in FolderType, NEW p, NEW e \in Entries
  PROVE  /\ Left(folder, p, e) \in FolderType
         /\ Left(folder, p, e).entry = WithEntry(folder.entry, p, e)
         /\ WithTemporary(folder) \in FolderType /\ WithTemporary(folder).entry = folder.entry
         /\ WithoutTemporary(folder) \in FolderType /\ WithoutTemporary(folder).entry = folder.entry
BY DEF FolderType, Left, WithTemporary, WithoutTemporary, WithEntry

FolderBecomes(f, next) == folders' = [folders EXCEPT ![f] = next]

EntryChanges(f, p, e) ==
  /\ f \in DOMAIN Documents /\ p \in DOMAIN Documents[f]
  /\ Documents[f][p] = folders[f].entry[p] /\ Documents'[f][p] = e
  /\ Documents' = [Documents EXCEPT ![f][p] = Documents'[f][p]]

\* One folder changes, and at most one entry of it.
LEMMA DocumentsFollow ==
  ASSUME folders \in [Folders -> FolderType], NEW f, NEW next, NEW p, NEW e,
         FolderBecomes(f, next),
         f \in Folders => /\ next \in FolderType
                          /\ next.entry \in {folders[f].entry, WithEntry(folders[f].entry, p, e)}
  PROVE  /\ folders' \in [Folders -> FolderType]
         /\ Documents' = Documents \/ EntryChanges(f, p, e)
<1>1. CASE f \notin Folders
  <2>1. folders' = folders
    BY <1>1 DEF FolderBecomes
  <2>. QED
    BY <2>1 DEF Documents
<1>2. CASE f \in Folders
  <2>1. folders' \in [Folders -> FolderType]
    BY <1>2 DEF FolderBecomes
  <2>2. /\ folders[f].entry \in [Paths -> Entries]
        /\ Documents = [g \in Folders |-> folders[g].entry]
        /\ Documents' = [Documents EXCEPT ![f] = next.entry]
    BY <1>2 DEF Documents, FolderType, FolderBecomes
  <2>3. CASE next.entry = folders[f].entry \/ p \notin Paths
    <3>1. next.entry = folders[f].entry
      BY <1>2, <2>2, <2>3 DEF WithEntry
    <3>2. Documents' = Documents
      BY <1>2, <2>2, <3>1
    <3>. QED
      BY <2>1, <3>2
  <2>4. CASE next.entry = WithEntry(folders[f].entry, p, e) /\ p \in Paths
    <3>1. /\ f \in DOMAIN Documents /\ Documents[f] = folders[f].entry
          /\ DOMAIN Documents[f] = Paths
      BY <1>2, <2>2
    <3>2. Documents' = [Documents EXCEPT ![f][p] = e]
      BY <2>2, <2>4, <3>1 DEF WithEntry
    <3>3. Documents'[f][p] = e
      BY <2>4, <3>1, <3>2
    <3>4. Documents' = [Documents EXCEPT ![f][p] = Documents'[f][p]]
      BY <3>2, <3>3, Zenon
    <3>. QED
      BY <2>1, <2>4, <3>1, <3>3, <3>4, Zenon DEF EntryChanges
  <2>. QED
    BY <1>2, <2>3, <2>4
<1>. QED
  BY <1>1, <1>2

\* What a step may do to the documents of the service.
WritesOne ==
  \/ UNCHANGED Documents
  \/ \E f \in DOMAIN Documents : \E p \in DOMAIN Documents[f] :
       /\ Documents' = [Documents EXCEPT ![f][p] = Documents'[f][p]]
       /\ \/ Documents[f][p] = "absent" /\ Documents'[f][p] \in {"image", "part"}
          \/ /\ f \in WritersNow /\ Documents[f][p] # "directory"
             /\ Documents'[f][p] = "codex_text"

\* A file is created in a folder, as a whole or not.
LEMMA NewFileFollows ==
  ASSUME folders \in [Folders -> FolderType], NEW f, NEW p, NEW content \in Entries,
         NewFile(folders[f], p), WriteNewFile(f, p, content),
         content = "image" \/ (content = "codex_text" /\ f \in WritersNow)
  PROVE  folders' \in [Folders -> FolderType] /\ WritesOne
<1>1. p # <<>> /\ folders[f].entry[p] = "absent"
  BY DEF NewFile, ValidPath, Entry
<1>2. "part" \in Entries
  BY DEF Entries, FileEntries
<1>3. PICK e, next :
        /\ e \in {content, "part"}
        /\ next \in {folders[f], Left(folders[f], p, e)}
        /\ FolderBecomes(f, next)
  BY DEF FolderBecomes, WriteNewFile, Created, CreationsFailed
<1>4. f \in Folders => folders[f] \in FolderType
  OBVIOUS
<1>5. f \in Folders => /\ next \in FolderType
                       /\ next.entry \in {folders[f].entry, WithEntry(folders[f].entry, p, e)}
  <2>1. e \in Entries
    BY <1>2, <1>3
  <2>. SUFFICES ASSUME f \in Folders
                PROVE  /\ next \in FolderType
                       /\ next.entry \in {folders[f].entry, WithEntry(folders[f].entry, p, e)}
    OBVIOUS
  <2>. DEFINE folder == folders[f]
  <2>2. folder \in FolderType
    BY <1>4
  <2>. HIDE DEF folder
  <2>3. /\ Left(folder, p, e) \in FolderType
        /\ Left(folder, p, e).entry = WithEntry(folder.entry, p, e)
    BY ONLY <2>1, <2>2, FolderWritten
  <2>4. next \in {folder, Left(folder, p, e)}
    BY <1>3 DEF folder
  <2>5. next \in FolderType /\ next.entry \in {folder.entry, WithEntry(folder.entry, p, e)}
    BY <2>2, <2>3, <2>4
  <2>. QED
    BY <2>5 DEF folder
<1>6. /\ folders' \in [Folders -> FolderType]
      /\ Documents' = Documents \/ EntryChanges(f, p, e)
  BY <1>3, <1>5, DocumentsFollow
<1>7. CASE Documents' = Documents
  BY <1>6, <1>7 DEF WritesOne
<1>8. CASE EntryChanges(f, p, e)
  <2>1. \/ Documents[f][p] = "absent" /\ Documents'[f][p] \in {"image", "part"}
        \/ /\ f \in WritersNow /\ Documents[f][p] # "directory"
           /\ Documents'[f][p] = "codex_text"
    BY <1>1, <1>3, <1>8 DEF EntryChanges
  <2>. QED
    BY <1>6, <1>8, <2>1 DEF WritesOne, EntryChanges
<1>. QED
  BY <1>6, <1>7, <1>8

LEMMA WritersWrite ==
  ASSUME turn.step # "idle", turn.access = "write"
  PROVE  turn.folder \in WritersNow
BY DEF WritersNow, NoTurn

LEMMA ToolsOfAWriter ==
  ASSUME TurnAccessOK, turn.step # "idle",
         "create_file" \in Tools(turn.access) \/ "replace_file" \in Tools(turn.access)
  PROVE  turn.access = "write"
BY DEF TurnAccessOK, Tools

\* The turn keeps its access until it ends.
LEMMA TurnKeepsAccess ==
  ASSUME TurnAccessOK,
         \/ turn' = turn
         \/ turn'.step = "idle"
         \/ /\ turn.step # "idle" /\ DOMAIN turn' = DOMAIN turn /\ turn'.access = turn.access
            /\ turn'.step = "replacing" => turn.access = "write"
  PROVE  TurnAccessOK'
BY DEF TurnAccessOK

LEMMA AskAccess ==
  ASSUME AskCodex
  PROVE  TurnAccessOK'
<1>1. turn'.step = "asked" /\ {"step", "access"} \subseteq DOMAIN turn'
  BY DEF AskCodex
<1>2. PICK r : turn'.access = TurnAccess(r)
  BY DEF AskCodex
<1>3. \A profile : AccessOf(profile) \in {"none", "read", "write"}
  BY DEF AccessOf
<1>4. TurnAccess(r) \in {"none", "read", "write"}
  BY <1>3 DEF TurnAccess
<1>. QED
  BY <1>1, <1>2, <1>4 DEF TurnAccessOK

LEMMA TurnsAccess ==
  ASSUME TurnAccessOK,
         \/ IngestImage \/ CodexReads \/ CodexFails \/ CodexAnswers \/ SaveReply
         \/ CommitContinuity \/ Start \/ CodexCreates \/ CodexReplaces \/ FinishReplacing
  PROVE  TurnAccessOK'
<1>1. turn.step # "idle" => {"step", "access"} \subseteq DOMAIN turn
  BY DEF TurnAccessOK
<1>2. CASE CodexFails \/ CommitContinuity \/ Start
  BY <1>2, TurnKeepsAccess DEF CodexFails, CommitContinuity, Start, NoTurn
<1>3. CASE IngestImage
  BY <1>1, <1>3, TurnKeepsAccess DEF IngestImage, At
<1>4. CASE CodexReads
  <2>1. PICK x : turn' = [turn EXCEPT !.answer = x]
    BY <1>4 DEF CodexReads
  <2>2. turn.step = "asked"
    BY <1>4 DEF CodexReads, ToolCall, At
  <2>. QED
    BY <1>1, <2>1, <2>2, TurnKeepsAccess
<1>5. CASE CodexCreates
  <2>1. turn' = [turn EXCEPT !.answer = "none"]
    BY <1>5 DEF CodexCreates
  <2>2. turn.step = "asked"
    BY <1>5 DEF CodexCreates, ToolCall, At
  <2>. QED
    BY <1>1, <2>1, <2>2, TurnKeepsAccess
<1>6. CASE CodexAnswers
  <2>. DEFINE answered == [turn EXCEPT !.step = "answered"]
  <2>1. turn.step = "asked" /\ \E plan : turn' = [answered EXCEPT !.plan = plan]
    BY <1>6, Zenon DEF CodexAnswers, At
  <2>2. PICK plan : turn' = [answered EXCEPT !.plan = plan]
    BY <2>1
  <2>3. /\ DOMAIN answered = DOMAIN turn /\ answered.access = turn.access
        /\ answered.step = "answered"
    BY <1>1, <2>1
  <2>. HIDE DEF answered
  <2>4. DOMAIN turn' = DOMAIN turn /\ turn'.access = turn.access /\ turn'.step = "answered"
    BY <1>1, <2>1, <2>2, <2>3
  <2>. QED
    BY <2>1, <2>4, TurnKeepsAccess
<1>7. CASE CodexReplaces
  <2>1. PICK p : turn' = [turn EXCEPT !.step = "replacing", !.path = p, !.answer = "none"]
    BY <1>7, Zenon DEF CodexReplaces
  <2>2. turn.step = "asked" /\ "replace_file" \in Tools(turn.access)
    BY <1>7, Zenon DEF CodexReplaces, ToolCall, At
  <2>3. turn.access = "write"
    BY <2>2, ToolsOfAWriter
  <2>. DEFINE moving == [turn EXCEPT !.step = "replacing", !.path = p]
  <2>4. turn' = [moving EXCEPT !.answer = "none"]
    BY <2>1, Zenon DEF moving
  <2>5. DOMAIN moving = DOMAIN turn /\ moving.access = turn.access
    BY <1>1, <2>2
  <2>. HIDE DEF moving
  <2>6. DOMAIN turn' = DOMAIN turn /\ turn'.access = turn.access
    BY <1>1, <2>2, <2>4, <2>5
  <2>. QED
    BY <2>2, <2>3, <2>6, TurnKeepsAccess
<1>8. CASE FinishReplacing
  <2>1. turn' = [turn EXCEPT !.step = "asked", !.path = <<>>] /\ turn.step = "replacing"
    BY <1>8 DEF FinishReplacing, At
  <2>2. DOMAIN turn' = DOMAIN turn /\ turn'.access = turn.access /\ turn'.step = "asked"
    BY <1>1, <2>1
  <2>. QED
    BY <2>1, <2>2, TurnKeepsAccess
<1>9. CASE SaveReply
  <2>1. turn.step = "answered"
    BY <1>9 DEF SaveReply, At
  <2>2. turn' = [turn EXCEPT !.step = "saved"] \/ turn' = NoTurn
    BY <1>9 DEF SaveReply, Goto
  <2>. QED
    BY <1>1, <2>1, <2>2, TurnKeepsAccess DEF NoTurn
<1>. QED
  BY <1>2, <1>3, <1>4, <1>5, <1>6, <1>7, <1>8, <1>9

\* Most steps leave the folders alone.
FoldersStay == UNCHANGED <<folders, edits>>

LEMMA OwnerStepsLeaveFolders ==
  ASSUME \/ WriteMessage \/ McpPost \/ Create \/ Rename \/ Join \/ Leave \/ Delete
         \/ ExportRooms \/ PreviewBackup \/ RestoreBackup
         \/ ConductorStatus \/ ChooseConductor \/ SetMode \/ DismissConductor
         \/ SaveAppearance \/ ChooseBackupDirectory \/ SaveProfile
         \/ OpenDialog \/ CloseDialog \/ ClearFolder \/ ResetContinuity
         \/ AskGemini \/ BridgeReply \/ Stop \/ UNCHANGED vars
  PROVE  FoldersStay /\ turn' = turn
<1>1. CASE WriteMessage \/ McpPost \/ BridgeReply \/ Stop \/ UNCHANGED vars
  BY <1>1 DEF WriteMessage, McpPost, BridgeReply, Stop, FoldersStay, vars, view, outside
<1>2. ASSUME NEW answer, RoomCommand(answer) PROVE FoldersStay /\ turn' = turn
  BY <1>2 DEF RoomCommand, FoldersStay, view, outside
<1>3. CASE Create \/ Rename \/ Join \/ Leave \/ Delete
  BY <1>2, <1>3 DEF Create, Rename, Join, Leave, Delete
<1>4. CASE \/ ExportRooms \/ PreviewBackup \/ RestoreBackup \/ OpenDialog \/ CloseDialog
           \/ AskGemini
  BY <1>4 DEF ExportRooms, PreviewBackup, RestoreBackup, OpenDialog, CloseDialog, AskGemini,
     FoldersStay, view, outside
<1>5. ASSUME NEW store, NEW value, Store(store, value) \/ Skip PROVE FoldersStay /\ turn' = turn
  BY <1>5 DEF Store, Skip, FoldersStay, view, outside
<1>6. ASSUME NEW r, ClearConductor(r) PROVE FoldersStay /\ turn' = turn
  BY <1>5, <1>6 DEF ClearConductor
<1>7. CASE ConductorStatus \/ ChooseConductor \/ SetMode \/ DismissConductor
  BY <1>5, <1>6, <1>7 DEF ConductorStatus, ChooseConductor, SetMode, DismissConductor
<1>8. CASE SaveAppearance \/ ChooseBackupDirectory \/ SaveProfile \/ ClearFolder \/ ResetContinuity
  BY <1>5, <1>8 DEF SaveAppearance, ChooseBackupDirectory, SaveProfile, ClearFolder,
     ResetContinuity
<1>. QED
  BY <1>1, <1>3, <1>4, <1>7, <1>8

LEMMA TurnStepsLeaveFolders ==
  ASSUME \/ AskCodex \/ CodexReads \/ IngestImage \/ CodexFails \/ CodexAnswers \/ SaveReply
         \/ CommitContinuity \/ Start
  PROVE  FoldersStay
<1>1. CASE AskCodex
  BY <1>1 DEF AskCodex, FoldersStay
<1>2. CASE CodexReads
  BY <1>2 DEF CodexReads, ToolCall, FoldersStay
<1>3. CASE IngestImage \/ CodexFails \/ CodexAnswers
  BY <1>3 DEF IngestImage, CodexFails, CodexAnswers, FoldersStay
<1>4. CASE SaveReply \/ CommitContinuity \/ Start
  BY <1>4 DEF SaveReply, CommitContinuity, Start, FoldersStay, outside
<1>. QED
  BY <1>1, <1>2, <1>3, <1>4

\* A turn, or the command that saves an image, writes to one folder.
LEMMA WritersFollow ==
  ASSUME FoldersInv, CodexCreates \/ CodexReplaces \/ FinishReplacing \/ SaveImage
  PROVE  /\ FoldersInv' /\ WritesOne /\ UNCHANGED <<edits, backups>>
         /\ \/ UNCHANGED storeVars
            \/ Fault /\ UNCHANGED <<stores, phase>>
            \/ Fault /\ End(RoomStore, Files(RoomStore))
<1>. DEFINE Outcome == \/ UNCHANGED storeVars
                       \/ Fault /\ UNCHANGED <<stores, phase>>
                       \/ Fault /\ End(RoomStore, Files(RoomStore))
<1>1. folders \in [Folders -> FolderType] /\ TurnAccessOK
  BY DEF FoldersInv
<1>2. {"codex_text", "image"} \subseteq Entries
  BY DEF Entries, FileEntries
<1>3. CASE CodexCreates
  <2>1. PICK p \in Paths :
          /\ ToolCall("create_file", p)
          /\ "create_file" \in Tools(turn.access)
          /\ NewFile(folders[turn.folder], p)
          /\ WriteNewFile(turn.folder, p, "codex_text")
    BY <1>3 DEF CodexCreates
  <2>2. turn.step # "idle" /\ UNCHANGED <<edits, backups>>
    BY <2>1 DEF ToolCall, At
  <2>3. turn.folder \in WritersNow
    BY <1>1, <2>1, <2>2, ToolsOfAWriter, WritersWrite
  <2>4. folders' \in [Folders -> FolderType] /\ WritesOne
    BY <1>1, <1>2, <2>1, <2>3, NewFileFollows
  <2>5. Outcome
    BY <2>1 DEF WriteNewFile
  <2>6. TurnAccessOK'
    BY <1>1, <1>3, TurnsAccess
  <2>. QED
    BY <2>2, <2>4, <2>5, <2>6 DEF FoldersInv
<1>4. CASE SaveImage
  <2>1. PICK f :
          /\ NewFile(folders[f], Picture)
          /\ WriteNewFile(f, Picture, "image")
    BY <1>4 DEF SaveImage
  <2>2. turn' = turn /\ UNCHANGED <<edits, backups>>
    BY <1>4 DEF SaveImage, view
  <2>3. folders' \in [Folders -> FolderType] /\ WritesOne
    BY <1>1, <1>2, <2>1, NewFileFollows
  <2>4. Outcome
    BY <2>1 DEF WriteNewFile
  <2>5. TurnAccessOK'
    BY <1>1, <2>2, TurnKeepsAccess
  <2>. QED
    BY <2>2, <2>3, <2>4, <2>5 DEF FoldersInv
<1>5. CASE CodexReplaces
  <2>1. PICK p : /\ ToolCall("replace_file", p)
                 /\ folders' = [folders EXCEPT ![turn.folder] = Replacing(@, p)]
                 /\ UNCHANGED storeVars
    BY <1>5, Zenon DEF CodexReplaces
  <2>2. UNCHANGED <<edits, backups>>
    BY <2>1 DEF ToolCall
  <2>. DEFINE f == turn.folder
              next == WithTemporary(folders[f])
  <2>3. FolderBecomes(f, next)
    BY <2>1 DEF FolderBecomes, Replacing
  <2>4. "codex_text" \in Entries
    BY <1>2
  <2>5. f \in Folders => next \in FolderType /\ next.entry = folders[f].entry
    BY <1>1, <2>4, FolderWritten
  <2>6. folders' \in [Folders -> FolderType] /\ UNCHANGED Documents
    <3>1. CASE f \in Folders
      <4>1. folders' \in [Folders -> FolderType]
        BY <1>1, <2>3, <2>5, <3>1 DEF FolderBecomes
      <4>2. \A g \in Folders : folders'[g].entry = folders[g].entry
        BY <1>1, <2>3, <2>5, <3>1 DEF FolderBecomes
      <4>. QED
        BY <4>1, <4>2 DEF Documents
    <3>2. CASE f \notin Folders
      <4>1. folders' = folders
        BY <1>1, <2>3, <3>2 DEF FolderBecomes
      <4>. QED
        BY <1>1, <4>1 DEF Documents
    <3>. QED
      BY <3>1, <3>2
  <2>7. TurnAccessOK'
    BY <1>1, <1>5, TurnsAccess
  <2>. QED
    BY <2>1, <2>2, <2>6, <2>7 DEF FoldersInv, WritesOne
<1>6. CASE FinishReplacing
  <2>. DEFINE f == turn.folder
              p == turn.path
              folder == folders[f]
  <2>1. PICK next :
          /\ FolderBecomes(f, next)
          /\ \/ next = WithoutTemporary(Left(folder, p, "codex_text")) /\ CanRename(folder, p)
             \/ next \in {folder, WithoutTemporary(folder)}
    BY <1>6 DEF FinishReplacing, FolderBecomes, Renamed
  <2>2. /\ turn.step = "replacing" /\ UNCHANGED <<edits, backups>>
        /\ Outcome
    BY <1>6 DEF FinishReplacing, At, storeVars
  <2>3. f \in WritersNow
    BY <1>1, <2>2, WritersWrite DEF TurnAccessOK
  <2>4. CanRename(folder, p) => folder.entry[p] # "directory"
    BY DEF CanRename, Entry
  <2>5. f \in Folders => folder \in FolderType
    BY <1>1
  <2>. HIDE DEF folder
  <2>6. f \in Folders =>
          /\ next \in FolderType
          /\ \/ next.entry = WithEntry(folder.entry, p, "codex_text") /\ CanRename(folder, p)
             \/ next.entry = folder.entry
    <3>. SUFFICES ASSUME f \in Folders
                  PROVE  /\ next \in FolderType
                         /\ \/ /\ next.entry = WithEntry(folder.entry, p, "codex_text")
                               /\ CanRename(folder, p)
                            \/ next.entry = folder.entry
      OBVIOUS
    <3>1. folder \in FolderType
      BY <2>5
    <3>. DEFINE renamed == Left(folder, p, "codex_text")
    <3>2. renamed \in FolderType /\ renamed.entry = WithEntry(folder.entry, p, "codex_text")
      BY <1>2, <3>1, FolderWritten
    <3>. HIDE DEF renamed
    <3>3. /\ WithoutTemporary(renamed) \in FolderType
          /\ WithoutTemporary(renamed).entry = renamed.entry
          /\ WithoutTemporary(folder) \in FolderType
          /\ WithoutTemporary(folder).entry = folder.entry
      BY <1>2, <3>1, <3>2, FolderWritten
    <3>. QED
      BY <2>1, <3>1, <3>2, <3>3 DEF renamed
  <2>7. CASE CanRename(folder, p)
    <3>1. f \in Folders => /\ next \in FolderType
                           /\ next.entry \in {folders[f].entry,
                                              WithEntry(folders[f].entry, p, "codex_text")}
      BY <2>6 DEF folder
    <3>2. /\ folders' \in [Folders -> FolderType]
          /\ Documents' = Documents \/ EntryChanges(f, p, "codex_text")
      BY <1>1, <2>1, <3>1, DocumentsFollow
    <3>3. folders[f].entry[p] # "directory"
      BY <2>4, <2>7 DEF folder
    <3>4. WritesOne
      BY <2>3, <3>2, <3>3 DEF WritesOne, EntryChanges
    <3>5. TurnAccessOK'
      BY <1>1, <1>6, TurnsAccess
    <3>. QED
      BY <2>2, <3>2, <3>4, <3>5 DEF FoldersInv
  <2>8. CASE ~CanRename(folder, p)
    <3>1. /\ folders' \in [Folders -> FolderType]
          /\ \A g \in Folders : folders'[g].entry = folders[g].entry
      BY <1>1, <2>1, <2>6, <2>8 DEF FolderBecomes, folder
    <3>2. WritesOne
      BY <3>1 DEF WritesOne, Documents
    <3>3. TurnAccessOK'
      BY <1>1, <1>6, TurnsAccess
    <3>. QED
      BY <2>2, <3>1, <3>2, <3>3 DEF FoldersInv
  <2>. QED
    BY <2>7, <2>8
<1>. QED
  BY <1>3, <1>4, <1>5, <1>6

LEMMA OwnerEditsFollow ==
  ASSUME FoldersInv, OwnerEdits
  PROVE  FoldersInv' /\ edits' = edits + 1 /\ UNCHANGED <<storeVars, backups>>
<1>1. /\ turn' = turn /\ edits' = edits + 1
      /\ UNCHANGED <<storeVars, backups>>
  BY DEF OwnerEdits, view
<1>2. folders \in [Folders -> FolderType]
  BY DEF FoldersInv
<1>3. folders' \in [Folders -> FolderType]
  <2>1. ASSUME NEW f \in Folders, NEW p \in Paths, NEW e \in Entries,
               folders' = [folders EXCEPT ![f] = Left(@, p, e)]
        PROVE  folders' \in [Folders -> FolderType]
    <3>1. folders[f] \in FolderType
      BY <1>2
    <3>2. Left(folders[f], p, e) \in FolderType
      BY <3>1, FolderWritten
    <3>. QED
      BY <1>2, <2>1, <3>2
  <2>2. ASSUME NEW f \in Folders,
               folders' = [folders EXCEPT ![f].root = IF @ = "here" THEN "gone" ELSE "here"]
        PROVE  folders' \in [Folders -> FolderType]
    BY <1>2, <2>2 DEF FolderType
  <2>. QED
    BY <2>1, <2>2 DEF OwnerEdits
<1>4. TurnAccessOK'
  BY <1>1, TurnKeepsAccess DEF FoldersInv
<1>. QED
  BY <1>1, <1>3, <1>4 DEF FoldersInv

-----------------------------------------------------------------------------
(* The steps of the desktop are steps of the service.                       *)

ServiceInv == DesktopInv /\ ProfilesInv /\ FoldersInv

LEMMA MovesAreRoomSteps ==
  ASSUME Move, UNCHANGED <<Documents, edits>>
  PROVE  Service!ServiceNext
BY DEF Move, Upkeep, Service!ServiceNext, Service!RoomStep

LEMMA FoldersStayOK ==
  ASSUME FoldersInv, FoldersStay, TurnAccessOK'
  PROVE  FoldersInv'
BY DEF FoldersInv, FoldersStay

LEMMA OwnerStepsFollow ==
  ASSUME MarksAreNoValues, DesktopInv', ServiceInv,
         \/ WriteMessage \/ McpPost \/ Create \/ Rename \/ Join \/ Leave \/ Delete
         \/ ExportRooms \/ PreviewBackup \/ RestoreBackup
         \/ ConductorStatus \/ ChooseConductor \/ SetMode \/ DismissConductor
         \/ SaveAppearance \/ ChooseBackupDirectory \/ SaveProfile
         \/ OpenDialog \/ CloseDialog \/ ClearFolder \/ ResetContinuity
         \/ AskGemini \/ BridgeReply \/ Stop \/ UNCHANGED vars
  PROVE  ServiceInv' /\ Service!ServiceNext
<1>1. DesktopInv /\ ProfilesInv /\ FoldersInv /\ TurnAccessOK
  BY DEF ServiceInv, FoldersInv
<1>2. FoldersStay /\ turn' = turn
  BY OwnerStepsLeaveFolders
<1>3. FoldersInv'
  BY <1>1, <1>2, TurnKeepsAccess, FoldersStayOK
<1>4. ProfilesInv' /\ Move
  <2>1. CASE WriteMessage \/ McpPost \/ Create \/ Rename \/ Join \/ Leave \/ Delete
    BY <1>1, <2>1, MessagesFollow, RoomCommandsFollow
  <2>2. CASE ExportRooms
    BY <1>1, <2>2, ExportFollows DEF Move
  <2>3. CASE RestoreBackup
    BY <1>1, <2>3, RestoreFollows
  <2>4. CASE \/ ConductorStatus \/ ChooseConductor \/ SetMode \/ DismissConductor
             \/ SaveAppearance \/ ChooseBackupDirectory \/ SaveProfile
             \/ ClearFolder \/ ResetContinuity
    BY <1>1, <2>4, SettingsFollow DEF Move
  <2>5. CASE CloseDialog
    BY <1>1, <2>5, BindingsFollow DEF Move
  <2>6. CASE BridgeReply
    BY <1>1, <2>6, RepliesFollow
  <2>7. CASE PreviewBackup \/ OpenDialog \/ AskGemini \/ UNCHANGED vars
    BY <1>1, <2>7, OthersFollow DEF Move
  <2>8. CASE Stop
    BY <1>1, <2>8, StopsFollow DEF Move
  <2>. QED
    BY <2>1, <2>2, <2>3, <2>4, <2>5, <2>6, <2>7, <2>8
<1>5. UNCHANGED <<Documents, edits>>
  BY <1>2 DEF FoldersStay, Documents
<1>. QED
  BY <1>3, <1>4, <1>5, MovesAreRoomSteps DEF ServiceInv

LEMMA TurnStepsFollow ==
  ASSUME MarksAreNoValues, DesktopInv', ServiceInv,
         \/ AskCodex \/ CodexReads \/ IngestImage \/ CodexFails \/ CodexAnswers \/ SaveReply
         \/ CommitContinuity \/ Start
  PROVE  ServiceInv' /\ Service!ServiceNext
<1>1. DesktopInv /\ ProfilesInv /\ FoldersInv /\ TurnAccessOK
  BY DEF ServiceInv, FoldersInv
<1>2. FoldersStay
  BY TurnStepsLeaveFolders
<1>3. FoldersInv'
  BY <1>1, <1>2, AskAccess, TurnsAccess, FoldersStayOK
<1>4. ProfilesInv' /\ Move
  <2>1. CASE AskCodex \/ CodexReads \/ IngestImage \/ CodexFails \/ CodexAnswers
    BY <1>1, <2>1, OthersFollow DEF Move
  <2>2. CASE SaveReply
    BY <1>1, <2>2, RepliesFollow
  <2>3. CASE CommitContinuity
    BY <1>1, <2>3, BindingsFollow DEF Move
  <2>4. CASE Start
    BY <1>1, <2>4, StartsFollow DEF Move
  <2>. QED
    BY <2>1, <2>2, <2>3, <2>4
<1>5. UNCHANGED <<Documents, edits>>
  BY <1>2 DEF FoldersStay, Documents
<1>. QED
  BY <1>3, <1>4, <1>5, MovesAreRoomSteps DEF ServiceInv

LEMMA FolderStepsFollow ==
  ASSUME MarksAreNoValues, DesktopInv', ServiceInv,
         CodexCreates \/ CodexReplaces \/ FinishReplacing \/ SaveImage \/ OwnerEdits
  PROVE  ServiceInv' /\ Service!ServiceNext
<1>1. DesktopInv /\ ProfilesInv /\ FoldersInv
  BY DEF ServiceInv
<1>2. CASE CodexCreates \/ CodexReplaces \/ FinishReplacing \/ SaveImage
  <2>1. /\ FoldersInv' /\ WritesOne /\ UNCHANGED <<edits, backups>>
        /\ \/ UNCHANGED storeVars
           \/ Fault /\ UNCHANGED <<stores, phase>>
           \/ Fault /\ End(RoomStore, Files(RoomStore))
    BY <1>1, <1>2, WritersFollow
  <2>2. ProfilesInv' /\ ProfilesStay /\ UNCHANGED <<ServedRooms, RoomsBefore>>
    BY <1>1, <2>1, FaultFollows
  <2>3. UNCHANGED ExportedRooms
    BY <2>1 DEF ExportedRooms
  <2>4. ASSUME UNCHANGED Documents
        PROVE  Service!ServiceNext
    <3>1. Service!WriteAgain
      BY <2>2, <2>3 DEF ProfilesStay, Service!WriteAgain, Service!KeepProfiles
    <3>2. UNCHANGED <<Documents, edits>>
      BY <2>1, <2>4
    <3>. QED
      BY <3>1, <3>2, MovesAreRoomSteps DEF Move, Upkeep
  <2>5. ASSUME ~UNCHANGED Documents
        PROVE  Service!ServiceNext
    <3>1. PICK f, p :
            /\ f \in DOMAIN Documents
            /\ p \in DOMAIN Documents[f]
            /\ Documents' = [Documents EXCEPT ![f][p] = Documents'[f][p]]
            /\ \/ Documents[f][p] = "absent" /\ Documents'[f][p] \in {"image", "part"}
               \/ /\ f \in WritersNow /\ Documents[f][p] # "directory"
                  /\ Documents'[f][p] = "codex_text"
      BY <2>1, <2>5 DEF WritesOne
    <3>2. /\ Service!KeepProfiles
          /\ UNCHANGED <<ServedRooms, RoomsBefore, ExportedRooms, edits>>
      BY <2>1, <2>2, <2>3 DEF ProfilesStay, Service!KeepProfiles
    <3>3. Service!WriteDocument
      BY <3>1, <3>2, Zenon DEF Service!WriteDocument
    <3>. QED
      BY <3>3 DEF Service!ServiceNext
  <2>6. Service!ServiceNext
    BY <2>4, <2>5
  <2>. QED
    BY <2>1, <2>2, <2>6 DEF ServiceInv
<1>3. CASE OwnerEdits
  <2>1. FoldersInv' /\ edits' = edits + 1 /\ UNCHANGED <<storeVars, backups>>
    BY <1>1, <1>3, OwnerEditsFollow
  <2>2. ProfilesInv' /\ UNCHANGED <<ServedProfiles, ServedRooms, RoomsBefore>>
    BY <1>1, <2>1, StoresStayed, FaultFollows DEF storeVars
  <2>3. UNCHANGED ExportedRooms
    BY <2>1 DEF ExportedRooms
  <2>4. Service!OwnerEdits
    BY <2>1, <2>2, <2>3 DEF Service!OwnerEdits, Service!roomVars
  <2>. QED
    BY <2>1, <2>2, <2>4 DEF ServiceInv, Service!ServiceNext
<1>. QED
  BY <1>2, <1>3

LEMMA InitProfiles ==
  ASSUME Init
  PROVE  ProfilesInv /\ Served(RoomStore) = Unloaded
<1>1. PICK files \in Installations :
         stores = [s \in Stores |-> [memory |-> Unloaded, files |-> files[s]]]
  BY DEF Init
<1>2. phase = "down" /\ {RoomStore, "profiles"} \subseteq Stores
  BY DEF Init, Stores, Settings
<1>3. /\ Served(RoomStore) = Unloaded /\ Served("profiles") = Unloaded
      /\ Files(RoomStore) = files[RoomStore] /\ Files("profiles") = files["profiles"]
  BY <1>1, <1>2 DEF Served, Files
<1>4. LoadedInTime
  BY <1>2, <1>3 DEF LoadedInTime
<1>5. /\ Chosen = ReadValue("profiles", files["profiles"])
      /\ ServedProfiles = MigratedFor(ReadFile(RoomStore, files[RoomStore]), Chosen)
  BY <1>3 DEF Chosen, ServedProfiles, ViewProfiles, RoomFile
<1>6. \A f \in FilesOf(files[RoomStore]) :
        /\ MigratedFor(f, Chosen) = ServedProfiles
        /\ HasOldOwner(f) => OwnerOf(f) # Codex
  BY <1>5, RoomsAreOfOneOwner DEF FilesOf
<1>. QED
  BY <1>3, <1>4, <1>6 DEF ProfilesInv, OneOwner

LEMMA InitService ==
  ASSUME Init
  PROVE  ServiceInv /\ Service!ServiceInit
<1>1. ServiceInv
  BY InitDesktop, InitProfiles, InitFolders DEF ServiceInv
<1>2. ServedRooms = Current(Files(RoomStore)) /\ RoomsBefore = Before(Files(RoomStore))
  BY InitProfiles DEF ServedRooms, RoomsBefore, ViewRooms, Current, Before
<1>3. BundledRoom \in DOMAIN ServedRooms \cap DOMAIN RoomsBefore
  BY <1>2, BundledIsThere
<1>4. ExportedRooms = {} /\ edits = 0 /\ WritersNow = {}
  <2>1. backups = <<>> /\ turn = NoTurn /\ edits = 0
    BY DEF Init
  <2>2. DOMAIN backups = {}
    BY <2>1
  <2>. QED
    BY <2>1, <2>2 DEF ExportedRooms, WritersNow
<1>. QED
  BY <1>1, <1>3, <1>4 DEF Service!ServiceInit

LEMMA NextService ==
  ASSUME MarksAreNoValues, DamageIsAlone, ServiceInv, [Next]_vars
  PROVE  ServiceInv' /\ Service!ServiceNext
<1>1. DesktopInv'
  BY NextDesktop DEF ServiceInv
<1>2. CASE \/ WriteMessage \/ McpPost \/ Create \/ Rename \/ Join \/ Leave \/ Delete
           \/ ExportRooms \/ PreviewBackup \/ RestoreBackup
           \/ ConductorStatus \/ ChooseConductor \/ SetMode \/ DismissConductor
           \/ SaveAppearance \/ ChooseBackupDirectory \/ SaveProfile
           \/ OpenDialog \/ CloseDialog \/ ClearFolder \/ ResetContinuity
           \/ AskGemini \/ BridgeReply \/ Stop \/ UNCHANGED vars
  BY <1>1, <1>2, OwnerStepsFollow
<1>3. CASE \/ AskCodex \/ CodexReads \/ IngestImage \/ CodexFails \/ CodexAnswers \/ SaveReply
           \/ CommitContinuity \/ Start
  BY <1>1, <1>3, TurnStepsFollow
<1>4. CASE CodexCreates \/ CodexReplaces \/ FinishReplacing \/ SaveImage \/ OwnerEdits
  BY <1>1, <1>4, FolderStepsFollow
<1>. QED
  BY <1>2, <1>3, <1>4 DEF Next

-----------------------------------------------------------------------------

\* What the files of an owner make of the profiles, and how the folders are: the
\* profiles that are served are those every readable file of the Rooms gives, and a
\* file is replaced only in a turn with write access.  (participant_profiles.rs,
\* lib.rs, codex_app_server.rs)
THEOREM ServiceInvariant ==
  ASSUME MarksAreNoValues, DamageIsAlone
  PROVE  Spec => []ServiceInv
<1>1. Init => ServiceInv
  BY InitService
<1>2. ServiceInv /\ [Next]_vars => ServiceInv'
  BY NextService
<1>. QED
  BY <1>1, <1>2, PTL DEF Spec

\* The desktop implements the Room service: messages are only added, by members of
\* their Room; a Room keeps everybody its messages name; nothing else changes but on
\* the owner's order, through refused and cut writes, crashes, starts and - in scenarios
\* as DamageIsAlone admits them - a damaged file; and the owner's documents change as a
\* whole or not at all.  (room_source.rs, room.rs,
\* participant_profiles.rs, room_artifacts.rs, moe-workspace-broker)
THEOREM RoomServiceHolds ==
  ASSUME MarksAreNoValues, DamageIsAlone
  PROVE  Spec => ImplementsRoomService
<1>1. Init => Service!ServiceInit
  BY InitService
<1>2. ServiceInv /\ [Next]_vars => [Service!ServiceNext]_(Service!serviceVars)
  BY NextService
<1>. QED
  BY <1>1, <1>2, ServiceInvariant, PTL DEF Spec, ImplementsRoomService, Service!ServiceSpec
=============================================================================
