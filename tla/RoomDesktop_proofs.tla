-------------------------- MODULE RoomDesktop_proofs --------------------------
(***************************************************************************)
(* The desktop serves what its next start would find, for any installations,  *)
(* Rooms, folders, scenarios of commands and faults.  Two things are assumed: *)
(* the marks of a missing and of a damaged file are no values, and a damaged   *)
(* file meets a refused write only in stores that set damage aside.           *)
(***************************************************************************)
EXTENDS RoomDesktop, TLAPS, FiniteSetTheorems, SequenceTheorems
LOCAL INSTANCE SequencesExt

\* NoFile and Damaged stand for what is no value of any store.
MarksAreNoValues ==
  \A v : IsFunction(v) \/ IsSnapshot(v) \/ v \in {"default", "custom"}
           => v \notin {NoFile, Damaged}

\* The settings without a guard for damage are not written in a run that may
\* damage a file and then refuse a write as well.
DamageIsAlone ==
  \A s \in Scenarios :
    "damage" \in s.does /\ s.faults > 1 => s.does \cap {"settings", "directory"} = {}

-----------------------------------------------------------------------------
(* The files of a store.                                                    *)

IsPair(pair) == pair = [primary |-> pair.primary, backup |-> pair.backup]
FilesOf(pair) == {pair.primary, pair.backup} \ {NoFile, Damaged}

\* The stores that set a damaged primary aside.
SetsAside == {RoomStore, "conductors"}
\* The other stores that may have one.
Unguarded == {"appearance", "backup_directory"}

\* A store that may have a damaged primary has a backup beside it.
Repairable(store, pair) ==
  /\ pair.primary = Damaged =>
       pair.backup \notin {NoFile, Damaged} /\ store \in SetsAside \cup Unguarded
  /\ pair.backup = Damaged => store \in Unguarded

Undamaged(pair) == Damaged \notin {pair.primary, pair.backup}

\* The condition of MayFail.
MayBeCut(store, pair) ==
  \/ KeepsLast(store) /\ ~NeedsPrimary(store)
  \/ pair.primary # NoFile
  \/ pair.backup = NoFile

\* A write that succeeds leaves its value to the next start.
LEMMA WrittenIsRead ==
  ASSUME NEW store \in Stores, NEW pair, IsPair(pair), Repairable(store, pair),
         NEW value, value \notin {NoFile, Damaged}
  PROVE  LET new == Written(store, pair, value)
         IN /\ IsPair(new) /\ Repairable(store, new)
            /\ new.primary = value
            /\ FilesOf(new) \subseteq FilesOf(pair) \cup {value}
            /\ Undamaged(pair) \/ store \in SetsAside => Undamaged(new)
            /\ ReadFile(store, new) = value
<1>. DEFINE put == SetDamageAside(store, pair)
            cleared == RemoveBackup(KeepsLast(store), put)
            ready == MoveAside(cleared)
            new == Written(store, pair, value)
<1>. USE SnapshotConstants
<1>1. /\ IsPair(put)
      /\ put.primary \in {pair.primary, NoFile} /\ put.backup = pair.backup
      /\ store \in SetsAside => put.primary # Damaged
  BY DEF IsPair, SetDamageAside, SetsAside
<1>2. /\ IsPair(cleared) /\ cleared.primary = put.primary
      /\ cleared.backup \in {put.backup, NoFile}
  BY <1>1 DEF IsPair, RemoveBackup
<1>3. /\ IsPair(ready) /\ ready.backup \in {cleared.primary, cleared.backup}
  BY <1>2 DEF IsPair, MoveAside
<1>4. IsPair(new) /\ new.primary = value /\ new.backup = ready.backup
  BY <1>3 DEF IsPair, Written, Replaced, Ready, Install
<1>5. ReadFile(store, new) = value
  BY <1>4 DEF ReadFile, Loaded, ReadOrDefault, ReadRecovered
<1>6. Repairable(store, new)
  BY <1>1, <1>2, <1>3, <1>4 DEF Repairable
<1>. QED
  BY <1>1, <1>2, <1>3, <1>4, <1>5, <1>6 DEF FilesOf, Undamaged, Repairable, SetsAside, Unguarded,
     RoomStore

\* The steps of a refused write, one after the other.
LEMMA RefusedPairs ==
  ASSUME NEW store \in Stores, NEW pair, IsPair(pair), Repairable(store, pair),
         NEW new \in WriteRefused(store, pair)
  PROVE  /\ IsPair(new)
         /\ FilesOf(new) \subseteq FilesOf(pair)
         /\ Undamaged(pair) \/ store \in SetsAside => Repairable(store, new)
         /\ Undamaged(pair) => Undamaged(new)
<1>. USE SnapshotConstants
<1>. DEFINE put == SetDamageAside(store, pair)
            cleared == RemoveBackup(KeepsLast(store), put)
            ready == MoveAside(cleared)
<1>1. /\ IsPair(put)
      /\ put.primary \in {pair.primary, NoFile} /\ put.backup = pair.backup
      /\ Undamaged(pair) \/ store \in SetsAside => Undamaged(put)
  BY DEF IsPair, SetDamageAside, SetsAside, Undamaged, Repairable, Unguarded, RoomStore
<1>2. /\ IsPair(cleared) /\ cleared.primary = put.primary
      /\ cleared.backup \in {put.backup, NoFile}
  BY <1>1 DEF IsPair, RemoveBackup
<1>3. /\ IsPair(ready) /\ {ready.primary, ready.backup} \subseteq {cleared.primary, cleared.backup, NoFile}
  BY <1>2 DEF IsPair, MoveAside
<1>4. /\ IsPair(PutBack(ready))
      /\ {PutBack(ready).primary, PutBack(ready).backup} \subseteq {ready.primary, ready.backup, NoFile}
  BY <1>3 DEF IsPair, PutBack
<1>5. new \in {pair, put, cleared, ready, PutBack(ready)}
  BY DEF WriteRefused, Refused, Ready
<1>6. CASE new = pair
  BY <1>6
<1>7. ASSUME new # pair
      PROVE  IsPair(new) /\ {new.primary, new.backup} \subseteq {put.primary, put.backup, NoFile}
  BY <1>1, <1>2, <1>3, <1>4, <1>5, <1>7
<1>8. CASE new # pair
  BY <1>1, <1>7, <1>8 DEF FilesOf, Undamaged, Repairable
<1>. QED
  BY <1>6, <1>8

\* A refused write leaves the value of a store to the next start, or - profiles
\* and appearance - only a backup that the start does not look for.
LEMMA RefusedIsRead ==
  ASSUME NEW store \in Stores, NEW pair, IsPair(pair), Repairable(store, pair),
         MayBeCut(store, pair), Undamaged(pair) \/ store \in SetsAside,
         NEW new \in WriteRefused(store, pair)
  PROVE  \/ ReadFile(store, new) = ReadFile(store, pair)
         \/ NeedsPrimary(store) /\ new.primary = NoFile /\ new.backup # NoFile
<1>. USE SnapshotConstants
<1>. DEFINE put == SetDamageAside(store, pair)
            cleared == RemoveBackup(KeepsLast(store), put)
            ready == MoveAside(cleared)
            Same(p) == \/ ReadFile(store, p) = ReadFile(store, pair)
                       \/ NeedsPrimary(store) /\ p.primary = NoFile /\ p.backup # NoFile
<1>1. new \in {pair, put, cleared, ready, PutBack(ready)}
  BY DEF WriteRefused, Refused, Ready
<1>2. /\ IsPair(put) /\ Undamaged(put)
      /\ ReadFile(store, put) = ReadFile(store, pair)
      /\ put.backup = pair.backup
      /\ put.primary = pair.primary \/ (put.primary = NoFile /\ store \in SetsAside)
  BY DEF IsPair, Undamaged, SetDamageAside, SetsAside, Repairable, Unguarded, ReadFile,
     ReadRecovered, NoBackupForDamage, NeedsPrimary, RoomStore, MayBeCut
<1>3. MayBeCut(store, put)
  BY <1>2 DEF MayBeCut, SetsAside, KeepsLast, NeedsPrimary, RoomStore
<1>4. CASE put.primary = NoFile /\ KeepsLast(store)
  <2>1. cleared = put /\ ready = put
    BY <1>4, <1>2 DEF RemoveBackup, MoveAside
  <2>2. Same(PutBack(put))
    BY <1>2, <1>3, <1>4 DEF PutBack, ReadFile, Loaded, ReadOrDefault, ReadRecovered, MayBeCut,
       IsPair, Undamaged
  <2>. QED
    BY <1>1, <1>2, <2>1, <2>2
<1>5. CASE put.primary # NoFile
  <2>1. cleared = [primary |-> put.primary, backup |-> NoFile]
    BY <1>2, <1>5 DEF RemoveBackup, IsPair
  <2>2. ready = [primary |-> NoFile, backup |-> put.primary]
    BY <2>1, <1>5 DEF MoveAside
  <2>3. PutBack(ready) = cleared
    BY <2>1, <2>2, <1>5 DEF PutBack
  <2>4. Same(cleared) /\ Same(ready)
    BY <2>1, <2>2, <1>2, <1>5 DEF ReadFile, Loaded, ReadOrDefault, ReadRecovered, Undamaged
  <2>. QED
    BY <1>1, <1>2, <2>3, <2>4
<1>6. CASE put.primary = NoFile /\ ~KeepsLast(store)
  <2>1. put.backup = NoFile
    BY <1>3, <1>6 DEF MayBeCut
  <2>2. cleared = put /\ ready = put /\ PutBack(put) = put
    BY <2>1, <1>2, <1>6 DEF RemoveBackup, MoveAside, PutBack, IsPair
  <2>. QED
    BY <1>1, <1>2, <2>2
<1>. QED
  BY <1>4, <1>5, <1>6

-----------------------------------------------------------------------------
(* Snapshots of the Rooms.                                                  *)

\* What a start makes of the snapshot it reads, and every command of the one
\* that is served.
UpToDate(s) ==
  /\ IsSnapshot(s)
  /\ {Owner, Codex, Gemini} \subseteq DOMAIN s.people
  /\ Humans(s) = {Owner}
  /\ BundledRoom \in RoomIds(s)

ImageLess(s) == \A m \in Messages(s) : m.images = {}

\* The keys of an overlaid function are in the other one: nothing is added.
LEMMA NothingMissing ==
  ASSUME NEW f, NEW g, IsFunction(f), DOMAIN g \subseteq DOMAIN f
  PROVE  Over(f, g) = f
<1>1. DOMAIN f \cup DOMAIN g = DOMAIN f
  OBVIOUS
<1>2. Over(f, g) = [x \in DOMAIN f |-> f[x]]
  BY <1>1 DEF Over
<1>. QED
  BY <1>2 DEF IsFunction

LEMMA OverIsFunction ==
  ASSUME NEW f, NEW g
  PROVE  /\ IsFunction(Over(f, g))
         /\ DOMAIN Over(f, g) = DOMAIN f \cup DOMAIN g
         /\ \A x \in DOMAIN f : Over(f, g)[x] = f[x]
         /\ \A x \in DOMAIN g \ DOMAIN f : Over(f, g)[x] = g[x]
BY DEF IsFunction, Over

\* A snapshot that is up to date has the owner under the present ID.
LEMMA OwnerIsPresent ==
  ASSUME NEW s, Humans(s) = {Owner}
  PROVE  ~HasOldOwner(s) /\ OwnerOf(s) = Owner
BY DEF HasOldOwner, OwnerOf

\* Preparing a snapshot that is up to date changes nothing.
LEMMA UpToDateIsPrepared ==
  ASSUME NEW s, UpToDate(s)
  PROVE  Prepared(s) = s
<1>1. Normalized(s) = s
  BY OwnerIsPresent DEF UpToDate, Normalized
<1>2. DOMAIN Bundled.people = {Owner, Codex, Gemini} /\ DOMAIN Bundled.rooms = {BundledRoom}
  BY DEF Bundled
<1>3. Over(s.people, Bundled.people) = s.people /\ Over(s.rooms, Bundled.rooms) = s.rooms
  BY <1>2, NothingMissing DEF UpToDate, IsSnapshot, RoomIds
<1>. QED
  BY <1>1, <1>3 DEF Prepared, Merged, UpToDate, IsSnapshot

LEMMA BundledUpToDate == UpToDate(Bundled) /\ ImageLess(Bundled)
<1>1. Bundled = [people |-> Bundled.people, rooms |-> Bundled.rooms]
  BY DEF Bundled
<1>2. /\ DOMAIN Bundled.people = {Owner, Codex, Gemini}
      /\ IsFunction(Bundled.people)
      /\ Humans(Bundled) = {Owner}
  BY DEF Bundled, Humans, IsFunction, Owner, Codex, Gemini
<1>3. IsFiniteSet(DOMAIN Bundled.people)
  <2>1. IsFiniteSet({Owner}) /\ IsFiniteSet({Codex}) /\ IsFiniteSet({Gemini})
    BY FS_Singleton
  <2>2. {Owner, Codex, Gemini} = ({Owner} \cup {Codex}) \cup {Gemini}
    OBVIOUS
  <2>3. IsFiniteSet({Owner} \cup {Codex})
    BY <2>1, FS_Union
  <2>4. IsFiniteSet(({Owner} \cup {Codex}) \cup {Gemini})
    BY <2>1, <2>3, FS_Union
  <2>. QED
    BY <2>2, <2>4, <1>2
<1>4. /\ IsFunction(Bundled.rooms) /\ RoomIds(Bundled) = {BundledRoom}
      /\ Bundled.rooms[BundledRoom] = NewRoom("bundled", {Owner, Codex, Gemini})
  BY DEF Bundled, IsFunction, RoomIds
<1>5. IsRoom(Bundled.rooms[BundledRoom]) /\ MessagesIn(Bundled.rooms[BundledRoom]) = {}
  <2>1. ToSet(<<>>) = {} /\ <<>> \in Seq({})
    BY DEF ToSet
  <2>. QED
    BY <1>4, <2>1 DEF NewRoom, IsRoom, IsLog, MessagesIn
<1>6. IsSnapshot(Bundled)
  BY <1>1, <1>2, <1>3, <1>4, <1>5 DEF IsSnapshot
<1>7. ImageLess(Bundled)
  BY <1>4, <1>5 DEF ImageLess, Messages
<1>. QED
  BY <1>2, <1>4, <1>6, <1>7 DEF UpToDate

\* Bringing a snapshot up to date: it has one owner, under the present ID, and
\* what was missing; no message gets an image.
LEMMA NormalizedSnapshot ==
  ASSUME NEW s, IsSnapshot(s), HasOneOwner(s)
  PROVE  /\ IsSnapshot(Normalized(s))
         /\ Humans(Normalized(s)) = {Owner}
         /\ ImageLess(s) => ImageLess(Normalized(s))
<1>1. PICK old : Humans(s) = {old}
  <2>1. IsFiniteSet(Humans(s))
    BY FS_Subset DEF IsSnapshot, Humans
  <2>. QED
    BY <2>1, FS_Singleton DEF HasOneOwner
<1>2. OwnerOf(s) = old /\ old \in DOMAIN s.people
  BY <1>1 DEF OwnerOf, Humans
<1>3. CASE old = Owner
  BY <1>1, <1>2, <1>3 DEF Normalized, HasOldOwner
<1>4. CASE old # Owner
  <2>. DEFINE id(p) == IF p = OwnerOf(s) THEN Owner ELSE p
              message(m) == [m EXCEPT !.author = id(@), !.to = {id(p) : p \in @}]
              moved(log) == [i \in DOMAIN log |-> message(log[i])]
              room(q) == [q EXCEPT !.members = {id(p) : p \in @},
                                   !.log = [i \in DOMAIN @ |-> message(@[i])]]
              new == Normalized(s)
  <2>. HIDE DEF id, message, moved, room, new
  <2>1. new = [people |-> [p \in {id(q) : q \in DOMAIN s.people} |->
                             IF p = Owner THEN "human" ELSE s.people[p]],
               rooms |-> [r \in RoomIds(s) |-> room(s.rooms[r])]]
    BY <1>2, <1>4 DEF Normalized, HasOldOwner, HasOneOwner, id, message, room, new
  <2>2. /\ new = [people |-> new.people, rooms |-> new.rooms]
        /\ IsFunction(new.people) /\ IsFunction(new.rooms)
        /\ DOMAIN new.people = {id(q) : q \in DOMAIN s.people}
        /\ \A p \in DOMAIN new.people : new.people[p] = IF p = Owner THEN "human" ELSE s.people[p]
        /\ RoomIds(new) = RoomIds(s)
        /\ \A r \in RoomIds(s) : new.rooms[r] = room(s.rooms[r])
    BY <2>1 DEF IsFunction, RoomIds
  <2>3. IsFiniteSet(DOMAIN new.people)
    <3>1. IsFiniteSet((DOMAIN s.people) \cup {Owner})
      BY FS_AddElement DEF IsSnapshot
    <3>. QED
      <4>1. DOMAIN new.people \subseteq (DOMAIN s.people) \cup {Owner}
        BY <2>2 DEF id
      <4>. QED
        BY <3>1, <4>1, FS_Subset
  <2>4. Humans(new) = {Owner}
    <3>1. Owner \in DOMAIN new.people /\ new.people[Owner] = "human"
      BY <1>2, <2>2 DEF id
    <3>2. ASSUME NEW p \in DOMAIN new.people, p # Owner
          PROVE  new.people[p] # "human"
      <4>1. p \in DOMAIN s.people /\ p # OwnerOf(s)
        BY <2>2, <3>2 DEF id
      <4>2. s.people[p] # "human"
        BY <1>1, <1>2, <4>1 DEF Humans
      <4>. QED
        BY <2>2, <3>2, <4>2
    <3>. QED
      BY <3>1, <3>2 DEF Humans
  <2>5. ASSUME NEW r \in RoomIds(s)
        PROVE  /\ IsRoom(new.rooms[r])
               /\ \A m \in MessagesIn(new.rooms[r]) :
                    \E n \in MessagesIn(s.rooms[r]) : m.images = n.images
    <3>. DEFINE q == s.rooms[r]
                log == q.log
    <3>1. IsRoom(q)
      BY DEF IsSnapshot
    <3>2. new.rooms[r] = [name |-> q.name, members |-> {id(p) : p \in q.members},
                          log |-> moved(log)]
      BY <2>2, <3>1 DEF IsRoom, room, moved
    <3>3. \A i \in DOMAIN log : /\ "images" \in DOMAIN message(log[i])
                                /\ message(log[i]).images = log[i].images
      BY <3>1 DEF IsRoom, IsLog, ToSet, message
    <3>4. ToSet(moved(log)) = {message(log[i]) : i \in DOMAIN log}
      BY DEF ToSet, moved
    <3>5. moved(log) \in Seq(ToSet(moved(log)))
      <4>1. Len(log) \in Nat /\ DOMAIN log = 1..Len(log)
        BY <3>1 DEF IsRoom, IsLog
      <4>2. moved(log) \in [1..Len(log) -> ToSet(moved(log))]
        BY <4>1, <3>4 DEF moved
      <4>. QED
        BY <4>1, <4>2, SeqDef
    <3>6. IsLog(moved(log))
      BY <3>3, <3>4, <3>5 DEF IsLog
    <3>7. IsRoom(new.rooms[r])
      BY <3>2, <3>6 DEF IsRoom
    <3>8. new.rooms[r].log = moved(log)
      BY <3>2
    <3>. QED
      BY <3>3, <3>4, <3>7, <3>8 DEF MessagesIn, ToSet
  <2>6. IsSnapshot(new)
    BY <2>2, <2>3, <2>5 DEF IsSnapshot
  <2>7. ImageLess(s) => ImageLess(new)
    <3>. SUFFICES ASSUME ImageLess(s), NEW r \in RoomIds(s), NEW m \in MessagesIn(new.rooms[r])
                  PROVE  m.images = {}
      BY <2>2 DEF ImageLess, Messages
    <3>. QED
      BY <2>5 DEF ImageLess, Messages
  <2>. QED
    BY <2>4, <2>6, <2>7 DEF new
<1>. QED
  BY <1>3, <1>4

\* What a start serves is up to date and has no more images than the file.
LEMMA PreparedIsUpToDate ==
  ASSUME NEW s, IsSnapshot(s), HasOneOwner(s)
  PROVE  UpToDate(Prepared(s)) /\ (ImageLess(s) => ImageLess(Prepared(s)))
<1>. DEFINE old == Normalized(s)
            new == Prepared(s)
<1>1. IsSnapshot(old) /\ Humans(old) = {Owner} /\ (ImageLess(s) => ImageLess(old))
  BY NormalizedSnapshot
<1>. HIDE DEF old
<1>2. new = [people |-> Over(old.people, Bundled.people), rooms |-> Over(old.rooms, Bundled.rooms)]
  BY DEF Prepared, Merged, old
<1>. HIDE DEF new
<1>3. /\ IsSnapshot(Bundled) /\ ImageLess(Bundled) /\ Humans(Bundled) = {Owner}
      /\ DOMAIN Bundled.people = {Owner, Codex, Gemini} /\ RoomIds(Bundled) = {BundledRoom}
  BY BundledUpToDate DEF UpToDate, Bundled, RoomIds
<1>4. /\ IsFunction(new.people)
      /\ DOMAIN new.people = DOMAIN old.people \cup {Owner, Codex, Gemini}
      /\ \A p \in DOMAIN old.people : new.people[p] = old.people[p]
      /\ \A p \in {Owner, Codex, Gemini} \ DOMAIN old.people : new.people[p] = Bundled.people[p]
  <2>1. new.people = Over(old.people, Bundled.people)
    BY <1>2
  <2>2. DOMAIN Bundled.people = {Owner, Codex, Gemini}
    BY <1>3
  <2>. QED
    BY ONLY <2>1, <2>2 DEF Over, IsFunction
<1>5. /\ IsFunction(new.rooms)
      /\ RoomIds(new) = RoomIds(old) \cup {BundledRoom}
      /\ \A r \in RoomIds(old) : new.rooms[r] = old.rooms[r]
      /\ \A r \in {BundledRoom} \ RoomIds(old) : new.rooms[r] = Bundled.rooms[r]
  <2>1. new.rooms = Over(old.rooms, Bundled.rooms)
    BY <1>2
  <2>2. DOMAIN Bundled.rooms = {BundledRoom}
    BY <1>3 DEF RoomIds
  <2>. QED
    BY ONLY <2>1, <2>2 DEF Over, IsFunction, RoomIds
<1>6. IsFiniteSet(DOMAIN new.people)
  <2>1. IsFiniteSet(DOMAIN old.people) /\ IsFiniteSet(DOMAIN Bundled.people)
    BY <1>1, <1>3 DEF IsSnapshot
  <2>2. IsFiniteSet((DOMAIN old.people) \cup DOMAIN Bundled.people)
    BY <2>1, FS_Union
  <2>. QED
    BY <1>3, <1>4, <2>2
<1>7. IsSnapshot(new)
  <2>1. new = [people |-> new.people, rooms |-> new.rooms]
    BY <1>2
  <2>2. \A r \in RoomIds(new) : IsRoom(new.rooms[r])
    BY <1>1, <1>3, <1>5 DEF IsSnapshot
  <2>. QED
    BY <1>4, <1>5, <1>6, <2>1, <2>2 DEF IsSnapshot
<1>8. Humans(new) = {Owner}
  <2>1. ASSUME NEW p \in Humans(new)
        PROVE  p = Owner
    BY <1>1, <1>3, <1>4 DEF Humans
  <2>2. Owner \in DOMAIN old.people /\ old.people[Owner] = "human"
    BY <1>1 DEF Humans
  <2>3. Owner \in Humans(new)
    BY <1>4, <2>2 DEF Humans
  <2>. QED
    BY <2>1, <2>3
<1>9. ASSUME ImageLess(s)
      PROVE  ImageLess(new)
  BY <1>1, <1>3, <1>5, <1>9 DEF ImageLess, Messages
<1>10. UpToDate(new)
  BY <1>4, <1>5, <1>7, <1>8 DEF UpToDate
<1>. QED
  BY <1>9, <1>10 DEF new

-----------------------------------------------------------------------------
(* The operations of the catalog.                                           *)

\* A log with one more message.
LEMMA AppendedLog ==
  ASSUME NEW log, IsLog(log), NEW m, "images" \in DOMAIN m
  PROVE  IsLog(Append(log, m)) /\ ToSet(Append(log, m)) = ToSet(log) \cup {m}
<1>. DEFINE S == ToSet(log) \cup {m}
            new == Append(log, m)
<1>1. log \in Seq(S) /\ m \in S
  BY SeqMonotonic DEF IsLog
<1>2. /\ new \in Seq(S) /\ Len(new) = Len(log) + 1 /\ Len(log) \in Nat
      /\ \A i \in 1..Len(log) : new[i] = log[i]
      /\ new[Len(log) + 1] = m
      /\ DOMAIN new = 1..Len(new) /\ DOMAIN log = 1..Len(log)
  BY <1>1
<1>. HIDE DEF new
<1>3. ToSet(new) = S
  <2>1. ToSet(new) \subseteq S
    BY <1>2 DEF ToSet
  <2>2. ASSUME NEW n \in ToSet(log)
        PROVE  n \in ToSet(new)
    BY <1>2 DEF ToSet
  <2>3. m \in ToSet(new)
    BY <1>2 DEF ToSet
  <2>. QED
    BY <2>1, <2>2, <2>3
<1>4. IsLog(new)
  BY <1>2, <1>3 DEF IsLog
<1>. QED
  BY <1>3, <1>4 DEF new

\* One Room of a snapshot is changed or added.
LEMMA OneRoomChanged ==
  ASSUME NEW s, UpToDate(s), NEW r, NEW q, IsRoom(q), NEW new,
         new = [people |-> s.people, rooms |-> new.rooms], IsFunction(new.rooms),
         RoomIds(new) = RoomIds(s) \cup {r}, new.rooms[r] = q,
         \A x \in RoomIds(s) \ {r} : new.rooms[x] = s.rooms[x]
  PROVE  /\ UpToDate(new)
         /\ ImageLess(s) /\ (\A m \in MessagesIn(q) : m.images = {}) => ImageLess(new)
<1>1. IsSnapshot(new)
  BY DEF IsSnapshot, UpToDate
<1>2. Humans(new) = Humans(s)
  BY DEF Humans
<1>3. ImageLess(s) /\ (\A m \in MessagesIn(q) : m.images = {}) => ImageLess(new)
  BY DEF ImageLess, Messages
<1>. QED
  BY <1>1, <1>2, <1>3 DEF UpToDate

LEMMA RoomWithLog ==
  ASSUME NEW q, IsRoom(q), NEW log
  PROVE  [q EXCEPT !.log = log] = [name |-> q.name, members |-> q.members, log |-> log]
BY DEF IsRoom

\* The snapshot an operation leaves is up to date, and has no image when what
\* was appended has none.
LEMMA AppendKeeps ==
  ASSUME NEW s, UpToDate(s), NEW m, "images" \in DOMAIN m
  PROVE  LET new == AppendMessage(s, m).snapshot
         IN UpToDate(new) /\ (ImageLess(s) /\ m.images = {} => ImageLess(new))
<1>1. CASE CanAppend(s, m) /\ AppendMessage(s, m).status = "changed"
  <2>. DEFINE new == AppendMessage(s, m).snapshot
              q == s.rooms[m.room]
              room == [name |-> q.name, members |-> q.members, log |-> Append(q.log, m)]
  <2>1. new = [s EXCEPT !.rooms[m.room].log = Append(@, m)]
    BY <1>1 DEF AppendMessage, Result
  <2>2. m.room \in RoomIds(s) /\ IsRoom(q)
    BY <1>1 DEF CanAppend, UpToDate, IsSnapshot
  <2>3. /\ new = [people |-> s.people, rooms |-> new.rooms]
        /\ IsFunction(new.rooms) /\ RoomIds(new) = RoomIds(s) \cup {m.room}
        /\ new.rooms[m.room] = room
        /\ \A x \in RoomIds(s) \ {m.room} : new.rooms[x] = s.rooms[x]
    <3>1. new = [people |-> s.people,
                 rooms |-> [s.rooms EXCEPT ![m.room] = [q EXCEPT !.log = Append(q.log, m)]]]
      BY <2>1, <2>2 DEF UpToDate, IsSnapshot, RoomIds
    <3>2. [q EXCEPT !.log = Append(q.log, m)] = room
      BY <2>2, RoomWithLog
    <3>3. s.rooms = [x \in RoomIds(s) |-> s.rooms[x]]
      BY DEF UpToDate, IsSnapshot, IsFunction, RoomIds
    <3>. HIDE DEF new, room, q
    <3>4. new.rooms = [s.rooms EXCEPT ![m.room] = room]
      BY <3>1, <3>2
    <3>. QED
      BY <2>2, <3>1, <3>3, <3>4 DEF IsFunction, RoomIds
  <2>4. IsRoom(room) /\ MessagesIn(room) = MessagesIn(q) \cup {m}
    BY <2>2, AppendedLog DEF IsRoom, MessagesIn
  <2>. HIDE DEF new, room
  <2>5. UpToDate(new)
        /\ (ImageLess(s) /\ (\A n \in MessagesIn(room) : n.images = {}) => ImageLess(new))
    BY <2>3, <2>4, OneRoomChanged
  <2>. QED
    BY <2>2, <2>4, <2>5 DEF new, ImageLess, Messages
<1>2. CASE AppendMessage(s, m).snapshot = s
  BY <1>2
<1>. QED
  BY <1>1, <1>2 DEF AppendMessage, Result

Kept(s, new) == UpToDate(new) /\ (ImageLess(s) => ImageLess(new))

\* A Room that is arranged anew keeps its log.
LEMMA ArrangedKeeps ==
  ASSUME NEW s, UpToDate(s), NEW r \in RoomIds(s), NEW name, NEW members
  PROVE  /\ [s EXCEPT !.rooms[r].name = name].people = s.people
         /\ Kept(s, [s EXCEPT !.rooms[r].name = name])
         /\ Kept(s, [s EXCEPT !.rooms[r].members = members])
<1>. DEFINE q == s.rooms[r]
<1>1. IsRoom(q)
  BY DEF UpToDate, IsSnapshot
<1>2. ASSUME NEW room, IsRoom(room), room.log = q.log, NEW new,
             new = [people |-> s.people, rooms |-> [s.rooms EXCEPT ![r] = room]]
      PROVE  Kept(s, new)
  <2>1. s.rooms = [x \in RoomIds(s) |-> s.rooms[x]]
    BY DEF UpToDate, IsSnapshot, IsFunction, RoomIds
  <2>2. /\ new = [people |-> s.people, rooms |-> new.rooms]
        /\ IsFunction(new.rooms) /\ RoomIds(new) = RoomIds(s) \cup {r}
        /\ new.rooms[r] = room
        /\ \A x \in RoomIds(s) \ {r} : new.rooms[x] = s.rooms[x]
    BY <1>2, <2>1 DEF IsFunction, RoomIds
  <2>3. UpToDate(new) /\ (ImageLess(s) /\ (\A m \in MessagesIn(room) : m.images = {}) => ImageLess(new))
    <3>1. IsRoom(room)
      BY <1>2
    <3>. QED
      BY <2>2, <3>1, OneRoomChanged
  <2>. QED
    BY <1>2, <2>3 DEF Kept, ImageLess, Messages, MessagesIn
<1>3. /\ [s EXCEPT !.rooms[r].name = name] =
           [people |-> s.people, rooms |-> [s.rooms EXCEPT ![r] = [q EXCEPT !.name = name]]]
      /\ [s EXCEPT !.rooms[r].members = members] =
           [people |-> s.people, rooms |-> [s.rooms EXCEPT ![r] = [q EXCEPT !.members = members]]]
  BY DEF UpToDate, IsSnapshot, RoomIds
<1>4. \A room \in {[q EXCEPT !.name = name], [q EXCEPT !.members = members]} :
        IsRoom(room) /\ room.log = q.log
  <2>1. /\ [q EXCEPT !.name = name] = [name |-> name, members |-> q.members, log |-> q.log]
        /\ [q EXCEPT !.members = members] = [name |-> q.name, members |-> members, log |-> q.log]
    BY <1>1 DEF IsRoom
  <2>. QED
    BY <1>1, <2>1 DEF IsRoom
<1>. HIDE DEF q
<1>. QED
  BY <1>2, <1>3, <1>4

LEMMA RenameKeeps ==
  ASSUME NEW s, UpToDate(s), NEW r, NEW name
  PROVE  Kept(s, RenameRoom(s, r, name).snapshot)
BY ArrangedKeeps DEF RenameRoom, Result, Kept

LEMMA MembersKeep ==
  ASSUME NEW s, UpToDate(s), NEW r, NEW p
  PROVE  Kept(s, AddMember(s, r, p).snapshot) /\ Kept(s, RemoveMember(s, r, p).snapshot)
<1>1. \A members : r \in RoomIds(s) => Kept(s, [s EXCEPT !.rooms[r].members = members])
  BY ArrangedKeeps
<1>2. Kept(s, s)
  BY DEF Kept
<1>3. Kept(s, AddMember(s, r, p).snapshot)
  <2>1. \/ AddMember(s, r, p).snapshot = s
        \/ /\ r \in RoomIds(s)
           /\ AddMember(s, r, p).snapshot =
                [s EXCEPT !.rooms[r].members = s.rooms[r].members \cup {p}]
    BY DEF AddMember, Result
  <2>. QED
    BY <1>1, <1>2, <2>1
<1>4. Kept(s, RemoveMember(s, r, p).snapshot)
  <2>1. \/ RemoveMember(s, r, p).snapshot = s
        \/ /\ r \in RoomIds(s)
           /\ RemoveMember(s, r, p).snapshot =
                [s EXCEPT !.rooms[r].members = s.rooms[r].members \ {p}]
    BY DEF RemoveMember, Result
  <2>. QED
    BY <1>1, <1>2, <2>1
<1>. QED
  BY <1>3, <1>4

LEMMA CreateKeeps ==
  ASSUME NEW s, UpToDate(s), NEW r, NEW name, NEW members
  PROVE  Kept(s, CreateRoom(s, r, name, members).snapshot)
<1>1. CASE CreateRoom(s, r, name, members).snapshot = s
  BY <1>1 DEF Kept
<1>2. CASE r \notin RoomIds(s)
           /\ CreateRoom(s, r, name, members).snapshot = PutRoom(s, r, NewRoom(name, members))
  <2>. DEFINE room == NewRoom(name, members)
              new == PutRoom(s, r, room)
  <2>1. IsRoom(room) /\ MessagesIn(room) = {}
    <3>1. ToSet(<<>>) = {} /\ <<>> \in Seq({})
      BY DEF ToSet
    <3>. QED
      BY <3>1 DEF NewRoom, IsRoom, IsLog, MessagesIn
  <2>. HIDE DEF room
  <2>2. new = [people |-> s.people,
               rooms |-> [q \in RoomIds(s) \cup {r} |-> IF q = r THEN room ELSE s.rooms[q]]]
    BY DEF PutRoom, UpToDate, IsSnapshot
  <2>. HIDE DEF new
  <2>3. /\ new = [people |-> s.people, rooms |-> new.rooms]
        /\ IsFunction(new.rooms) /\ RoomIds(new) = RoomIds(s) \cup {r}
        /\ new.rooms[r] = room
        /\ \A x \in RoomIds(s) \ {r} : new.rooms[x] = s.rooms[x]
    BY <2>2 DEF IsFunction, RoomIds
  <2>4. UpToDate(new) /\ (ImageLess(s) /\ (\A m \in MessagesIn(room) : m.images = {}) => ImageLess(new))
    BY <2>1, <2>3, OneRoomChanged
  <2>. QED
    BY <1>2, <2>1, <2>4 DEF Kept, new, room
<1>. QED
  BY <1>1, <1>2 DEF CreateRoom, Result

LEMMA DeleteKeeps ==
  ASSUME NEW s, UpToDate(s), NEW r, r # BundledRoom
  PROVE  Kept(s, DeleteRoom(s, r).snapshot)
<1>1. CASE DeleteRoom(s, r).snapshot = s
  BY <1>1 DEF Kept
<1>2. CASE DeleteRoom(s, r).snapshot =
             [s EXCEPT !.rooms = [q \in RoomIds(s) \ {r} |-> s.rooms[q]]]
  <2>. DEFINE new == DeleteRoom(s, r).snapshot
  <2>1. new = [people |-> s.people, rooms |-> [q \in RoomIds(s) \ {r} |-> s.rooms[q]]]
    BY <1>2 DEF UpToDate, IsSnapshot
  <2>. HIDE DEF new
  <2>2. /\ new = [people |-> s.people, rooms |-> new.rooms]
        /\ IsFunction(new.rooms) /\ RoomIds(new) = RoomIds(s) \ {r}
        /\ \A x \in RoomIds(new) : new.rooms[x] = s.rooms[x]
    BY <2>1 DEF IsFunction, RoomIds
  <2>3. IsSnapshot(new) /\ Humans(new) = Humans(s)
    BY <2>2 DEF UpToDate, IsSnapshot, Humans
  <2>4. UpToDate(new)
    BY <2>2, <2>3 DEF UpToDate
  <2>5. ImageLess(s) => ImageLess(new)
    BY <2>2 DEF ImageLess, Messages
  <2>. QED
    BY <2>4, <2>5 DEF Kept, new
<1>. QED
  BY <1>1, <1>2 DEF DeleteRoom, Result

-----------------------------------------------------------------------------
(* The inductive invariant.                                                 *)

StoresOK ==
  /\ DOMAIN stores = Stores
  /\ \A s \in Stores :
       /\ stores[s] = [memory |-> Served(s), files |-> Files(s)]
       /\ IsPair(Files(s)) /\ Repairable(s, Files(s))

\* While a write may still be refused, what it does not set aside is intact.
FaultsOK ==
  /\ scenario \in Scenarios
  /\ faults \in Nat /\ faults <= scenario.faults
  /\ faults > 0 /\ scenario.does \cap {"settings", "directory"} # {}
       => \A s \in Unguarded : Undamaged(Files(s))

RoomFilesOK == \A f \in FilesOf(Files(RoomStore)) : IsSnapshot(f)

\* Up to the commit the Rooms are what the start made of the file, from then on
\* they are the file.
RoomsServed ==
  /\ phase \in Phases
  /\ phase # "down" => UpToDate(Served(RoomStore))
  /\ phase \in {"prepared", "migrated"} => Served(RoomStore) = StartRooms(Files(RoomStore))
  /\ phase \in {"committed", "running"} =>
       \/ RoomFile = Served(RoomStore)
       \/ RoomFile = NoFile /\ Served(RoomStore) = Bundled

SettingServed(s) == LostPrimary(s) \/ Served(s) = ReadValue(s, Files(s))

SettingsServed ==
  /\ phase \in {"migrated", "committed"} => SettingServed("profiles")
  /\ phase = "running" => \A s \in Settings : SettingServed(s)

StoreInv == StoresOK /\ FaultsOK /\ RoomFilesOK /\ RoomsServed /\ SettingsServed

\* As long as no image was stored no Room and no turn names one.
NoImages ==
  /\ \A f \in FilesOf(Files(RoomStore)) : ImageLess(f)
  /\ phase # "down" => ImageLess(Served(RoomStore))
  /\ \A i \in DOMAIN backups : ImageLess(backups[i].image)
  /\ turn.step # "idle" => turn.images = {}

ImagesOK == image = "whole" \/ NoImages

TurnOK == turn.step # "idle" => {"images", "step"} \subseteq DOMAIN turn

BackupsOK ==
  /\ backups \in Seq(ToSet(backups))
  /\ \A i \in DOMAIN backups : UpToDate(backups[i].image)

DesktopInv == StoreInv /\ ImagesOK /\ TurnOK /\ BackupsOK

-----------------------------------------------------------------------------
(* What a write does to the stores.                                         *)

\* Whatever is served or on file of the Rooms after a step was there before, or
\* is one of the values of V.
RoomsFrom(V) ==
  /\ FilesOf(Files(RoomStore))' \subseteq FilesOf(Files(RoomStore)) \cup V
  /\ phase' # "down" =>
       \/ Served(RoomStore)' \in V
       \/ phase # "down" /\ Served(RoomStore)' = Served(RoomStore)

LEMMA PutStores ==
  ASSUME StoresOK, NEW store \in Stores, NEW value, NEW pair, Put(store, value, pair)
  PROVE  /\ DOMAIN stores' = Stores
         /\ Served(store)' = value /\ Files(store)' = pair
         /\ \A s \in Stores \ {store} : Served(s)' = Served(s) /\ Files(s)' = Files(s)
         /\ \A s \in Stores : stores'[s] = [memory |-> Served(s)', files |-> Files(s)']
BY DEF StoresOK, Put, Served, Files

LEMMA EndStores ==
  ASSUME NEW store \in Stores, NEW pair, End(store, pair)
  PROVE  /\ DOMAIN stores' = Stores
         /\ Files(store)' = pair
         /\ \A s \in Stores \ {store} : Files(s)' = Files(s)
         /\ \A s \in Stores : stores'[s] = [memory |-> Served(s)', files |-> Files(s)']
BY DEF End, Served, Files

\* The process ends with files that a next start can work with.
LEMMA EndKeeps ==
  ASSUME StoreInv, NEW store \in Stores, NEW pair, End(store, pair),
         IsPair(pair), Repairable(store, pair), NEW V,
         store = RoomStore => FilesOf(pair) \subseteq FilesOf(Files(store)) \cup V,
         \A f \in V : IsSnapshot(f),
         faults' \in Nat, faults' <= faults, scenario' = scenario,
         faults' > 0 /\ store \in Unguarded /\ Undamaged(Files(store)) => Undamaged(pair)
  PROVE  StoreInv' /\ RoomsFrom(V)
<1>1. /\ DOMAIN stores' = Stores
      /\ Files(store)' = pair
      /\ \A s \in Stores \ {store} : Files(s)' = Files(s)
      /\ \A s \in Stores : stores'[s] = [memory |-> Served(s)', files |-> Files(s)']
  BY EndStores
<1>2. phase' = "down"
  BY DEF End
<1>3. StoresOK'
  BY <1>1 DEF StoreInv, StoresOK
<1>4. RoomsFrom(V)
  BY <1>1, <1>2 DEF RoomsFrom, FilesOf, Stores
<1>5. RoomFilesOK'
  BY <1>4 DEF StoreInv, RoomFilesOK, RoomsFrom, FilesOf
<1>6. FaultsOK'
  <2>1. \A s \in Unguarded : s \in Stores
    BY DEF Unguarded, Stores, Settings
  <2>2. faults > 0 \/ faults' = 0
    BY DEF StoreInv, FaultsOK
  <2>3. faults' <= scenario'.faults
    BY ScenarioFaults DEF StoreInv, FaultsOK
  <2>. QED
    BY <1>1, <2>1, <2>2, <2>3 DEF StoreInv, FaultsOK
<1>7. RoomsServed' /\ SettingsServed'
  BY <1>2 DEF RoomsServed, SettingsServed, Phases
<1>. QED
  BY <1>3, <1>4, <1>5, <1>6, <1>7 DEF StoreInv

\* A store of the running desktop gets a value, on file and in memory.
LEMMA SaveKeeps ==
  ASSUME StoreInv, NEW store \in Stores, NEW value, value \notin {NoFile, Damaged},
         Save(store, value), scenario' = scenario,
         phase = "running" \/ (phase = "committed" /\ store = RoomStore),
         store = RoomStore => UpToDate(value)
  PROVE  StoreInv' /\ RoomsFrom(IF store = RoomStore THEN {value} ELSE {})
<1>. DEFINE new == Written(store, Files(store), value)
<1>1. /\ DOMAIN stores' = Stores
      /\ Served(store)' = value /\ Files(store)' = new
      /\ \A s \in Stores \ {store} : Served(s)' = Served(s) /\ Files(s)' = Files(s)
      /\ \A s \in Stores : stores'[s] = [memory |-> Served(s)', files |-> Files(s)']
  BY PutStores DEF Save, StoreInv
<1>2. IsPair(Files(store)) /\ Repairable(store, Files(store))
  BY DEF StoreInv, StoresOK
<1>3. /\ IsPair(new) /\ Repairable(store, new)
      /\ new.primary = value
      /\ FilesOf(new) \subseteq FilesOf(Files(store)) \cup {value}
      /\ Undamaged(Files(store)) \/ store \in SetsAside => Undamaged(new)
      /\ ReadFile(store, new) = value
  BY <1>2, WrittenIsRead
<1>. HIDE DEF new
<1>4. phase' = phase /\ faults' = faults
  BY DEF Save
<1>5. StoresOK'
  BY <1>1, <1>3 DEF StoreInv, StoresOK
<1>6. RoomsFrom(IF store = RoomStore THEN {value} ELSE {})
  BY <1>1, <1>3, <1>4 DEF RoomsFrom, FilesOf, Stores, StoreInv, RoomsServed
<1>7. RoomFilesOK'
  BY <1>6 DEF StoreInv, RoomFilesOK, RoomsFrom, FilesOf, UpToDate
<1>8. FaultsOK'
  <2>1. \A s \in Unguarded : s \in Stores
    BY DEF Unguarded, Stores, Settings
  <2>. QED
    BY <1>1, <1>3, <1>4, <2>1 DEF StoreInv, FaultsOK
<1>9. RoomsServed'
  BY <1>1, <1>3, <1>4 DEF StoreInv, RoomsServed, RoomFile, Stores
<1>10. SettingsServed'
  <2>1. ASSUME NEW s \in Settings, SettingServed(s), s # store
        PROVE  SettingServed(s)'
    BY <1>1, <2>1 DEF SettingServed, LostPrimary, Stores
  <2>2. store \in Settings => SettingServed(store)'
    BY <1>1, <1>3 DEF SettingServed, ReadValue
  <2>. QED
    BY <1>4, <2>1, <2>2 DEF StoreInv, SettingsServed, Settings, RoomStore
<1>. QED
  BY <1>5, <1>6, <1>7, <1>8, <1>9, <1>10 DEF StoreInv

\* The file system refuses a write: the readers keep what the next start finds.
LEMMA RefuseKeeps ==
  ASSUME StoreInv, NEW store \in Stores, RefuseSave(store, Served(store)),
         scenario' = scenario, phase \in {"committed", "running"},
         store \in Unguarded => scenario.does \cap {"settings", "directory"} # {}
  PROVE  StoreInv' /\ RoomsFrom({})
<1>1. PICK new \in WriteRefused(store, Files(store)) : Put(store, Served(store), new)
  BY DEF RefuseSave
<1>2. /\ DOMAIN stores' = Stores
      /\ Served(store)' = Served(store) /\ Files(store)' = new
      /\ \A s \in Stores \ {store} : Served(s)' = Served(s) /\ Files(s)' = Files(s)
      /\ \A s \in Stores : stores'[s] = [memory |-> Served(s)', files |-> Files(s)']
  BY <1>1, PutStores DEF StoreInv
<1>3. IsPair(Files(store)) /\ Repairable(store, Files(store)) /\ MayBeCut(store, Files(store))
  BY DEF StoreInv, StoresOK, RefuseSave, MayFail, MayBeCut
<1>4. faults > 0 /\ faults \in Nat /\ faults' = faults - 1 /\ phase' = phase
  BY DEF RefuseSave, Fault, StoreInv, FaultsOK
<1>5. Undamaged(Files(store)) \/ store \in SetsAside
  BY <1>3, <1>4 DEF StoreInv, FaultsOK, Repairable, Undamaged, SetsAside, Unguarded
<1>6. /\ IsPair(new) /\ Repairable(store, new)
      /\ FilesOf(new) \subseteq FilesOf(Files(store))
      /\ Undamaged(Files(store)) => Undamaged(new)
  BY <1>3, <1>5, RefusedPairs
<1>7. \/ ReadFile(store, new) = ReadFile(store, Files(store))
      \/ NeedsPrimary(store) /\ new.primary = NoFile /\ new.backup # NoFile
  BY <1>3, <1>5, RefusedIsRead
<1>8. StoresOK'
  BY <1>2, <1>6 DEF StoreInv, StoresOK
<1>9. RoomsFrom({})
  BY <1>2, <1>4, <1>6 DEF RoomsFrom, FilesOf, Stores
<1>10. RoomFilesOK'
  BY <1>9 DEF StoreInv, RoomFilesOK, RoomsFrom, FilesOf
<1>11. FaultsOK'
  <2>1. \A s \in Unguarded : s \in Stores
    BY DEF Unguarded, Stores, Settings
  <2>2. faults' \in Nat /\ faults' <= scenario'.faults
    BY <1>4, ScenarioFaults DEF StoreInv, FaultsOK
  <2>. QED
    BY <1>2, <1>4, <1>6, <2>1, <2>2 DEF StoreInv, FaultsOK
<1>12. RoomsServed'
  <2>1. RoomFile' = RoomFile
    BY <1>2, <1>7 DEF RoomFile, NeedsPrimary, Stores, RoomStore
  <2>2. Served(RoomStore)' = Served(RoomStore)
    BY <1>2 DEF Stores
  <2>. QED
    BY <1>4, <2>1, <2>2 DEF StoreInv, RoomsServed
<1>13. SettingsServed'
  <2>1. ASSUME NEW s \in Settings, SettingServed(s), s # store
        PROVE  SettingServed(s)'
    BY <1>2, <2>1 DEF SettingServed, LostPrimary, Stores
  <2>2. store \in Settings /\ SettingServed(store) => SettingServed(store)'
    <3>1. ~LostPrimary(store)
      BY <1>3 DEF LostPrimary, MayBeCut
    <3>. QED
      BY <1>2, <1>7, <3>1 DEF SettingServed, LostPrimary, ReadValue
  <2>. QED
    BY <1>4, <2>1, <2>2 DEF StoreInv, SettingsServed, Settings
<1>. QED
  BY <1>8, <1>9, <1>10, <1>11, <1>12, <1>13 DEF StoreInv

\* What a cut write leaves: one of the steps of a refused one, or the new files.
LEMMA CutPairs ==
  ASSUME NEW store \in Stores, NEW pair, IsPair(pair), Repairable(store, pair),
         NEW value, value \notin {NoFile, Damaged},
         NEW new \in WriteRefused(store, pair) \cup WriteCut(store, pair, value)
  PROVE  /\ IsPair(new)
         /\ FilesOf(new) \subseteq FilesOf(pair) \cup {value}
         /\ Undamaged(pair) \/ store \in SetsAside => Repairable(store, new)
         /\ Undamaged(pair) => Undamaged(new)
<1>1. new \in WriteRefused(store, pair) \/ new = Written(store, pair, value)
  BY DEF WriteCut, Cut, WriteRefused, Refused, Written
<1>2. CASE new \in WriteRefused(store, pair)
  BY <1>2, RefusedPairs
<1>3. CASE new = Written(store, pair, value)
  BY <1>3, WrittenIsRead
<1>. QED
  BY <1>1, <1>2, <1>3

\* A write that is cut, or that ends a start.
LEMMA CutKeeps ==
  ASSUME StoreInv, NEW store \in Stores, NEW value, value \notin {NoFile, Damaged}, Fault,
         \E pair \in WriteRefused(store, Files(store)) \cup WriteCut(store, Files(store), value) :
           End(store, pair),
         scenario' = scenario,
         store \in Unguarded => scenario.does \cap {"settings", "directory"} # {},
         store = RoomStore => IsSnapshot(value)
  PROVE  StoreInv' /\ RoomsFrom(IF store = RoomStore THEN {value} ELSE {})
<1>1. PICK new \in WriteRefused(store, Files(store)) \cup WriteCut(store, Files(store), value) :
             End(store, new)
  OBVIOUS
<1>2. IsPair(Files(store)) /\ Repairable(store, Files(store))
  BY DEF StoreInv, StoresOK
<1>3. faults > 0 /\ faults \in Nat /\ faults' = faults - 1
  BY DEF Fault, StoreInv, FaultsOK
<1>4. Undamaged(Files(store)) \/ store \in SetsAside
  BY <1>2, <1>3 DEF StoreInv, FaultsOK, Repairable, Undamaged, SetsAside, Unguarded
<1>5. /\ IsPair(new) /\ Repairable(store, new)
      /\ FilesOf(new) \subseteq FilesOf(Files(store)) \cup {value}
      /\ Undamaged(Files(store)) => Undamaged(new)
  BY <1>2, <1>4, CutPairs
<1>. DEFINE V == IF store = RoomStore THEN {value} ELSE {}
<1>6. /\ store = RoomStore => FilesOf(new) \subseteq FilesOf(Files(store)) \cup V
      /\ \A f \in V : IsSnapshot(f)
  BY <1>5
<1>7. faults' \in Nat /\ faults' <= faults
  BY <1>3
<1>. HIDE DEF V
<1>8. StoreInv' /\ RoomsFrom(V)
  BY <1>1, <1>5, <1>6, <1>7, EndKeeps
<1>. QED
  BY <1>8 DEF V

\* Any command that stores a value.
LEMMA PersistKeeps ==
  ASSUME StoreInv, NEW store \in Stores, NEW value, value \notin {NoFile, Damaged},
         NEW result, Persist(store, value, result), scenario' = scenario,
         phase = "running" \/ (phase = "committed" /\ store = RoomStore),
         store \in Unguarded => scenario.does \cap {"settings", "directory"} # {},
         store = RoomStore => UpToDate(value)
  PROVE  StoreInv' /\ RoomsFrom(IF store = RoomStore THEN {value} ELSE {})
<1>1. CASE Save(store, value)
  BY <1>1, SaveKeeps
<1>2. CASE RefuseSave(store, Served(store))
  <2>1. StoreInv' /\ RoomsFrom({})
    BY <1>2, RefuseKeeps
  <2>. QED
    BY <2>1 DEF RoomsFrom
<1>3. CASE CutSave(store, value)
  BY <1>3, CutKeeps DEF CutSave, UpToDate
<1>. QED
  BY <1>1, <1>2, <1>3 DEF Persist

\* The process ends between two writes.
LEMMA CrashKeeps ==
  ASSUME StoreInv, Fault, End(RoomStore, Files(RoomStore)), scenario' = scenario
  PROVE  StoreInv' /\ RoomsFrom({})
<1>1. IsPair(Files(RoomStore)) /\ Repairable(RoomStore, Files(RoomStore)) /\ RoomStore \in Stores
  BY DEF StoreInv, StoresOK, Stores
<1>2. faults' \in Nat /\ faults' <= faults
  BY DEF Fault, StoreInv, FaultsOK
<1>. QED
  BY <1>1, <1>2, EndKeeps

\* Steps that leave the stores alone.
LEMMA StoresStay ==
  ASSUME StoreInv, UNCHANGED <<stores, phase>>, scenario' = scenario,
         faults' \in Nat, faults' <= faults
  PROVE  StoreInv' /\ RoomsFrom({})
<1>1. \A s : Served(s)' = Served(s) /\ Files(s)' = Files(s)
  BY DEF Served, Files
<1>2. StoresOK' /\ RoomFilesOK' /\ RoomsServed' /\ SettingsServed'
  BY <1>1 DEF StoreInv, StoresOK, RoomFilesOK, RoomsServed, SettingsServed, SettingServed,
     LostPrimary, RoomFile
<1>3. FaultsOK'
  BY <1>1, ScenarioFaults DEF StoreInv, FaultsOK
<1>4. RoomsFrom({})
  BY <1>1 DEF RoomsFrom, StoreInv, RoomsServed
<1>. QED
  BY <1>2, <1>3, <1>4 DEF StoreInv

-----------------------------------------------------------------------------
(* The start, and damaged files.                                            *)

\* A step of the start that loads a store after it has written it, if it must.
LEMMA LoadKeeps ==
  ASSUME StoreInv, NEW store \in {RoomStore, "profiles"}, NEW value, NEW written, NEW next,
         LoadAfterWrite(store, value, written, next), scenario' = scenario,
         written # NoFile => written # Damaged /\ (store = RoomStore => IsSnapshot(written))
  PROVE  \/ /\ phase' = "down"
            /\ StoreInv' /\ RoomsFrom(IF store = RoomStore THEN {written} ELSE {})
         \/ /\ phase' = next /\ StoresOK' /\ FaultsOK'
            /\ Served(store)' = value
            /\ \A s \in Stores \ {store} : Served(s)' = Served(s) /\ Files(s)' = Files(s)
            /\ IF written = NoFile THEN Files(store)' = Files(store)
               ELSE /\ ReadFile(store, Files(store)') = written
                    /\ FilesOf(Files(store))' \subseteq FilesOf(Files(store)) \cup {written}
<1>1. store \in Stores /\ store \notin Unguarded
  BY DEF Stores, Settings, Unguarded, RoomStore
<1>2. IsPair(Files(store)) /\ Repairable(store, Files(store))
  BY <1>1 DEF StoreInv, StoresOK
<1>3. \A s \in Unguarded : s \in Stores \ {store}
  BY <1>1 DEF Stores, Settings, Unguarded
<1>4. ASSUME NEW pair, Put(store, value, pair), phase' = next, faults' = faults,
             IsPair(pair), Repairable(store, pair)
      PROVE  /\ phase' = next /\ StoresOK' /\ FaultsOK'
             /\ Served(store)' = value /\ Files(store)' = pair
             /\ \A s \in Stores \ {store} : Served(s)' = Served(s) /\ Files(s)' = Files(s)
  <2>1. /\ DOMAIN stores' = Stores
        /\ Served(store)' = value /\ Files(store)' = pair
        /\ \A s \in Stores \ {store} : Served(s)' = Served(s) /\ Files(s)' = Files(s)
        /\ \A s \in Stores : stores'[s] = [memory |-> Served(s)', files |-> Files(s)']
    BY <1>1, <1>4, PutStores DEF StoreInv
  <2>2. StoresOK'
    BY <1>4, <2>1 DEF StoreInv, StoresOK
  <2>3. FaultsOK'
    BY <1>3, <1>4, <2>1 DEF StoreInv, FaultsOK
  <2>. QED
    BY <1>4, <2>1, <2>2, <2>3
<1>5. CASE written = NoFile
  BY <1>2, <1>4, <1>5 DEF LoadAfterWrite
<1>6. CASE /\ written # NoFile
           /\ Put(store, value, Written(store, Files(store), written))
           /\ phase' = next /\ faults' = faults
  <2>. DEFINE new == Written(store, Files(store), written)
  <2>1. /\ IsPair(new) /\ Repairable(store, new)
        /\ FilesOf(new) \subseteq FilesOf(Files(store)) \cup {written}
        /\ ReadFile(store, new) = written
    BY <1>1, <1>2, <1>6, WrittenIsRead
  <2>. HIDE DEF new
  <2>2. Put(store, value, new)
    BY <1>6 DEF new
  <2>3. /\ phase' = next /\ StoresOK' /\ FaultsOK'
        /\ Served(store)' = value /\ Files(store)' = new
        /\ \A s \in Stores \ {store} : Served(s)' = Served(s) /\ Files(s)' = Files(s)
    BY <1>4, <1>6, <2>1, <2>2
  <2>4. FilesOf(Files(store))' \subseteq FilesOf(Files(store)) \cup {written}
    BY <2>1, <2>3 DEF FilesOf
  <2>. QED
    BY <1>6, <2>1, <2>3, <2>4
<1>7. CASE /\ written # NoFile /\ Fault
           /\ \E pair \in WriteRefused(store, Files(store))
                            \cup WriteCut(store, Files(store), written) : End(store, pair)
  <2>1. phase' = "down"
    BY <1>7 DEF End
  <2>2. StoreInv' /\ RoomsFrom(IF store = RoomStore THEN {written} ELSE {})
    BY <1>1, <1>7, CutKeeps
  <2>. QED
    BY <2>1, <2>2
<1>. QED
  BY <1>5, <1>6, <1>7 DEF LoadAfterWrite

\* What a start reads of the Rooms is one of their files.
LEMMA RoomFileIsSnapshot ==
  ASSUME StoreInv
  PROVE  RoomFile = NoFile \/ (RoomFile \in FilesOf(Files(RoomStore)) /\ IsSnapshot(RoomFile))
<1>1. Repairable(RoomStore, Files(RoomStore)) /\ RoomStore \in Stores
  BY DEF StoreInv, StoresOK, Stores
<1>2. RoomFile = ReadRecovered(Files(RoomStore))
  BY DEF RoomFile, ReadFile, NoBackupForDamage, NeedsPrimary, RoomStore
<1>3. RoomFile # Damaged
  BY <1>1, <1>2 DEF ReadRecovered, Repairable, Unguarded, RoomStore
<1>. QED
  BY <1>2, <1>3 DEF ReadRecovered, FilesOf, StoreInv, RoomFilesOK

LEMMA PrepareKeeps ==
  ASSUME StoreInv, PrepareRooms, scenario' = scenario
  PROVE  /\ StoreInv' /\ RoomsFrom({StartRooms(Files(RoomStore))})
         /\ UpToDate(StartRooms(Files(RoomStore)))
<1>. DEFINE value == StartRooms(Files(RoomStore))
            written == IF Files(RoomStore).primary = Damaged THEN RoomFile ELSE NoFile
<1>1. RoomFile = NoFile \/ (RoomFile \in FilesOf(Files(RoomStore)) /\ IsSnapshot(RoomFile))
  BY RoomFileIsSnapshot
<1>2. UpToDate(value)
  BY <1>1, BundledUpToDate, PreparedIsUpToDate DEF PrepareRooms, StartRooms, RoomFile, Usable
<1>3. written # NoFile => written \in FilesOf(Files(RoomStore)) /\ IsSnapshot(written)
  BY <1>1
<1>4. LoadAfterWrite(RoomStore, value, written, "prepared") /\ phase = "down"
  BY DEF PrepareRooms
<1>. HIDE DEF value, written
<1>5. written # NoFile => written # Damaged
  BY <1>3 DEF FilesOf
<1>6. \/ /\ phase' = "down"
         /\ StoreInv' /\ RoomsFrom({written})
      \/ /\ phase' = "prepared" /\ StoresOK' /\ FaultsOK'
         /\ Served(RoomStore)' = value
         /\ IF written = NoFile THEN Files(RoomStore)' = Files(RoomStore)
            ELSE /\ ReadFile(RoomStore, Files(RoomStore)') = written
                 /\ FilesOf(Files(RoomStore))' \subseteq FilesOf(Files(RoomStore)) \cup {written}
  BY <1>3, <1>4, <1>5, LoadKeeps
<1>7. CASE phase' = "down" /\ StoreInv' /\ RoomsFrom({written})
  <2>1. NoFile \notin FilesOf(Files(RoomStore))'
    BY DEF FilesOf
  <2>2. RoomsFrom({value})
    BY <1>3, <1>7, <2>1 DEF RoomsFrom
  <2>. QED
    BY <1>2, <1>7, <2>2 DEF value
<1>8. CASE /\ phase' = "prepared" /\ StoresOK' /\ FaultsOK'
           /\ Served(RoomStore)' = value
           /\ IF written = NoFile THEN Files(RoomStore)' = Files(RoomStore)
              ELSE /\ ReadFile(RoomStore, Files(RoomStore)') = written
                   /\ FilesOf(Files(RoomStore))' \subseteq FilesOf(Files(RoomStore)) \cup {written}
  <2>1. FilesOf(Files(RoomStore))' \subseteq FilesOf(Files(RoomStore))
    BY <1>3, <1>8 DEF FilesOf
  <2>2. RoomsFrom({value})
    BY <1>8, <2>1 DEF RoomsFrom
  <2>3. RoomFilesOK'
    BY <2>1 DEF StoreInv, RoomFilesOK
  <2>4. RoomFile' = RoomFile
    BY <1>8 DEF RoomFile, written
  <2>5. StartRooms(Files(RoomStore))' = value
    BY <2>4 DEF StartRooms, RoomFile, value
  <2>6. RoomsServed' /\ SettingsServed'
    BY <1>2, <1>8, <2>5 DEF RoomsServed, SettingsServed, Phases
  <2>. QED
    BY <1>2, <1>8, <2>2, <2>3, <2>6 DEF StoreInv, value
<1>. QED
  BY <1>6, <1>7, <1>8

LEMMA MigrateKeeps ==
  ASSUME MarksAreNoValues, StoreInv, MigrateProfiles, scenario' = scenario
  PROVE  StoreInv' /\ RoomsFrom({})
<1>. DEFINE loaded == ReadValue("profiles", Files("profiles"))
            migrated == MigratedFor(RoomFile, loaded)
            written == IF migrated # loaded THEN migrated ELSE NoFile
<1>1. phase = "prepared" /\ LoadAfterWrite("profiles", migrated, written, "migrated")
  BY DEF MigrateProfiles
<1>2. migrated # loaded => IsFunction(migrated)
  BY DEF MigratedFor, Migrated, IsFunction
<1>3. migrated # loaded => migrated \notin {NoFile, Damaged}
  BY <1>2 DEF MarksAreNoValues
<1>4. written # NoFile => written = migrated /\ written # Damaged
  BY <1>3
<1>5. written = NoFile => migrated = loaded
  BY <1>3
<1>. HIDE DEF migrated, loaded, written
<1>6. \/ StoreInv' /\ RoomsFrom({})
      \/ /\ phase' = "migrated" /\ StoresOK' /\ FaultsOK'
         /\ Served("profiles")' = migrated
         /\ \A s \in Stores \ {"profiles"} : Served(s)' = Served(s) /\ Files(s)' = Files(s)
         /\ IF written = NoFile THEN Files("profiles")' = Files("profiles")
            ELSE ReadFile("profiles", Files("profiles")') = written
  BY <1>1, <1>4, LoadKeeps DEF RoomStore
<1>7. CASE /\ phase' = "migrated" /\ StoresOK' /\ FaultsOK'
           /\ Served("profiles")' = migrated
           /\ \A s \in Stores \ {"profiles"} : Served(s)' = Served(s) /\ Files(s)' = Files(s)
           /\ IF written = NoFile THEN Files("profiles")' = Files("profiles")
              ELSE ReadFile("profiles", Files("profiles")') = written
  <2>1. Served(RoomStore)' = Served(RoomStore) /\ Files(RoomStore)' = Files(RoomStore)
    BY <1>7 DEF Stores, RoomStore
  <2>2. RoomsFrom({}) /\ RoomFilesOK'
    BY <1>1, <2>1 DEF RoomsFrom, FilesOf, StoreInv, RoomFilesOK
  <2>3. RoomsServed'
    BY <1>1, <1>7, <2>1 DEF StoreInv, RoomsServed, Phases
  <2>4. ReadValue("profiles", Files("profiles")') = migrated
    <3>1. CASE written = NoFile
      BY <1>5, <1>7, <3>1 DEF loaded
    <3>2. CASE written # NoFile
      BY <1>4, <1>7, <3>2 DEF ReadValue
    <3>. QED
      BY <3>1, <3>2
  <2>5. SettingsServed'
    BY <1>7, <2>4 DEF SettingsServed, SettingServed
  <2>. QED
    BY <1>7, <2>2, <2>3, <2>5 DEF StoreInv
<1>. QED
  BY <1>6, <1>7

LEMMA CommitKeeps ==
  ASSUME MarksAreNoValues, StoreInv, CommitRooms, scenario' = scenario
  PROVE  StoreInv' /\ RoomsFrom({Served(RoomStore)})
<1>. DEFINE value == Served(RoomStore)
            written == IF RoomFile \in {NoFile, value} THEN NoFile ELSE value
<1>1. phase = "migrated" /\ LoadAfterWrite(RoomStore, value, written, "committed")
  BY DEF CommitRooms
<1>2. UpToDate(value) /\ IsSnapshot(value) /\ value \notin {NoFile, Damaged}
  BY <1>1 DEF StoreInv, RoomsServed, UpToDate, MarksAreNoValues
<1>3. RoomFile = NoFile => value = Bundled
  BY <1>1 DEF StoreInv, RoomsServed, StartRooms, RoomFile
<1>. HIDE DEF value
<1>4. /\ written \in {NoFile, value}
      /\ written = NoFile => RoomFile = value \/ (RoomFile = NoFile /\ value = Bundled)
  BY <1>2, <1>3
<1>. HIDE DEF written
<1>5. \/ /\ phase' = "down" /\ StoreInv' /\ RoomsFrom({written})
      \/ /\ phase' = "committed" /\ StoresOK' /\ FaultsOK'
         /\ Served(RoomStore)' = value
         /\ \A s \in Stores \ {RoomStore} : Served(s)' = Served(s) /\ Files(s)' = Files(s)
         /\ IF written = NoFile THEN Files(RoomStore)' = Files(RoomStore)
            ELSE /\ ReadFile(RoomStore, Files(RoomStore)') = written
                 /\ FilesOf(Files(RoomStore))' \subseteq FilesOf(Files(RoomStore)) \cup {written}
  BY <1>1, <1>2, <1>4, LoadKeeps
<1>6. CASE phase' = "down" /\ StoreInv' /\ RoomsFrom({written})
  <2>1. NoFile \notin FilesOf(Files(RoomStore))'
    BY DEF FilesOf
  <2>2. RoomsFrom({value})
    BY <1>4, <1>6, <2>1 DEF RoomsFrom
  <2>. QED
    BY <1>6, <2>2 DEF value
<1>7. CASE /\ phase' = "committed" /\ StoresOK' /\ FaultsOK'
           /\ Served(RoomStore)' = value
           /\ \A s \in Stores \ {RoomStore} : Served(s)' = Served(s) /\ Files(s)' = Files(s)
           /\ IF written = NoFile THEN Files(RoomStore)' = Files(RoomStore)
              ELSE /\ ReadFile(RoomStore, Files(RoomStore)') = written
                   /\ FilesOf(Files(RoomStore))' \subseteq FilesOf(Files(RoomStore)) \cup {written}
  <2>1. FilesOf(Files(RoomStore))' \subseteq FilesOf(Files(RoomStore)) \cup {value}
    BY <1>4, <1>7 DEF FilesOf
  <2>2. RoomsFrom({value})
    BY <1>7, <2>1 DEF RoomsFrom
  <2>3. RoomFilesOK'
    BY <1>2, <2>1 DEF StoreInv, RoomFilesOK
  <2>4. RoomFile' = value \/ (RoomFile' = NoFile /\ value = Bundled)
    BY <1>4, <1>7 DEF RoomFile
  <2>5. RoomsServed'
    BY <1>2, <1>7, <2>4 DEF RoomsServed, Phases
  <2>6. SettingServed("profiles")'
    <3>1. SettingServed("profiles")
      BY <1>1 DEF StoreInv, SettingsServed
    <3>2. Served("profiles")' = Served("profiles") /\ Files("profiles")' = Files("profiles")
      BY <1>7 DEF Stores, Settings, RoomStore
    <3>. QED
      BY <3>1, <3>2 DEF SettingServed, LostPrimary
  <2>7. SettingsServed'
    BY <1>7, <2>6 DEF SettingsServed
  <2>. QED
    BY <1>7, <2>2, <2>3, <2>5, <2>7 DEF StoreInv, value
<1>. QED
  BY <1>5, <1>6, <1>7

LEMMA LoadSettingsKeeps ==
  ASSUME StoreInv, LoadSettings, scenario' = scenario
  PROVE  StoreInv' /\ RoomsFrom({})
<1>1. \A s \in Stores : Files(s)' = Files(s)
  BY DEF LoadSettings, Files, StoreInv, StoresOK
<1>2. /\ DOMAIN stores' = Stores
      /\ Served(RoomStore)' = Served(RoomStore) /\ Served("profiles")' = Served("profiles")
      /\ \A s \in Settings \ {"profiles"} : Served(s)' = ReadValue(s, Files(s))
      /\ \A s \in Stores : stores'[s] = [memory |-> Served(s)', files |-> Files(s)']
  BY DEF LoadSettings, Files, Served, StoreInv, StoresOK, Stores, Settings, RoomStore
<1>3. phase = "committed" /\ phase' = "running" /\ faults' = faults
  BY DEF LoadSettings
<1>4. StoresOK'
  BY <1>1, <1>2 DEF StoreInv, StoresOK
<1>5. FaultsOK'
  <2>1. \A s \in Unguarded : s \in Stores
    BY DEF Unguarded, Stores, Settings
  <2>. QED
    BY <1>1, <1>3, <2>1 DEF StoreInv, FaultsOK
<1>6. RoomFilesOK' /\ RoomsFrom({}) /\ RoomsServed'
  BY <1>1, <1>2, <1>3 DEF StoreInv, RoomFilesOK, RoomsFrom, FilesOf, RoomsServed, RoomFile, Stores,
     Phases
<1>7. SettingsServed'
  <2>1. ASSUME NEW s \in Settings \ {"profiles"}
        PROVE  SettingServed(s)'
    BY <1>1, <1>2 DEF SettingServed, Stores
  <2>2. SettingServed("profiles")'
    BY <1>1, <1>2, <1>3 DEF StoreInv, SettingsServed, SettingServed, LostPrimary, Stores, Settings
  <2>. QED
    BY <1>3, <2>1, <2>2 DEF SettingsServed
<1>. QED
  BY <1>4, <1>5, <1>6, <1>7 DEF StoreInv

\* A damaged primary changes nothing else.
LEMMA DamagedStores ==
  ASSUME StoresOK, NEW store \in Stores, Damage(store)
  PROVE  /\ DOMAIN stores' = Stores
         /\ Files(store)' = [primary |-> Damaged, backup |-> Files(store).backup]
         /\ \A s \in Stores \ {store} : Files(s)' = Files(s)
         /\ \A s \in Stores : Served(s)' = Served(s)
         /\ \A s \in Stores : stores'[s] = [memory |-> Served(s)', files |-> Files(s)']
<1>. DEFINE old == stores[store]
            pair == old.files
            damaged == [primary |-> Damaged, backup |-> pair.backup]
<1>1. /\ old = [memory |-> old.memory, files |-> pair]
      /\ pair = [primary |-> pair.primary, backup |-> pair.backup]
  BY DEF StoresOK, IsPair, Served, Files
<1>2. stores' = [stores EXCEPT ![store] = [old EXCEPT !.files = [pair EXCEPT !.primary = Damaged]]]
  BY DEF Damage
<1>. HIDE DEF old
<1>3. [pair EXCEPT !.primary = Damaged] = damaged
  BY <1>1
<1>4. [old EXCEPT !.files = damaged] = [memory |-> old.memory, files |-> damaged]
  BY <1>1
<1>5. stores' = [stores EXCEPT ![store] = [memory |-> old.memory, files |-> damaged]]
  BY <1>2, <1>3, <1>4
<1>6. /\ DOMAIN stores' = Stores
      /\ stores'[store] = [memory |-> old.memory, files |-> damaged]
      /\ \A s \in Stores \ {store} : stores'[s] = stores[s]
  BY <1>5 DEF StoresOK
<1>. QED
  BY <1>6 DEF StoresOK, Served, Files, old

\* A primary is damaged while its backup is intact.
LEMMA DamageKeeps ==
  ASSUME DamageIsAlone, StoreInv, NEW store \in Stores, Damage(store), "damage" \in scenario.does,
         scenario' = scenario
  PROVE  StoreInv' /\ RoomsFrom({})
<1>1. /\ DOMAIN stores' = Stores
      /\ Files(store)' = [primary |-> Damaged, backup |-> Files(store).backup]
      /\ \A s \in Stores \ {store} : Files(s)' = Files(s)
      /\ \A s \in Stores : stores'[s] = [memory |-> Served(s)', files |-> Files(s)']
  BY DamagedStores DEF StoreInv
<1>2. /\ phase = "down" /\ phase' = "down"
      /\ faults > 0 /\ faults \in Nat /\ faults' = faults - 1
      /\ store \in SetsAside \cup Unguarded
      /\ Files(store).backup \notin {NoFile, Damaged}
  BY DEF Damage, Fault, StoreInv, FaultsOK, SetsAside, Unguarded, Stores, Settings
<1>3. StoresOK'
  BY <1>1, <1>2 DEF StoreInv, StoresOK, IsPair, Repairable
<1>4. RoomsFrom({})
  BY <1>1, <1>2 DEF RoomsFrom, FilesOf, Stores
<1>5. RoomFilesOK'
  BY <1>4 DEF RoomsFrom, StoreInv, RoomFilesOK
<1>6. FaultsOK'
  <2>1. scenario.does \cap {"settings", "directory"} # {} => faults' = 0
    BY <1>2, ScenarioFaults DEF DamageIsAlone, StoreInv, FaultsOK
  <2>2. faults' \in Nat /\ faults' <= scenario'.faults
    BY <1>2, ScenarioFaults DEF StoreInv, FaultsOK
  <2>. QED
    BY <2>1, <2>2 DEF StoreInv, FaultsOK
<1>7. RoomsServed' /\ SettingsServed'
  BY <1>2 DEF RoomsServed, SettingsServed, Phases
<1>. QED
  BY <1>3, <1>4, <1>5, <1>6, <1>7 DEF StoreInv

-----------------------------------------------------------------------------
(* The steps of the desktop.                                                *)

\* Every step but an export leaves the backups alone.
LEMMA StepKeeps ==
  ASSUME DesktopInv, StoreInv', NEW V, RoomsFrom(V), TurnOK',
         UNCHANGED backups, image = "whole" => image' = "whole",
         NoImages => \/ image' = "whole"
                     \/ /\ \A f \in V : ImageLess(f)
                        /\ turn'.step # "idle" => turn'.images = {}
  PROVE  DesktopInv'
<1>1. BackupsOK'
  BY DEF DesktopInv, BackupsOK
<1>2. ImagesOK'
  <2>1. CASE image' = "whole"
    BY <2>1 DEF ImagesOK
  <2>2. CASE /\ NoImages
             /\ \A f \in V : ImageLess(f)
             /\ turn'.step # "idle" => turn'.images = {}
    <3>1. /\ \A f \in FilesOf(Files(RoomStore))' : ImageLess(f)
          /\ phase' # "down" => ImageLess(Served(RoomStore)')
      BY <2>2 DEF NoImages, RoomsFrom
    <3>2. NoImages'
      BY <2>2, <3>1 DEF NoImages
    <3>. QED
      BY <3>2 DEF ImagesOK
  <2>. QED
    BY <2>1, <2>2 DEF DesktopInv, ImagesOK
<1>. QED
  BY <1>1, <1>2 DEF DesktopInv

\* The most common case of StepKeeps.
LEMMA CommandKeeps ==
  ASSUME DesktopInv, StoreInv', NEW V, RoomsFrom(V), UNCHANGED <<turn, image, backups>>,
         NoImages => \A f \in V : ImageLess(f)
  PROVE  DesktopInv'
<1>1. TurnOK'
  BY DEF DesktopInv, TurnOK
<1>2. NoImages => (turn'.step # "idle" => turn'.images = {})
  BY DEF NoImages
<1>. QED
  BY <1>1, <1>2, StepKeeps

\* What the commands see of the Rooms is the snapshot that is served.
LEMMA RoomsAreServed ==
  ASSUME MarksAreNoValues, DesktopInv, phase \in {"committed", "running"}
  PROVE  Rooms = Served(RoomStore) /\ UpToDate(Rooms) /\ (NoImages => ImageLess(Rooms))
<1>1. UpToDate(Served(RoomStore))
  BY DEF DesktopInv, StoreInv, RoomsServed
<1>2. Served(RoomStore) # Unloaded
  BY <1>1 DEF UpToDate, MarksAreNoValues, Unloaded
<1>3. Rooms = Served(RoomStore)
  BY <1>2 DEF Rooms
<1>. QED
  BY <1>1, <1>3 DEF NoImages

LEMMA ChangeKeeps ==
  ASSUME MarksAreNoValues, StoreInv, phase \in {"committed", "running"}, scenario' = scenario,
         NEW answer, NEW result, Change(answer, result), UpToDate(answer.snapshot)
  PROVE  StoreInv' /\ RoomsFrom({answer.snapshot})
<1>1. CASE answer.status = "refused"
  <2>1. UNCHANGED <<stores, phase>> /\ faults' \in Nat /\ faults' <= faults
    BY <1>1 DEF Change, storeVars, StoreInv, FaultsOK
  <2>2. StoreInv' /\ RoomsFrom({})
    BY <2>1, StoresStay
  <2>. QED
    BY <2>2 DEF RoomsFrom
<1>2. CASE answer.status # "refused"
  <2>1. Persist(RoomStore, answer.snapshot, result)
    BY <1>2 DEF Change
  <2>2. answer.snapshot \notin {NoFile, Damaged}
    BY DEF UpToDate, MarksAreNoValues
  <2>3. RoomStore \in Stores /\ RoomStore \notin Unguarded
    BY DEF Stores, Unguarded, RoomStore
  <2>. QED
    BY <2>1, <2>2, <2>3, PersistKeeps
<1>. QED
  BY <1>1, <1>2

\* A command changes the Rooms and no turn, image or backup.
LEMMA RoomsChangeKeeps ==
  ASSUME MarksAreNoValues, DesktopInv, phase \in {"committed", "running"}, scenario' = scenario,
         NEW answer, NEW result, Change(answer, result), UNCHANGED <<turn, image, backups>>,
         Kept(Rooms, answer.snapshot)
  PROVE  DesktopInv'
<1>1. Rooms = Served(RoomStore) /\ UpToDate(Rooms) /\ (NoImages => ImageLess(Rooms))
  BY RoomsAreServed
<1>2. StoreInv' /\ RoomsFrom({answer.snapshot})
  BY ChangeKeeps DEF Kept, DesktopInv
<1>3. NoImages => \A f \in {answer.snapshot} : ImageLess(f)
  BY <1>1 DEF Kept
<1>. QED
  BY <1>2, <1>3, CommandKeeps

\* A message is posted without an image.
LEMMA PostKeeps ==
  ASSUME MarksAreNoValues, DesktopInv, phase \in {"committed", "running"}, scenario' = scenario,
         NEW m, "images" \in DOMAIN m, m.images = {}, NEW result,
         Change(AppendMessage(Rooms, m), result), UNCHANGED <<turn, image, backups>>
  PROVE  DesktopInv'
<1>1. UpToDate(Rooms)
  BY RoomsAreServed
<1>2. Kept(Rooms, AppendMessage(Rooms, m).snapshot)
  BY <1>1, AppendKeeps DEF Kept
<1>. QED
  BY <1>2, RoomsChangeKeeps

\* A value of a settings store.
IsSetting(value) == IsFunction(value) \/ value \in {"default", "custom"}

LEMMA WithIsSetting ==
  \A store, r, value : IsSetting(With(store, r, value)) /\ IsSetting(Without(store, r))
BY OverIsFunction DEF With, Without, IsSetting, IsFunction

LEMMA SettingKeeps ==
  ASSUME MarksAreNoValues, StoreInv, phase = "running", scenario' = scenario,
         NEW store \in Settings, NEW value, IsSetting(value), NEW result,
         Persist(store, value, result),
         store \in Unguarded => scenario.does \cap {"settings", "directory"} # {}
  PROVE  StoreInv' /\ RoomsFrom({})
<1>1. value \notin {NoFile, Damaged}
  BY DEF IsSetting, MarksAreNoValues
<1>2. store \in Stores /\ store # RoomStore
  BY DEF Stores, Settings, RoomStore
<1>. QED
  BY <1>1, <1>2, PersistKeeps

\* A command stores a setting, or has nothing to store.
LEMMA StoreKeeps ==
  ASSUME MarksAreNoValues, DesktopInv, phase = "running", scenario' = scenario,
         NEW store \in Settings, NEW value, IsSetting(value),
         Store(store, value) \/ Skip,
         store \in Unguarded => scenario.does \cap {"settings", "directory"} # {}
  PROVE  DesktopInv'
<1>1. UNCHANGED <<turn, image, backups>>
  BY DEF Store, Skip, view, outside
<1>2. StoreInv' /\ RoomsFrom({})
  <2>1. CASE Store(store, value)
    BY <2>1, SettingKeeps DEF Store, DesktopInv
  <2>2. CASE Skip
    <3>1. UNCHANGED <<stores, phase>> /\ faults' \in Nat /\ faults' <= faults
      BY <2>2 DEF Skip, storeVars, DesktopInv, StoreInv, FaultsOK
    <3>. QED
      BY <3>1, StoresStay DEF DesktopInv
  <2>. QED
    BY <2>1, <2>2
<1>. QED
  BY <1>1, <1>2, CommandKeeps

\* What may happen to the stores in a step that is not about them.
LEMMA FaultKeeps ==
  ASSUME StoreInv, scenario' = scenario,
         \/ UNCHANGED storeVars
         \/ Fault /\ UNCHANGED <<stores, phase>>
         \/ Fault /\ End(RoomStore, Files(RoomStore))
  PROVE  StoreInv' /\ RoomsFrom({})
<1>1. UNCHANGED storeVars \/ Fault => faults' \in Nat /\ faults' <= faults
  BY DEF storeVars, Fault, StoreInv, FaultsOK
<1>. QED
  BY <1>1, StoresStay, CrashKeeps DEF storeVars

-----------------------------------------------------------------------------
(* Commands on the Rooms and their backups.                                 *)

LEMMA MessagesAndRooms ==
  ASSUME MarksAreNoValues, DesktopInv,
         \/ WriteMessage \/ McpPost \/ Create \/ Rename \/ Join \/ Leave \/ Delete
  PROVE  DesktopInv'
<1>. USE DEF view, outside
<1>1. CASE WriteMessage
  <2>1. PICK r \in RoomIds(Rooms), p \in {Codex, Gemini}, result \in Results :
          /\ Does("write")
          /\ Change(AppendMessage(Rooms, Message(<<"owner", posts + 1>>, r, OwnerOf(Rooms), {p},
                                                 "text", FALSE, {})), result)
          /\ UNCHANGED <<scenario, commands, view, outside>>
    BY <1>1 DEF WriteMessage
  <2>2. phase \in {"committed", "running"} /\ scenario' = scenario /\ UNCHANGED <<turn, image, backups>>
    BY <2>1 DEF Does
  <2>3. ASSUME NEW m, m = Message(<<"owner", posts + 1>>, r, OwnerOf(Rooms), {p}, "text", FALSE, {})
        PROVE  "images" \in DOMAIN m /\ m.images = {}
    BY <2>3 DEF Message
  <2>. QED
    BY <2>1, <2>2, <2>3, PostKeeps
<1>2. CASE McpPost
  <2>1. PICK q \in Requests, r \in RoomIds(Rooms), p \in {Codex, Gemini}, result \in Results :
          /\ phase \in {"committed", "running"}
          /\ Change(AppendMessage(Rooms, Message(<<"mcp", q>>, r, CHOOSE o \in RoomOwners(r) : TRUE,
                                                 {p}, "text", TRUE, {})), result)
          /\ UNCHANGED <<scenario, commands, posts, view, outside>>
    BY <1>2 DEF McpPost
  <2>2. scenario' = scenario /\ UNCHANGED <<turn, image, backups>>
    BY <2>1
  <2>3. ASSUME NEW m, m = Message(<<"mcp", q>>, r, CHOOSE o \in RoomOwners(r) : TRUE, {p},
                                  "text", TRUE, {})
        PROVE  "images" \in DOMAIN m /\ m.images = {}
    BY <2>3 DEF Message
  <2>. QED
    BY <2>1, <2>2, <2>3, PostKeeps
<1>3. ASSUME NEW answer, RoomCommand(answer), Kept(Rooms, answer.snapshot)
      PROVE  DesktopInv'
  <2>1. PICK result \in Results : Change(answer, result)
    BY <1>3 DEF RoomCommand
  <2>2. phase \in {"committed", "running"} /\ scenario' = scenario /\ UNCHANGED <<turn, image, backups>>
    BY <1>3 DEF RoomCommand, Command, Does
  <2>. QED
    BY <1>3, <2>1, <2>2, RoomsChangeKeeps
<1>4. ASSUME Create \/ Rename \/ Join \/ Leave \/ Delete
      PROVE  UpToDate(Rooms)
  <2>1. phase = "running"
    BY <1>4 DEF Create, Rename, Join, Leave, Delete, RoomCommand, Command, Does
  <2>. QED
    BY <2>1, RoomsAreServed
<1>5. CASE Create
  BY <1>3, <1>4, <1>5, CreateKeeps DEF Create
<1>6. CASE Rename
  BY <1>3, <1>4, <1>6, RenameKeeps DEF Rename
<1>7. CASE Join
  BY <1>3, <1>4, <1>7, MembersKeep DEF Join
<1>8. CASE Leave
  BY <1>3, <1>4, <1>8, MembersKeep DEF Leave
<1>9. CASE Delete
  BY <1>3, <1>4, <1>9, DeleteKeeps DEF Delete
<1>. QED
  BY <1>1, <1>2, <1>5, <1>6, <1>7, <1>8, <1>9

LEMMA ExportKeeps ==
  ASSUME MarksAreNoValues, DesktopInv, ExportRooms
  PROVE  DesktopInv'
<1>. DEFINE backup == [directory |-> Served("backup_directory"), image |-> Rooms]
            S == ToSet(backups) \cup {backup}
<1>1. /\ phase = "running" /\ backups' = Append(backups, backup)
      /\ scenario' = scenario /\ UNCHANGED <<turn, image>>
  BY DEF ExportRooms, Does, view
<1>2. UpToDate(Rooms) /\ (NoImages => ImageLess(Rooms))
  BY <1>1, RoomsAreServed
<1>3. StoreInv' /\ RoomsFrom({})
  BY <1>1, FaultKeeps DEF DesktopInv, ExportRooms
<1>4. backups \in Seq(S) /\ backup \in S
  BY SeqMonotonic DEF DesktopInv, BackupsOK
<1>. HIDE DEF S, backup
<1>5. /\ backups' \in Seq(S)
      /\ Len(backups') = Len(backups) + 1 /\ Len(backups) \in Nat
      /\ \A i \in 1..Len(backups) : backups'[i] = backups[i]
      /\ backups'[Len(backups) + 1] = backup
      /\ DOMAIN backups' = 1..Len(backups') /\ DOMAIN backups = 1..Len(backups)
  BY <1>1, <1>4
<1>6. ASSUME NEW i \in DOMAIN backups'
      PROVE  backups'[i] = backup \/ (i \in DOMAIN backups /\ backups'[i] = backups[i])
  BY <1>5
<1>7. BackupsOK'
  <2>1. \A i \in DOMAIN backups' : backups'[i] \in ToSet(backups')
    BY DEF ToSet
  <2>2. backups' \in Seq(ToSet(backups'))
    BY <1>5, <2>1, SeqDef
  <2>3. \A i \in DOMAIN backups' : UpToDate(backups'[i].image)
    BY <1>2, <1>6 DEF DesktopInv, BackupsOK, backup
  <2>. QED
    BY <2>2, <2>3 DEF BackupsOK
<1>8. TurnOK'
  BY <1>1 DEF DesktopInv, TurnOK
<1>9. ImagesOK'
  <2>1. CASE image = "whole"
    BY <1>1, <2>1 DEF ImagesOK
  <2>2. CASE NoImages
    <3>1. /\ \A f \in FilesOf(Files(RoomStore))' : ImageLess(f)
          /\ phase' # "down" => ImageLess(Served(RoomStore)')
      BY <1>3, <2>2 DEF NoImages, RoomsFrom
    <3>2. \A i \in DOMAIN backups' : ImageLess(backups'[i].image)
      BY <1>2, <1>6, <2>2 DEF NoImages, backup
    <3>3. NoImages'
      BY <1>1, <2>2, <3>1, <3>2 DEF NoImages
    <3>. QED
      BY <3>3 DEF ImagesOK
  <2>. QED
    BY <2>1, <2>2 DEF DesktopInv, ImagesOK
<1>. QED
  BY <1>3, <1>7, <1>8, <1>9 DEF DesktopInv

LEMMA RestoreKeeps ==
  ASSUME MarksAreNoValues, DesktopInv, RestoreBackup
  PROVE  DesktopInv'
<1>. DEFINE old == backups[preview].image
<1>1. /\ phase = "running" /\ scenario' = scenario
      /\ UNCHANGED <<turn, image, backups>>
  BY DEF RestoreBackup, Does, outside
<1>2. preview \in DOMAIN backups
  BY DEF RestoreBackup, LatestBackup
<1>3. UpToDate(old)
  BY <1>2 DEF DesktopInv, BackupsOK
<1>4. old \notin {NoFile, Damaged}
  BY <1>3 DEF UpToDate, MarksAreNoValues
<1>5. NoImages => ImageLess(old)
  BY <1>2 DEF NoImages
<1>6. PICK result \in Results : Persist(RoomStore, old, result)
  BY <1>3, UpToDateIsPrepared DEF RestoreBackup
<1>7. RoomStore \in Stores /\ RoomStore \notin Unguarded
  BY DEF Stores, Unguarded, RoomStore
<1>8. StoreInv' /\ RoomsFrom({old})
  BY <1>1, <1>3, <1>4, <1>6, <1>7, PersistKeeps DEF DesktopInv
<1>. QED
  BY <1>1, <1>5, <1>8, CommandKeeps

-----------------------------------------------------------------------------
(* Settings.                                                                *)

LEMMA SettingsKeep ==
  ASSUME MarksAreNoValues, DesktopInv,
         \/ ConductorStatus \/ ChooseConductor \/ SetMode \/ DismissConductor
         \/ SaveAppearance \/ ChooseBackupDirectory \/ SaveProfile
         \/ ClearFolder \/ ResetContinuity
  PROVE  DesktopInv'
<1>1. phase = "running" /\ scenario' = scenario
  BY DEF ConductorStatus, ChooseConductor, SetMode, DismissConductor, SaveAppearance,
     ChooseBackupDirectory, SaveProfile, ClearFolder, ResetContinuity, Command, Does
<1>2. {"conductors", "appearance", "backup_directory", "profiles", "workspaces", "continuity"}
        \subseteq Settings
  BY DEF Settings
<1>3. {"conductors", "profiles", "workspaces", "continuity"} \cap Unguarded = {}
  BY DEF Unguarded
<1>4. ASSUME NEW store \in {"conductors", "profiles", "workspaces", "continuity"},
             NEW r, NEW value,
             \/ Store(store, With(store, r, value)) \/ Store(store, Without(store, r)) \/ Skip
      PROVE  DesktopInv'
  BY <1>1, <1>2, <1>3, <1>4, StoreKeeps, WithIsSetting
<1>5. ASSUME NEW r, ClearConductor(r)
      PROVE  DesktopInv'
  BY <1>4, <1>5 DEF ClearConductor
<1>6. CASE ConductorStatus \/ DismissConductor
  BY <1>5, <1>6 DEF ConductorStatus, DismissConductor
<1>7. CASE ChooseConductor
  BY <1>4, <1>7 DEF ChooseConductor
<1>8. CASE SetMode
  BY <1>4, <1>5, <1>8 DEF SetMode
<1>9. CASE SaveAppearance
  <2>1. PICK v \in {"default", "custom"} : Command("settings") /\ Store("appearance", v)
    BY <1>9 DEF SaveAppearance
  <2>2. IsSetting(v) /\ scenario.does \cap {"settings", "directory"} # {}
    BY <2>1 DEF IsSetting, Command, Does
  <2>. QED
    BY <1>1, <1>2, <2>1, <2>2, StoreKeeps
<1>10. CASE ChooseBackupDirectory
  <2>1. PICK v \in {"default", "custom"} : Command("directory") /\ Store("backup_directory", v)
    BY <1>10 DEF ChooseBackupDirectory
  <2>2. IsSetting(v) /\ scenario.does \cap {"settings", "directory"} # {}
    BY <2>1 DEF IsSetting, Command, Does
  <2>. QED
    BY <1>1, <1>2, <2>1, <2>2, StoreKeeps
<1>11. CASE SaveProfile
  BY <1>4, <1>11 DEF SaveProfile
<1>12. CASE ClearFolder
  BY <1>4, <1>12 DEF ClearFolder
<1>13. CASE ResetContinuity
  BY <1>4, <1>13 DEF ResetContinuity
<1>. QED
  BY <1>6, <1>7, <1>8, <1>9, <1>10, <1>11, <1>12, <1>13

-----------------------------------------------------------------------------
(* Folder dialogs, the bridge, and what leaves the stores alone.            *)

LEMMA QuietSteps ==
  ASSUME DesktopInv, PreviewBackup \/ OpenDialog \/ AskGemini
  PROVE  DesktopInv'
<1>1. UNCHANGED storeVars /\ scenario' = scenario /\ UNCHANGED <<turn, image, backups>>
  BY DEF PreviewBackup, OpenDialog, AskGemini, Command, outside
<1>2. StoreInv' /\ RoomsFrom({})
  BY <1>1, FaultKeeps DEF DesktopInv
<1>. QED
  BY <1>1, <1>2, CommandKeeps

LEMMA FolderSteps ==
  ASSUME MarksAreNoValues, DesktopInv, CloseDialog \/ OwnerEdits \/ SaveImage
  PROVE  DesktopInv'
<1>1. scenario' = scenario /\ UNCHANGED <<turn, image, backups>> /\ phase = "running"
  BY DEF CloseDialog, OwnerEdits, SaveImage, Command, Does, outside, view
<1>2. StoreInv' /\ RoomsFrom({})
  <2>1. CASE CloseDialog
    <3>1. CASE UNCHANGED storeVars
      BY <1>1, <3>1, FaultKeeps DEF DesktopInv
    <3>2. ASSUME NEW f \in Folders, NEW result \in Results,
                 Persist("workspaces", With("workspaces", dialog, f), result)
          PROVE  StoreInv' /\ RoomsFrom({})
      <4>1. "workspaces" \in Settings /\ "workspaces" \notin Unguarded
        BY DEF Settings, Unguarded
      <4>. QED
        BY <1>1, <3>2, <4>1, SettingKeeps, WithIsSetting DEF DesktopInv
    <3>. QED
      BY <2>1, <3>1, <3>2 DEF CloseDialog
  <2>2. CASE OwnerEdits
    BY <1>1, <2>2, FaultKeeps DEF DesktopInv, OwnerEdits
  <2>3. CASE SaveImage
    BY <1>1, <2>3, FaultKeeps DEF DesktopInv, SaveImage, WriteNewFile
  <2>. QED
    BY <2>1, <2>2, <2>3
<1>. QED
  BY <1>1, <1>2, CommandKeeps

LEMMA BridgeReplyKeeps ==
  ASSUME MarksAreNoValues, DesktopInv, BridgeReply
  PROVE  DesktopInv'
<1>. DEFINE q == NextQuestion(outbox)
            reply(human) == SearchReply(q, Gemini, human, "text")
<1>1. PICK result, human :
         /\ Does("bridge")
         /\ Change(AppendMessage(Rooms, reply(human)), result)
         /\ UNCHANGED <<scenario, commands, posts, turn, dialog, preview, outside>>
  BY DEF BridgeReply
<1>2. phase \in {"committed", "running"} /\ scenario' = scenario /\ UNCHANGED <<turn, image, backups>>
  BY <1>1 DEF Does, outside
<1>3. "images" \in DOMAIN reply(human) /\ reply(human).images = {}
  BY DEF SearchReply
<1>. HIDE DEF reply
<1>. QED
  BY <1>1, <1>2, <1>3, PostKeeps

-----------------------------------------------------------------------------
(* A Codex turn.                                                            *)

\* A step of a turn that touches no store: the turn keeps its images.
LEMMA TurnKeeps ==
  ASSUME DesktopInv, scenario' = scenario,
         \/ UNCHANGED storeVars
         \/ Fault /\ UNCHANGED <<stores, phase>>
         \/ Fault /\ End(RoomStore, Files(RoomStore)),
         UNCHANGED <<image, backups>>,
         \/ turn'.step = "idle"
         \/ /\ turn.step # "idle" /\ DOMAIN turn' = DOMAIN turn /\ turn'.images = turn.images
  PROVE  DesktopInv'
<1>1. StoreInv' /\ RoomsFrom({})
  BY FaultKeeps DEF DesktopInv
<1>2. TurnOK'
  BY DEF TurnOK, DesktopInv
<1>3. NoImages => (turn'.step # "idle" => turn'.images = {})
  BY DEF NoImages
<1>. QED
  BY <1>1, <1>2, <1>3, StepKeeps

LEMMA AskKeeps ==
  ASSUME DesktopInv, AskCodex
  PROVE  DesktopInv'
<1>1. UNCHANGED storeVars /\ scenario' = scenario /\ UNCHANGED <<image, backups>>
  BY DEF AskCodex, Command
<1>2. {"images", "step"} \subseteq DOMAIN turn' /\ turn'.images = {}
  BY DEF AskCodex
<1>3. StoreInv' /\ RoomsFrom({})
  BY <1>1, FaultKeeps DEF DesktopInv
<1>4. TurnOK'
  BY <1>2 DEF TurnOK
<1>. QED
  BY <1>1, <1>2, <1>3, <1>4, StepKeeps

LEMMA ToolSteps ==
  ASSUME DesktopInv, CodexReads \/ CodexCreates \/ CodexReplaces \/ FinishReplacing
  PROVE  DesktopInv'
<1>. DEFINE Quiet == /\ scenario' = scenario /\ UNCHANGED <<image, backups>> /\ turn.step # "idle"
                     /\ \/ UNCHANGED storeVars
                        \/ Fault /\ UNCHANGED <<stores, phase>>
                        \/ Fault /\ End(RoomStore, Files(RoomStore))
<1>1. Quiet
  <2>1. CASE CodexReads
    BY <2>1 DEF CodexReads, ToolCall, Command
  <2>2. CASE CodexCreates
    BY <2>2 DEF CodexCreates, ToolCall, At, Command, WriteNewFile
  <2>3. CASE CodexReplaces
    <3>1. UNCHANGED storeVars /\ \E p \in Paths : ToolCall("replace_file", p)
      BY <2>3, Zenon DEF CodexReplaces
    <3>2. scenario' = scenario /\ UNCHANGED <<image, backups>> /\ turn.step # "idle"
      BY ONLY <3>1 DEF ToolCall, At, Command
    <3>. QED
      BY <3>1, <3>2, Zenon
  <2>4. CASE FinishReplacing
    BY <2>4 DEF FinishReplacing, At, storeVars
  <2>. QED
    BY <2>1, <2>2, <2>3, <2>4
<1>2. DOMAIN turn' = DOMAIN turn /\ turn'.images = turn.images
  <2>1. "images" \in DOMAIN turn
    BY <1>1 DEF DesktopInv, TurnOK
  <2>2. CASE CodexReads
    <3>1. PICK x : turn' = [turn EXCEPT !.answer = x]
      BY <2>2 DEF CodexReads
    <3>. QED
      BY <2>1, <3>1
  <2>3. CASE CodexCreates
    <3>1. turn' = [turn EXCEPT !.answer = "none"]
      BY <2>3 DEF CodexCreates
    <3>. QED
      BY <2>1, <3>1
  <2>4. CASE CodexReplaces
    <3>1. PICK p : turn' = [turn EXCEPT !.step = "replacing", !.path = p, !.answer = "none"]
      BY <2>4, Zenon DEF CodexReplaces
    <3>. DEFINE moving == [turn EXCEPT !.step = "replacing", !.path = p]
    <3>2. turn' = [moving EXCEPT !.answer = "none"]
      BY <3>1, Zenon DEF moving
    <3>3. DOMAIN moving = DOMAIN turn /\ moving.images = turn.images
      BY ONLY <2>1
    <3>. HIDE DEF moving
    <3>. QED
      BY ONLY <2>1, <3>2, <3>3
  <2>5. CASE FinishReplacing
    <3>1. turn' = [turn EXCEPT !.step = "asked", !.path = <<>>]
      BY <2>5 DEF FinishReplacing
    <3>. QED
      BY <2>1, <3>1
  <2>. QED
    BY <2>2, <2>3, <2>4, <2>5
<1>. QED
  BY <1>1, <1>2, TurnKeeps

LEMMA AnswerKeeps ==
  ASSUME DesktopInv, CodexFails \/ CodexAnswers
  PROVE  DesktopInv'
<1>1. /\ scenario' = scenario /\ UNCHANGED <<image, backups>> /\ UNCHANGED storeVars
      /\ turn.step # "idle"
  BY DEF CodexFails, CodexAnswers, At
<1>2. \/ turn'.step = "idle"
      \/ DOMAIN turn' = DOMAIN turn /\ turn'.images = turn.images
  <2>1. "images" \in DOMAIN turn
    BY <1>1 DEF DesktopInv, TurnOK
  <2>2. CASE CodexFails
    BY <2>2 DEF CodexFails, NoTurn
  <2>3. CASE CodexAnswers
    <3>. DEFINE answered == [turn EXCEPT !.step = "answered"]
    <3>1. PICK plan : turn' = [answered EXCEPT !.plan = plan]
      BY <2>3, Zenon DEF CodexAnswers
    <3>2. DOMAIN answered = DOMAIN turn /\ answered.images = turn.images
      BY ONLY <2>1
    <3>. HIDE DEF answered
    <3>. QED
      BY ONLY <2>1, <3>1, <3>2
  <2>. QED
    BY <2>2, <2>3
<1>. QED
  BY <1>1, <1>2, TurnKeeps

LEMMA IngestKeeps ==
  ASSUME DesktopInv, IngestImage
  PROVE  DesktopInv'
<1>1. /\ scenario' = scenario /\ UNCHANGED backups /\ turn.step # "idle"
      /\ \/ UNCHANGED storeVars
         \/ Fault /\ UNCHANGED <<stores, phase>>
         \/ Fault /\ End(RoomStore, Files(RoomStore))
  BY DEF IngestImage, At
<1>2. StoreInv' /\ RoomsFrom({})
  BY <1>1, FaultKeeps DEF DesktopInv
<1>3. {"images", "step"} \subseteq DOMAIN turn
  BY <1>1 DEF DesktopInv, TurnOK
<1>4. \/ image' = "whole" /\ DOMAIN turn' = DOMAIN turn
      \/ image = "absent" /\ turn' = turn
  BY <1>3 DEF IngestImage
<1>5. TurnOK'
  BY <1>3, <1>4 DEF TurnOK
<1>6. NoImages => image' = "whole" \/ (turn'.step # "idle" => turn'.images = {})
  BY <1>4 DEF NoImages
<1>. QED
  BY <1>1, <1>2, <1>4, <1>5, <1>6, StepKeeps

LEMMA ReplyKeeps ==
  ASSUME MarksAreNoValues, DesktopInv, SaveReply
  PROVE  DesktopInv'
<1>. DEFINE m == Message(CodexReplyId(turn.source), turn.room, Codex, {turn.human}, "text", FALSE,
                         turn.images)
            answer == AppendMessage(Rooms, m)
<1>1. PICK result \in Results :
         /\ At("answered")
         /\ Change(answer, result)
         /\ IF result = "saved" THEN Goto("saved") ELSE turn' = NoTurn
         /\ UNCHANGED <<scenario, commands, posts, outbox, dialog, preview, outside>>
  BY DEF SaveReply
<1>2. /\ phase \in {"committed", "running"} /\ turn.step # "idle"
      /\ scenario' = scenario /\ UNCHANGED <<image, backups>>
  BY <1>1 DEF At, outside
<1>3. "images" \in DOMAIN m /\ m.images = turn.images
  BY DEF Message
<1>4. UpToDate(Rooms) /\ (NoImages => ImageLess(Rooms))
  BY <1>2, RoomsAreServed
<1>. HIDE DEF m
<1>5. UpToDate(answer.snapshot) /\ (NoImages => ImageLess(answer.snapshot))
  BY <1>2, <1>3, <1>4, AppendKeeps DEF NoImages
<1>. HIDE DEF answer
<1>6. StoreInv' /\ RoomsFrom({answer.snapshot})
  BY <1>1, <1>2, <1>5, ChangeKeeps DEF DesktopInv
<1>7. {"images", "step"} \subseteq DOMAIN turn
  BY <1>2 DEF DesktopInv, TurnOK
<1>8. turn'.step = "idle" \/ (DOMAIN turn' = DOMAIN turn /\ turn'.images = turn.images)
  BY <1>1, <1>7 DEF Goto, NoTurn
<1>9. TurnOK'
  BY <1>7, <1>8 DEF TurnOK
<1>10. NoImages => /\ \A f \in {answer.snapshot} : ImageLess(f)
                   /\ turn'.step # "idle" => turn'.images = {}
  BY <1>2, <1>5, <1>8 DEF NoImages
<1>. QED
  BY <1>2, <1>6, <1>9, <1>10, StepKeeps

LEMMA ContinuityKeeps ==
  ASSUME MarksAreNoValues, DesktopInv, CommitContinuity
  PROVE  DesktopInv'
<1>1. /\ phase = "running" /\ scenario' = scenario /\ UNCHANGED <<image, backups>>
      /\ turn' = NoTurn
  BY DEF CommitContinuity, At, outside
<1>2. PICK result, value :
         Persist("continuity", With("continuity", turn.room, value), result)
  BY DEF CommitContinuity
<1>3. "continuity" \in Settings /\ "continuity" \notin Unguarded
  BY DEF Settings, Unguarded
<1>4. StoreInv' /\ RoomsFrom({})
  BY <1>1, <1>2, <1>3, SettingKeeps, WithIsSetting DEF DesktopInv
<1>5. turn'.step = "idle"
  BY <1>1 DEF NoTurn
<1>6. TurnOK'
  BY <1>5 DEF TurnOK
<1>. QED
  BY <1>1, <1>4, <1>5, <1>6, StepKeeps

-----------------------------------------------------------------------------
(* Starts, crashes and damaged files.                                       *)

LEMMA StartKeeps ==
  ASSUME MarksAreNoValues, DesktopInv, Start
  PROVE  DesktopInv'
<1>1. /\ scenario' = scenario /\ UNCHANGED <<image, backups>> /\ turn' = NoTurn
      /\ PrepareRooms \/ MigrateProfiles \/ CommitRooms \/ LoadSettings
  BY DEF Start, outside
<1>2. turn'.step = "idle" /\ TurnOK'
  BY <1>1 DEF NoTurn, TurnOK
<1>3. ASSUME NEW V, StoreInv', RoomsFrom(V), NoImages => \A f \in V : ImageLess(f)
      PROVE  DesktopInv'
  BY <1>1, <1>2, <1>3, StepKeeps
<1>4. CASE PrepareRooms
  <2>. DEFINE value == StartRooms(Files(RoomStore))
  <2>1. StoreInv' /\ RoomsFrom({value})
    BY <1>1, <1>4, PrepareKeeps DEF DesktopInv
  <2>2. NoImages => ImageLess(value)
    <3>1. RoomFile = NoFile \/ (RoomFile \in FilesOf(Files(RoomStore)) /\ IsSnapshot(RoomFile))
      BY RoomFileIsSnapshot DEF DesktopInv
    <3>2. CASE RoomFile = NoFile
      BY <3>2, BundledUpToDate DEF StartRooms, RoomFile
    <3>3. CASE RoomFile # NoFile
      <4>1. HasOneOwner(RoomFile) /\ value = Prepared(RoomFile)
        BY <1>4, <3>3 DEF PrepareRooms, Usable, StartRooms, RoomFile
      <4>. QED
        BY <3>1, <3>3, <4>1, PreparedIsUpToDate DEF NoImages
    <3>. QED
      BY <3>2, <3>3
  <2>. HIDE DEF value
  <2>. QED
    BY <1>3, <2>1, <2>2
<1>5. CASE MigrateProfiles
  <2>1. StoreInv' /\ RoomsFrom({})
    BY <1>1, <1>5, MigrateKeeps DEF DesktopInv
  <2>. QED
    BY <1>3, <2>1
<1>6. CASE CommitRooms
  <2>1. StoreInv' /\ RoomsFrom({Served(RoomStore)})
    BY <1>1, <1>6, CommitKeeps DEF DesktopInv
  <2>2. NoImages => ImageLess(Served(RoomStore))
    BY <1>6 DEF CommitRooms, NoImages
  <2>. QED
    BY <1>3, <2>1, <2>2
<1>7. CASE LoadSettings
  <2>1. StoreInv' /\ RoomsFrom({})
    BY <1>1, <1>7, LoadSettingsKeeps DEF DesktopInv
  <2>. QED
    BY <1>3, <2>1
<1>. QED
  BY <1>1, <1>4, <1>5, <1>6, <1>7

LEMMA StopKeeps ==
  ASSUME DamageIsAlone, DesktopInv, Stop
  PROVE  DesktopInv'
<1>1. scenario' = scenario /\ UNCHANGED <<turn, image, backups>>
  BY DEF Stop, view, outside
<1>2. StoreInv' /\ RoomsFrom({})
  <2>1. CASE Crash
    BY <1>1, <2>1, CrashKeeps DEF Crash, DesktopInv
  <2>2. CASE "damage" \in scenario.does /\ \E s \in Stores : Damage(s)
    BY <1>1, <2>2, DamageKeeps DEF DesktopInv
  <2>. QED
    BY <2>1, <2>2 DEF Stop
<1>. QED
  BY <1>1, <1>2, CommandKeeps

LEMMA InitDesktop == Init => DesktopInv
<1>. SUFFICES ASSUME Init PROVE DesktopInv
  OBVIOUS
<1>1. PICK files \in Installations :
         stores = [s \in Stores |-> [memory |-> Unloaded, files |-> files[s]]]
  BY DEF Init
<1>2. /\ phase = "down" /\ scenario \in Scenarios /\ faults = scenario.faults
      /\ turn = NoTurn /\ image = "absent" /\ backups = <<>>
  BY DEF Init
<1>3. \A s \in Stores : /\ stores[s] = [memory |-> Served(s), files |-> Files(s)]
                        /\ Files(s) = files[s]
  BY <1>1 DEF Served, Files
<1>4. \A s \in Stores : IsPair(Files(s)) /\ Undamaged(Files(s))
  BY <1>1, <1>3, InstallationsAreWhole DEF IsPair, Undamaged
<1>5. StoresOK
  BY <1>1, <1>3, <1>4 DEF StoresOK, Repairable, Undamaged
<1>6. FaultsOK
  <2>1. \A s \in Unguarded : s \in Stores
    BY DEF Unguarded, Stores, Settings
  <2>. QED
    BY <1>2, <1>4, <2>1, ScenarioFaults DEF FaultsOK
<1>7. \A f \in FilesOf(Files(RoomStore)) : IsSnapshot(f) /\ ImageLess(f)
  <2>1. RoomStore \in Stores
    BY DEF Stores
  <2>. QED
    BY <1>1, <1>3, <2>1, InstallationsAreWhole DEF FilesOf, ImageLess
<1>8. RoomsServed /\ SettingsServed
  BY <1>2 DEF RoomsServed, SettingsServed, Phases
<1>9. StoreInv
  BY <1>5, <1>6, <1>7, <1>8 DEF StoreInv, RoomFilesOK
<1>10. backups \in Seq(ToSet(backups)) /\ DOMAIN backups = {}
  BY <1>2
<1>11. turn.step = "idle"
  BY <1>2 DEF NoTurn
<1>. QED
  BY <1>2, <1>7, <1>9, <1>10, <1>11 DEF DesktopInv, ImagesOK, NoImages, TurnOK, BackupsOK

LEMMA NextDesktop ==
  ASSUME MarksAreNoValues, DamageIsAlone, DesktopInv, [Next]_vars
  PROVE  DesktopInv'
<1>1. CASE WriteMessage \/ McpPost \/ Create \/ Rename \/ Join \/ Leave \/ Delete
  BY <1>1, MessagesAndRooms
<1>2. CASE ExportRooms \/ RestoreBackup
  BY <1>2, ExportKeeps, RestoreKeeps
<1>3. CASE \/ ConductorStatus \/ ChooseConductor \/ SetMode \/ DismissConductor
           \/ SaveAppearance \/ ChooseBackupDirectory \/ SaveProfile
           \/ ClearFolder \/ ResetContinuity
  BY <1>3, SettingsKeep
<1>4. CASE PreviewBackup \/ OpenDialog \/ AskGemini
  BY <1>4, QuietSteps
<1>5. CASE CloseDialog \/ OwnerEdits \/ SaveImage
  BY <1>5, FolderSteps
<1>6. CASE BridgeReply
  BY <1>6, BridgeReplyKeeps
<1>7. CASE AskCodex \/ IngestImage \/ SaveReply \/ CommitContinuity
  BY <1>7, AskKeeps, IngestKeeps, ReplyKeeps, ContinuityKeeps
<1>8. CASE CodexReads \/ CodexCreates \/ CodexReplaces \/ FinishReplacing
  BY <1>8, ToolSteps
<1>9. CASE CodexFails \/ CodexAnswers
  BY <1>9, AnswerKeeps
<1>10. CASE Start \/ Stop
  BY <1>10, StartKeeps, StopKeeps
<1>11. CASE UNCHANGED vars
  <2>1. UNCHANGED storeVars /\ scenario' = scenario /\ UNCHANGED <<turn, image, backups>>
    BY <1>11 DEF vars, view, outside
  <2>2. StoreInv' /\ RoomsFrom({})
    BY <2>1, FaultKeeps DEF DesktopInv
  <2>. QED
    BY <2>1, <2>2, CommandKeeps
<1>. QED
  BY <1>1, <1>2, <1>3, <1>4, <1>5, <1>6, <1>7, <1>8, <1>9, <1>10, <1>11 DEF Next

\* The invariant of the desktop's stores: the files of each store hold together
\* at every moment, what is served is what they say, and until an image is whole
\* nobody names it.  (room_source.rs, lib.rs, the settings stores,
\* room_artifacts.rs)
THEOREM DesktopHoldsTogether ==
  ASSUME MarksAreNoValues, DamageIsAlone
  PROVE  Spec => []DesktopInv
<1>1. Init => DesktopInv
  BY InitDesktop
<1>2. DesktopInv /\ [Next]_vars => DesktopInv'
  BY NextDesktop
<1>. QED
  BY <1>1, <1>2, PTL DEF Spec

\* The Rooms that are served are what the next start makes of the file.
LEMMA RoomsStartTheSame ==
  ASSUME MarksAreNoValues, DesktopInv, phase = "running"
  PROVE  /\ StartRooms(Files(RoomStore)) = Served(RoomStore)
         /\ \A profiles : MigratedFor(RoomFile, profiles) = profiles
<1>1. UpToDate(Served(RoomStore))
  BY DEF DesktopInv, StoreInv, RoomsServed
<1>2. Served(RoomStore) # NoFile
  BY <1>1 DEF UpToDate, MarksAreNoValues
<1>3. CASE RoomFile = Served(RoomStore)
  <2>1. StartRooms(Files(RoomStore)) = Prepared(Served(RoomStore))
    BY <1>2, <1>3 DEF StartRooms, RoomFile
  <2>2. ~HasOldOwner(RoomFile)
    BY <1>1, <1>3, OwnerIsPresent DEF UpToDate
  <2>. QED
    BY <1>1, <2>1, <2>2, UpToDateIsPrepared DEF MigratedFor
<1>4. CASE RoomFile = NoFile /\ Served(RoomStore) = Bundled
  BY <1>4 DEF StartRooms, RoomFile, MigratedFor
<1>. QED
  BY <1>3, <1>4 DEF DesktopInv, StoreInv, RoomsServed

\* Whatever commands, refused and cut writes, crashes, damaged files and restored
\* backups came before, every store serves what the next start of the desktop
\* would find - unless a write of profiles or appearance lost the primary - and
\* every image a message names is there.  (room_source.rs: a failed write puts
\* the old snapshot back; settings change in memory after they are on disk;
\* room_artifacts.rs: an image is ingested before the reply names it)
THEOREM StartIsFaithful ==
  ASSUME MarksAreNoValues, DamageIsAlone
  PROVE  Spec => []StartServesTheSame
<1>1. ASSUME DesktopInv
      PROVE  StartServesTheSame
  <2>. SUFFICES ASSUME phase = "running"
                PROVE  /\ \A s \in Stores : LostPrimary(s) \/ WouldServe(s) = Served(s)
                       /\ \A m \in Messages(Rooms) : m.images # {} => image = "whole"
    BY DEF StartServesTheSame
  <2>1. /\ StartRooms(Files(RoomStore)) = Served(RoomStore)
        /\ \A profiles : MigratedFor(RoomFile, profiles) = profiles
    BY <1>1, RoomsStartTheSame
  <2>2. WouldServe(RoomStore) = Served(RoomStore)
    BY <2>1 DEF WouldServe, RoomStore
  <2>3. ASSUME NEW s \in Settings
        PROVE  LostPrimary(s) \/ WouldServe(s) = Served(s)
    <3>1. SettingServed(s)
      BY <1>1 DEF DesktopInv, StoreInv, SettingsServed
    <3>2. s # RoomStore
      BY DEF Settings, RoomStore
    <3>3. WouldServe(s) = ReadValue(s, Files(s))
      BY <2>1, <3>2 DEF WouldServe, ViewProfiles
    <3>. QED
      BY <3>1, <3>3 DEF SettingServed
  <2>4. ASSUME NEW m \in Messages(Rooms), m.images # {}
        PROVE  image = "whole"
    <3>1. NoImages => ImageLess(Rooms)
      BY <1>1, RoomsAreServed
    <3>. QED
      BY <1>1, <2>4, <3>1 DEF DesktopInv, ImagesOK, ImageLess
  <2>. QED
    BY <2>2, <2>3, <2>4 DEF Stores
<1>2. Spec => []DesktopInv
  BY DesktopHoldsTogether
<1>. QED
  BY <1>1, <1>2, PTL
=============================================================================
