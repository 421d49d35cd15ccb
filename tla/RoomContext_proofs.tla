-------------------------- MODULE RoomContext_proofs --------------------------
(***************************************************************************)
(* A turn that resumes a session tells it everything it has missed, for any   *)
(* installations, Rooms, folders, scenarios and faults.  The Rooms come and     *)
(* go - backups are restored, damaged files give way to older ones, replies and  *)
(* the messages of MCP clients come again behind newer ones - but a message of   *)
(* the window is put at the end of one log once, so all versions of the Rooms   *)
(* that can still be served agree on what came before it.  The window asks for  *)
(* nothing but its own messages: what a session knows up to its cursor, one of   *)
(* them, it therefore knows in each version.                                  *)
(***************************************************************************)
EXTENDS RoomService_proofs
LOCAL INSTANCE SequencesExt

-----------------------------------------------------------------------------
(* Versions of the Rooms.                                                   *)

\* Two versions of a Room that have a message of the window have the same before it,
\* as far as a turn tells them apart: what is to be told and what Codex wrote.
SamePast(a, b) ==
  \A i \in DOMAIN a, j \in DOMAIN b : a[i].id = b[j].id /\ FromWindow(a[i].id) =>
    /\ i = j
    /\ \A k \in 1..i : a[k].id = b[k].id /\ (a[k].author = Codex <=> b[k].author = Codex)

OnePast(versions) ==
  \A v, w \in versions : \A r \in DOMAIN v \cap DOMAIN w : SamePast(v[r].log, w[r].log)

\* The messages of the window are numbered.
LogOK(log, r, n) ==
  /\ IsLog(log)
  /\ \A i \in DOMAIN log :
       /\ log[i].room = r
       /\ FromWindow(log[i].id) => log[i].id[2] \in 1..n

LogsOK(versions, n) == \A v \in versions : \A r \in DOMAIN v : LogOK(v[r].log, r, n)

\* A message of the window that was written: none to come will have its ID.
IsSource(id, n) == FromWindow(id) /\ id[2] \in 1..n

\* Who has the known messages has been told all that others wrote up to source.
Knows(log, source, known) ==
  \A i \in DOMAIN log : log[i].id = source =>
    \A j \in 1..i : log[j].author = Codex \/ log[j].id \in known

KnownIn(versions, r, source, known) ==
  \A v \in versions : r \in DOMAIN v => Knows(v[r].log, source, known)

\* A message that is written when there are n of the window, and k with it.
NewMessage(m, n, k) ==
  /\ "images" \in DOMAIN m
  /\ FromWindow(m.id) => m.id = <<"owner", n + 1>> /\ k = n + 1

LEMMA LogWithMessage ==
  ASSUME NEW log, NEW r, NEW n \in Nat, LogOK(log, r, n),
         NEW k \in {n, n + 1}, NEW m, NewMessage(m, n, k), m.room = r
  PROVE  LET new == Append(log, m) IN
         /\ LogOK(new, r, k)
         /\ \A i \in DOMAIN log : i \in DOMAIN new /\ new[i] = log[i]
         /\ \A i \in DOMAIN new \ DOMAIN log : new[i] = m
         /\ \A i \in DOMAIN log : 1..i \subseteq DOMAIN log
<1>. DEFINE new == Append(log, m)
            S == ToSet(log) \cup {m}
<1>1. IsLog(log) /\ "images" \in DOMAIN m
  BY DEF LogOK, NewMessage
<1>2. IsLog(new)
  BY <1>1, AppendedLog
<1>3. log \in Seq(S) /\ m \in S
  BY <1>1, SeqMonotonic DEF IsLog
<1>. HIDE DEF S
<1>4. /\ Len(log) \in Nat /\ Len(new) = Len(log) + 1
      /\ DOMAIN log = 1..Len(log) /\ DOMAIN new = 1..Len(new)
      /\ \A i \in 1..Len(log) : new[i] = log[i]
      /\ new[Len(log) + 1] = m
  BY <1>3
<1>. HIDE DEF new
<1>5. /\ \A i \in DOMAIN log : i \in DOMAIN new /\ new[i] = log[i]
      /\ \A i \in DOMAIN new \ DOMAIN log : new[i] = m
      /\ \A i \in DOMAIN log : 1..i \subseteq DOMAIN log
  BY <1>4
<1>6. 1..n \subseteq 1..k
  OBVIOUS
<1>7. FromWindow(m.id) => m.id[2] \in 1..k
  BY DEF NewMessage
<1>8. \A i \in DOMAIN new :
        /\ new[i].room = r
        /\ FromWindow(new[i].id) => new[i].id[2] \in 1..k
  BY <1>5, <1>6, <1>7 DEF LogOK
<1>9. LogOK(new, r, k)
  BY <1>2, <1>8 DEF LogOK
<1>. QED
  BY <1>5, <1>9 DEF new

\* The message that is added was in no log, if it is one of the window.
LEMMA MessageIsNew ==
  ASSUME NEW log, NEW r, NEW n \in Nat, LogOK(log, r, n),
         NEW k, NEW m, NewMessage(m, n, k), FromWindow(m.id), NEW i \in DOMAIN log
  PROVE  log[i].id # m.id
<1>1. m.id[2] = n + 1
  BY DEF NewMessage
<1>2. n + 1 \notin 1..n
  OBVIOUS
<1>. QED
  BY <1>1, <1>2 DEF LogOK

LEMMA SourceIsOld ==
  ASSUME NEW n \in Nat, NEW k, NEW m, NewMessage(m, n, k), NEW source, IsSource(source, n)
  PROVE  m.id # source
<1>1. FromWindow(m.id) => m.id[2] = n + 1
  BY DEF NewMessage
<1>2. n + 1 \notin 1..n
  OBVIOUS
<1>. QED
  BY <1>1, <1>2 DEF IsSource

LEMMA PastOfTheLonger ==
  ASSUME NEW a, NEW b, NEW r, NEW n \in Nat, LogOK(a, r, n), LogOK(b, r, n), SamePast(a, b),
         NEW k \in {n, n + 1}, NEW m, NewMessage(m, n, k), m.room = r
  PROVE  SamePast(Append(a, m), b) /\ SamePast(b, Append(a, m))
<1>. DEFINE new == Append(a, m)
<1>1. /\ \A i \in DOMAIN a : i \in DOMAIN new /\ new[i] = a[i]
      /\ \A i \in DOMAIN new \ DOMAIN a : new[i] = m
      /\ \A i \in DOMAIN a : 1..i \subseteq DOMAIN a
  BY LogWithMessage
<1>. HIDE DEF new
<1>2. ASSUME NEW i \in DOMAIN new, NEW j \in DOMAIN b, new[i].id = b[j].id, FromWindow(b[j].id)
      PROVE  /\ i = j
             /\ \A x \in 1..i : new[x].id = b[x].id /\ (new[x].author = Codex <=> b[x].author = Codex)
  <2>1. i \in DOMAIN a
    BY <1>1, <1>2, MessageIsNew
  <2>2. new[i] = a[i] /\ 1..i \subseteq DOMAIN a
    BY <1>1, <2>1
  <2>3. /\ i = j
        /\ \A x \in 1..i : a[x].id = b[x].id /\ (a[x].author = Codex <=> b[x].author = Codex)
    BY <1>2, <2>1, <2>2 DEF SamePast
  <2>. QED
    BY <1>1, <2>2, <2>3
<1>3. SamePast(new, b)
  BY <1>2 DEF SamePast
<1>4. SamePast(b, new)
  BY <1>2 DEF SamePast
<1>. QED
  BY <1>3, <1>4 DEF new

LEMMA PastOfTheSame ==
  ASSUME NEW a, NEW r, NEW n \in Nat, LogOK(a, r, n), SamePast(a, a),
         NEW k \in {n, n + 1}, NEW m, NewMessage(m, n, k), m.room = r
  PROVE  SamePast(Append(a, m), Append(a, m))
<1>. DEFINE new == Append(a, m)
<1>1. /\ \A i \in DOMAIN a : i \in DOMAIN new /\ new[i] = a[i]
      /\ \A i \in DOMAIN new \ DOMAIN a : new[i] = m
  BY LogWithMessage
<1>2. SamePast(new, a)
  BY PastOfTheLonger
<1>3. IsLog(new) /\ IsLog(a) /\ Len(new) = Len(a) + 1
  <2>1. LogOK(new, r, k)
    BY LogWithMessage
  <2>2. IsLog(a)
    BY DEF LogOK
  <2>. DEFINE S == ToSet(a) \cup {m}
  <2>3. a \in Seq(S) /\ m \in S
    BY <2>2, SeqMonotonic DEF IsLog
  <2>. HIDE DEF S
  <2>4. Len(new) = Len(a) + 1
    BY <2>3
  <2>. QED
    BY <2>1, <2>2, <2>4 DEF LogOK
<1>4. /\ DOMAIN new = 1..(Len(a) + 1) /\ DOMAIN a = 1..Len(a) /\ Len(a) \in Nat
  BY <1>3 DEF IsLog
<1>. HIDE DEF new
<1>5. ASSUME NEW i \in DOMAIN new, NEW j \in DOMAIN new, new[i].id = new[j].id, FromWindow(new[i].id)
      PROVE  i = j
  <2>1. CASE j \in DOMAIN a
    BY <1>1, <1>2, <1>5, <2>1 DEF SamePast
  <2>2. CASE i \in DOMAIN a
    BY <1>1, <1>2, <1>5, <2>2 DEF SamePast
  <2>3. CASE i \notin DOMAIN a /\ j \notin DOMAIN a
    BY <1>4, <2>3
  <2>. QED
    BY <2>1, <2>2, <2>3
<1>6. SamePast(new, new)
  BY <1>5 DEF SamePast
<1>. QED
  BY <1>6 DEF new

LEMMA KnownOfTheLonger ==
  ASSUME NEW a, NEW r, NEW n \in Nat, LogOK(a, r, n),
         NEW k \in {n, n + 1}, NEW m, NewMessage(m, n, k), m.room = r,
         NEW source, IsSource(source, n), NEW known, Knows(a, source, known)
  PROVE  Knows(Append(a, m), source, known)
<1>. DEFINE new == Append(a, m)
<1>1. /\ \A i \in DOMAIN a : i \in DOMAIN new /\ new[i] = a[i]
      /\ \A i \in DOMAIN new \ DOMAIN a : new[i] = m
      /\ \A i \in DOMAIN a : 1..i \subseteq DOMAIN a
  BY LogWithMessage
<1>2. m.id # source
  BY SourceIsOld
<1>. HIDE DEF new
<1>3. Knows(new, source, known)
  BY <1>1, <1>2 DEF Knows
<1>. QED
  BY <1>3 DEF new

\* A new version whose logs are empty, those of an old one, or one message longer.
Grown(versions, new, M) ==
  \A r \in DOMAIN new :
    \/ new[r].log = <<>>
    \/ \E v \in versions :
         /\ r \in DOMAIN v
         /\ \/ new[r].log = v[r].log
            \/ \E m \in M : m.room = r /\ new[r].log = Append(v[r].log, m)

\* Whatever holds of the logs so far holds of all logs after a step.
LEMMA VersionsGrow ==
  ASSUME NEW versions, NEW new, NEW after, after \subseteq versions \cup {new},
         NEW n \in Nat, NEW k \in {n, n + 1}, NEW M, \A m \in M : NewMessage(m, n, k),
         Grown(versions, new, M), LogsOK(versions, n), OnePast(versions)
  PROVE  /\ LogsOK(after, k) /\ OnePast(after)
         /\ \A r, source, known :
              IsSource(source, n) /\ KnownIn(versions, r, source, known)
                => KnownIn(after, r, source, known)
<1>1. \A log, r : LogOK(log, r, n) => LogOK(log, r, k)
  <2>1. 1..n \subseteq 1..k
    OBVIOUS
  <2>. QED
    BY <2>1 DEF LogOK
<1>2. IsLog(<<>>)
  <2>1. <<>> \in Seq(ToSet(<<>>)) /\ ToSet(<<>>) = {}
    BY DEF ToSet
  <2>. QED
    BY <2>1 DEF IsLog
<1>3. LogsOK(after, k)
  <2>1. ASSUME NEW r \in DOMAIN new
        PROVE  LogOK(new[r].log, r, k)
    <3>1. CASE new[r].log = <<>>
      BY <1>2, <3>1 DEF LogOK
    <3>2. ASSUME NEW v \in versions, r \in DOMAIN v, new[r].log = v[r].log
          PROVE  LogOK(new[r].log, r, k)
      BY <1>1, <3>2 DEF LogsOK
    <3>3. ASSUME NEW v \in versions, r \in DOMAIN v, NEW m \in M, m.room = r,
                 new[r].log = Append(v[r].log, m)
          PROVE  LogOK(new[r].log, r, k)
      BY <3>3, LogWithMessage DEF LogsOK
    <3>. QED
      BY <2>1, <3>1, <3>2, <3>3 DEF Grown
  <2>. QED
    BY <1>1, <2>1 DEF LogsOK
<1>4. ASSUME NEW r \in DOMAIN new
      PROVE  SamePast(new[r].log, new[r].log)
  <2>1. CASE new[r].log = <<>>
    BY <2>1 DEF SamePast
  <2>2. ASSUME NEW v \in versions, r \in DOMAIN v
        PROVE  SamePast(v[r].log, v[r].log) /\ LogOK(v[r].log, r, n)
    BY <2>2 DEF OnePast, LogsOK
  <2>3. ASSUME NEW v \in versions, r \in DOMAIN v, NEW m \in M, m.room = r,
               new[r].log = Append(v[r].log, m)
        PROVE  SamePast(new[r].log, new[r].log)
    BY <2>2, <2>3, PastOfTheSame
  <2>. QED
    BY <1>4, <2>1, <2>2, <2>3 DEF Grown
<1>5. ASSUME NEW r \in DOMAIN new, NEW w \in versions, r \in DOMAIN w
      PROVE  SamePast(new[r].log, w[r].log) /\ SamePast(w[r].log, new[r].log)
  <2>1. CASE new[r].log = <<>>
    BY <2>1 DEF SamePast
  <2>2. ASSUME NEW v \in versions, r \in DOMAIN v
        PROVE  /\ SamePast(v[r].log, w[r].log) /\ SamePast(w[r].log, v[r].log)
               /\ LogOK(v[r].log, r, n) /\ LogOK(w[r].log, r, n)
    BY <1>5, <2>2 DEF OnePast, LogsOK
  <2>3. ASSUME NEW v \in versions, r \in DOMAIN v, NEW m \in M, m.room = r,
               new[r].log = Append(v[r].log, m)
        PROVE  SamePast(new[r].log, w[r].log) /\ SamePast(w[r].log, new[r].log)
    BY <2>2, <2>3, PastOfTheLonger
  <2>. QED
    BY <1>5, <2>1, <2>2, <2>3 DEF Grown
<1>6. OnePast(after)
  BY <1>4, <1>5 DEF OnePast
<1>7. ASSUME NEW r, NEW source, NEW known, IsSource(source, n), KnownIn(versions, r, source, known)
      PROVE  KnownIn(after, r, source, known)
  <2>1. ASSUME r \in DOMAIN new
        PROVE  Knows(new[r].log, source, known)
    <3>1. CASE new[r].log = <<>>
      BY <3>1 DEF Knows
    <3>2. ASSUME NEW v \in versions, r \in DOMAIN v
          PROVE  Knows(v[r].log, source, known) /\ LogOK(v[r].log, r, n)
      BY <1>7, <3>2 DEF KnownIn, LogsOK
    <3>3. ASSUME NEW v \in versions, r \in DOMAIN v, NEW m \in M, m.room = r,
                 new[r].log = Append(v[r].log, m)
          PROVE  Knows(new[r].log, source, known)
      BY <1>7, <3>2, <3>3, KnownOfTheLonger
    <3>. QED
      BY <2>1, <3>1, <3>2, <3>3 DEF Grown
  <2>. QED
    BY <1>7, <2>1 DEF KnownIn
<1>. QED
  BY <1>3, <1>6, <1>7

-----------------------------------------------------------------------------
(* The versions of the Rooms that may still be served.                      *)

Versions == {ServedRooms, RoomsBefore} \cup ExportedRooms

RoomsGrow(M) ==
  /\ Versions' \subseteq Versions \cup {ServedRooms'}
  /\ Grown(Versions, ServedRooms', M)

LEMMA MovesGrow ==
  ASSUME Move
  PROVE  /\ Versions' \subseteq Versions \cup {ServedRooms'}
         /\ Upkeep => ServedRooms' \in Versions
<1>1. ASSUME Upkeep
      PROVE  /\ Versions' \subseteq Versions \cup {ServedRooms'}
             /\ ServedRooms' \in Versions
  BY <1>1 DEF Upkeep, Service!Export, Service!SetProfile, Service!RollBack, Service!WriteAgain,
     Versions
<1>2. ASSUME Service!ByOrder
      PROVE  Versions' \subseteq Versions \cup {ServedRooms'}
  <2>1. RoomsBefore' \in {RoomsBefore, ServedRooms, ServedRooms'} /\ ExportedRooms' = ExportedRooms
    BY <1>2 DEF Service!ByOrder
  <2>. QED
    BY <2>1 DEF Versions
<1>. QED
  BY <1>1, <1>2 DEF Move

\* Rooms that were there before, or that the owner created, renamed or deleted.
LEMMA ArrangedGrow ==
  ASSUME Move, ServedRooms' \in Versions \/ Rearranged
  PROVE  RoomsGrow({})
<1>1. CASE ServedRooms' \in Versions
  BY <1>1, MovesGrow DEF RoomsGrow, Grown
<1>2. CASE Rearranged
  <2>1. ServedRooms \in Versions
    BY DEF Versions
  <2>2. \A q \in DOMAIN ServedRooms' :
          \/ ServedRooms'[q].log = <<>>
          \/ q \in DOMAIN ServedRooms /\ ServedRooms'[q].log = ServedRooms[q].log
    <3>1. CASE \E r \in DOMAIN ServedRooms : Service!Arrange(r)
      BY <3>1 DEF Service!Arrange
    <3>2. CASE \E r \in DOMAIN ServedRooms : Service!Delete(r)
      BY <3>2 DEF Service!Delete
    <3>3. CASE \E r \in DOMAIN ServedRooms' \ DOMAIN ServedRooms : Service!Open(r)
      BY <3>3 DEF Service!Open
    <3>. QED
      BY <1>2, <3>1, <3>2, <3>3 DEF Rearranged
  <2>3. Grown(Versions, ServedRooms', {})
    BY <2>1, <2>2 DEF Grown
  <2>. QED
    BY <2>3, MovesGrow DEF RoomsGrow
<1>. QED
  BY <1>1, <1>2

LEMMA UpkeepGrows ==
  ASSUME Upkeep
  PROVE  RoomsGrow({})
BY MovesGrow, ArrangedGrow DEF Move

\* A message was added, or nothing changed.
LEMMA AppendGrows ==
  ASSUME NEW s, UpToDate(s), NEW m
  PROVE  \A r \in DOMAIN AppendMessage(s, m).snapshot.rooms :
           LET new == AppendMessage(s, m).snapshot.rooms IN
             /\ r \in DOMAIN s.rooms
             /\ \/ new[r].log = s.rooms[r].log
                \/ m.room = r /\ new[r].log = Append(s.rooms[r].log, m)
<1>1. CASE AppendMessage(s, m).snapshot = s
  BY <1>1
<1>2. CASE /\ ~\E n \in Messages(s) : n.id = m.id
           /\ CanAppend(s, m)
  <2>. DEFINE r == m.room
              q == s.rooms[r]
              log == q.log
              new == AppendMessage(s, m).snapshot.rooms
  <2>1. r \in RoomIds(s) /\ IsRoom(q)
    BY <1>2 DEF CanAppend, UpToDate, IsSnapshot
  <2>2. new = [s.rooms EXCEPT ![r] = [q EXCEPT !.log = Append(log, m)]]
    <3>1. AppendMessage(s, m).snapshot = [s EXCEPT !.rooms[r].log = Append(@, m)]
      BY <1>2 DEF AppendMessage, Result
    <3>2. [s EXCEPT !.rooms[r].log = Append(@, m)].rooms
            = [s.rooms EXCEPT ![r] = [q EXCEPT !.log = Append(log, m)]]
      BY <2>1 DEF UpToDate, IsSnapshot, RoomIds
    <3>. QED
      BY <3>1, <3>2
  <2>3. [q EXCEPT !.log = Append(log, m)].log = Append(log, m)
    BY <2>1 DEF IsRoom
  <2>4. /\ DOMAIN new = DOMAIN s.rooms
        /\ new[r].log = Append(log, m)
        /\ \A x \in DOMAIN s.rooms \ {r} : new[x] = s.rooms[x]
    BY <2>1, <2>2, <2>3 DEF RoomIds
  <2>. HIDE DEF new
  <2>5. \A x \in DOMAIN new :
          /\ x \in DOMAIN s.rooms
          /\ \/ new[x].log = s.rooms[x].log
             \/ m.room = x /\ new[x].log = Append(s.rooms[x].log, m)
    BY <2>4
  <2>. QED
    BY <2>5 DEF new
<1>. QED
  BY <1>1, <1>2 DEF AppendMessage, Result

LEMMA PostGrows ==
  ASSUME MarksAreNoValues, DesktopInv, DesktopInv', ProfilesInv,
         phase \in {"committed", "running"}, UNCHANGED backups,
         NEW m, "images" \in DOMAIN m, NEW result, Change(AppendMessage(Rooms, m), result)
  PROVE  RoomsGrow({m})
<1>1. ServedRooms = Rooms.rooms /\ UpToDate(Rooms)
  BY ServedIsRooms
<1>2. Move /\ ServedRooms' \in {ServedRooms, AppendMessage(Rooms, m).snapshot.rooms}
  BY PostFollows
<1>3. ServedRooms \in Versions
  BY DEF Versions
<1>4. \A r \in DOMAIN ServedRooms' :
        /\ r \in DOMAIN ServedRooms
        /\ \/ ServedRooms'[r].log = ServedRooms[r].log
           \/ m.room = r /\ ServedRooms'[r].log = Append(ServedRooms[r].log, m)
  BY <1>1, <1>2, AppendGrows
<1>5. Grown(Versions, ServedRooms', {m})
  BY <1>3, <1>4 DEF Grown
<1>. QED
  BY <1>2, <1>5, MovesGrow DEF RoomsGrow

\* A message that was refused is nowhere.
LEMMA RefusedGrows ==
  ASSUME MarksAreNoValues, DesktopInv, DesktopInv', ProfilesInv,
         phase \in {"committed", "running"}, UNCHANGED backups,
         NEW m, "images" \in DOMAIN m, Change(AppendMessage(Rooms, m), "refused")
  PROVE  RoomsGrow({})
<1>1. Move
  BY PostFollows
<1>2. CASE UNCHANGED storeVars
  BY <1>2, UpkeepGrows, QuietFollows
<1>3. CASE RefuseSave(RoomStore, Served(RoomStore))
  <2>1. RoomStore \in Stores
    BY DEF Stores
  <2>2. Served(RoomStore)' = Served(RoomStore)
    BY <1>3, <2>1, PutStores DEF RefuseSave, DesktopInv, StoreInv
  <2>3. Served(RoomStore) # Unloaded
    BY DEF DesktopInv, StoreInv, RoomsServed, UpToDate, MarksAreNoValues, Unloaded
  <2>4. ServedRooms' = ServedRooms
    BY <2>2, <2>3 DEF ServedRooms, Rooms
  <2>. QED
    BY <1>1, <2>4, ArrangedGrow DEF Versions
<1>. QED
  BY <1>2, <1>3 DEF Change, Persist

-----------------------------------------------------------------------------
(* The invariant.                                                           *)

KnownOf(session, told) == IF session = 0 THEN {} ELSE told[session]

\* A session has been told what came before the cursor that is stored for it.
ContinuationOK(f, versions, n, told) ==
  \A r \in DOMAIN f :
    /\ f[r].session \in DOMAIN told
    /\ IsSource(f[r].cursor, n)
    /\ KnownIn(versions, r, f[r].cursor, told[f[r].session])

\* The session of a turn has been told what came before the source, or is told now.
TurnKnows(t, versions, n, told) ==
  t.step # "idle" =>
    /\ {"step", "room", "source", "plan"} \subseteq DOMAIN t
    /\ "session" \in DOMAIN t.plan /\ t.plan.session \in {0} \cup DOMAIN told
    /\ IsSource(t.source, n)
    /\ \/ /\ t.step \in {"asked", "replacing"}
          /\ KnownIn(versions, t.room, t.source,
                     KnownOf(t.plan.session, told) \cup MakesKnown(Prompt(t.plan, t.source)))
       \/ /\ t.step \in {"answered", "saved"}
          /\ t.plan.session # 0
          /\ KnownIn(versions, t.room, t.source, told[t.plan.session])

Continuations == FilesOf(Files("continuity"))

HistoryOK ==
  /\ posts \in Nat /\ sessions \in Seq(ToSet(sessions))
  /\ LogsOK(Versions, posts) /\ OnePast(Versions)
  /\ \A f \in Continuations : ContinuationOK(f, Versions, posts, sessions)
  /\ TurnKnows(turn, Versions, posts, sessions)

HistoryInv == "turn" \in scenario.does => HistoryOK

\* The Rooms grow by messages that are new.
HistoryGrows ==
  /\ posts' \in {posts, posts + 1}
  /\ \E M : (\A m \in M : NewMessage(m, posts, posts')) /\ RoomsGrow(M)

LEMMA KnowsMore ==
  ASSUME NEW versions, NEW r, NEW source, NEW known, NEW more, known \subseteq more,
         KnownIn(versions, r, source, known)
  PROVE  KnownIn(versions, r, source, more)
BY DEF KnownIn, Knows

\* After a step of the Rooms all that was known is known, when what is new in the
\* sessions, the continuations and the turn is right for the Rooms before it.
LEMMA HistoryFollows ==
  ASSUME HistoryOK, HistoryGrows, sessions' \in Seq(ToSet(sessions')),
         \A i \in DOMAIN sessions : i \in DOMAIN sessions' /\ sessions[i] \subseteq sessions'[i],
         \A f \in Continuations' :
           f \in Continuations \/ ContinuationOK(f, Versions, posts, sessions),
         TurnKnows(turn', Versions, posts, sessions')
  PROVE  HistoryOK'
<1>1. posts \in Nat /\ posts' \in {posts, posts + 1} /\ posts' \in Nat
  BY DEF HistoryOK, HistoryGrows
<1>2. PICK M : (\A m \in M : NewMessage(m, posts, posts')) /\ RoomsGrow(M)
  BY DEF HistoryGrows
<1>3. LogsOK(Versions, posts) /\ OnePast(Versions)
  BY DEF HistoryOK
<1>4. Versions' \subseteq Versions \cup {ServedRooms'} /\ Grown(Versions, ServedRooms', M)
  BY <1>2 DEF RoomsGrow
<1>5. /\ LogsOK(Versions', posts') /\ OnePast(Versions')
      /\ \A r, source, known :
           IsSource(source, posts) /\ KnownIn(Versions, r, source, known)
             => KnownIn(Versions', r, source, known)
  BY <1>1, <1>2, <1>3, <1>4, VersionsGrow
<1>6. \A id : IsSource(id, posts) => IsSource(id, posts')
  <2>1. 1..posts \subseteq 1..posts'
    BY <1>1
  <2>. QED
    BY <2>1 DEF IsSource
<1>7. ASSUME NEW f, ContinuationOK(f, Versions, posts, sessions)
      PROVE  ContinuationOK(f, Versions', posts', sessions')
  <2>1. ASSUME NEW r \in DOMAIN f
        PROVE  /\ f[r].session \in DOMAIN sessions'
               /\ IsSource(f[r].cursor, posts')
               /\ KnownIn(Versions', r, f[r].cursor, sessions'[f[r].session])
    <3>1. /\ f[r].session \in DOMAIN sessions
          /\ IsSource(f[r].cursor, posts)
          /\ KnownIn(Versions, r, f[r].cursor, sessions[f[r].session])
      BY <1>7 DEF ContinuationOK
    <3>2. /\ f[r].session \in DOMAIN sessions'
          /\ sessions[f[r].session] \subseteq sessions'[f[r].session]
      BY <3>1
    <3>3. KnownIn(Versions', r, f[r].cursor, sessions[f[r].session])
      BY <1>5, <3>1
    <3>. QED
      BY <1>6, <3>1, <3>2, <3>3, KnowsMore
  <2>. QED
    BY <2>1 DEF ContinuationOK
<1>8. TurnKnows(turn', Versions', posts', sessions')
  BY <1>5, <1>6 DEF TurnKnows
<1>9. \A f \in Continuations' : ContinuationOK(f, Versions', posts', sessions')
  BY <1>7 DEF HistoryOK
<1>. QED
  BY <1>1, <1>5, <1>8, <1>9 DEF HistoryOK

\* The turn goes on, or it ends.
TurnGoesOn ==
  \/ turn' = turn
  \/ turn'.step = "idle"
  \/ /\ \/ {turn.step, turn'.step} \subseteq {"asked", "replacing"}
        \/ {turn.step, turn'.step} \subseteq {"answered", "saved"}
     /\ DOMAIN turn' = DOMAIN turn
     /\ turn'.room = turn.room /\ turn'.source = turn.source /\ turn'.plan = turn.plan

LEMMA TurnStillKnows ==
  ASSUME HistoryOK, TurnGoesOn
  PROVE  TurnKnows(turn', Versions, posts, sessions)
<1>1. TurnKnows(turn, Versions, posts, sessions)
  BY DEF HistoryOK
<1>2. CASE turn' = turn \/ turn'.step = "idle"
  BY <1>1, <1>2 DEF TurnKnows
<1>3. CASE /\ \/ {turn.step, turn'.step} \subseteq {"asked", "replacing"}
              \/ {turn.step, turn'.step} \subseteq {"answered", "saved"}
           /\ DOMAIN turn' = DOMAIN turn
           /\ turn'.room = turn.room /\ turn'.source = turn.source /\ turn'.plan = turn.plan
  <2>1. turn.step # "idle"
    BY <1>3
  <2>2. /\ {"step", "room", "source", "plan"} \subseteq DOMAIN turn
        /\ "session" \in DOMAIN turn.plan /\ turn.plan.session \in {0} \cup DOMAIN sessions
        /\ IsSource(turn.source, posts)
        /\ \/ /\ turn.step \in {"asked", "replacing"}
              /\ KnownIn(Versions, turn.room, turn.source,
                         KnownOf(turn.plan.session, sessions)
                           \cup MakesKnown(Prompt(turn.plan, turn.source)))
           \/ /\ turn.step \in {"answered", "saved"}
              /\ turn.plan.session # 0
              /\ KnownIn(Versions, turn.room, turn.source, sessions[turn.plan.session])
    BY <1>1, <2>1 DEF TurnKnows
  <2>3. turn.step \in {"asked", "replacing"} => turn'.step \in {"asked", "replacing"}
    BY <1>3
  <2>4. turn.step \in {"answered", "saved"} => turn'.step \in {"answered", "saved"}
    BY <1>3
  <2>. QED
    BY <1>3, <2>2, <2>3, <2>4 DEF TurnKnows
<1>. QED
  BY <1>2, <1>3 DEF TurnGoesOn

\* The most common case of HistoryFollows.
LEMMA HistoryStays ==
  ASSUME HistoryOK, HistoryGrows, UNCHANGED sessions, TurnGoesOn,
         \A f \in Continuations' :
           f \in Continuations \/ ContinuationOK(f, Versions, posts, sessions)
  PROVE  HistoryOK'
<1>1. sessions' \in Seq(ToSet(sessions'))
  BY DEF HistoryOK
<1>2. TurnKnows(turn', Versions, posts, sessions')
  BY TurnStillKnows
<1>. QED
  BY <1>1, <1>2, HistoryFollows

LEMMA QuietHistory ==
  ASSUME RoomsGrow({}), posts' = posts
  PROVE  HistoryGrows
BY DEF HistoryGrows

-----------------------------------------------------------------------------
(* What most steps leave alone.                                             *)

LEMMA ScenarioStays ==
  ASSUME [Next]_vars
  PROVE  scenario' = scenario
<1>1. CASE \/ WriteMessage \/ McpPost \/ BridgeReply \/ Stop \/ UNCHANGED vars
           \/ ExportRooms \/ PreviewBackup \/ RestoreBackup \/ CloseDialog \/ AskGemini
  BY <1>1 DEF WriteMessage, McpPost, BridgeReply, Stop, vars, ExportRooms, PreviewBackup,
     RestoreBackup, CloseDialog, AskGemini
<1>2. CASE \/ Create \/ Rename \/ Join \/ Leave \/ Delete
  BY <1>2 DEF Create, Rename, Join, Leave, Delete, RoomCommand, Command
<1>3. CASE \/ ConductorStatus \/ ChooseConductor \/ SetMode \/ DismissConductor
           \/ SaveAppearance \/ ChooseBackupDirectory \/ SaveProfile
           \/ OpenDialog \/ ClearFolder \/ ResetContinuity
  BY <1>3 DEF ConductorStatus, ChooseConductor, SetMode, DismissConductor, SaveAppearance,
     ChooseBackupDirectory, SaveProfile, OpenDialog, ClearFolder, ResetContinuity, Command
<1>4. CASE \/ AskCodex \/ OwnerEdits \/ CodexReads
  BY <1>4 DEF AskCodex, OwnerEdits, CodexReads, ToolCall, Command
<1>5. CASE CodexCreates \/ CodexReplaces
  <2>1. PICK tool, p : ToolCall(tool, p)
    BY <1>5, Zenon DEF CodexCreates, CodexReplaces
  <2>. QED
    BY <2>1 DEF ToolCall, Command
<1>6. CASE \/ FinishReplacing \/ IngestImage \/ CodexFails \/ CodexAnswers \/ SaveReply
           \/ CommitContinuity \/ SaveImage \/ Start
  BY <1>6 DEF FinishReplacing, IngestImage, CodexFails, CodexAnswers, SaveReply, CommitContinuity,
     SaveImage, Start
<1>. QED
  BY <1>1, <1>2, <1>3, <1>4, <1>5, <1>6 DEF Next

ContinuityStays == Files("continuity")' = Files("continuity")

LEMMA PersistLeaves ==
  ASSUME StoresOK, NEW store \in Stores \ {"continuity"}, NEW value, NEW result,
         Persist(store, value, result)
  PROVE  ContinuityStays
<1>1. "continuity" \in Stores \ {store}
  BY DEF Stores, Settings
<1>2. ASSUME NEW served, NEW pair, Put(store, served, pair)
      PROVE  ContinuityStays
  BY <1>1, <1>2, PutStores DEF ContinuityStays
<1>3. ASSUME NEW pair, End(store, pair)
      PROVE  ContinuityStays
  BY <1>1, <1>3, EndStores DEF ContinuityStays
<1>. QED
  BY <1>2, <1>3 DEF Persist, Save, RefuseSave, CutSave

LEMMA FaultLeaves ==
  ASSUME StoresOK,
         \/ UNCHANGED storeVars
         \/ Fault /\ UNCHANGED <<stores, phase>>
         \/ Fault /\ End(RoomStore, Files(RoomStore))
  PROVE  ContinuityStays
<1>1. RoomStore \in Stores /\ "continuity" \in Stores \ {RoomStore}
  BY DEF Stores, Settings, RoomStore
<1>2. CASE End(RoomStore, Files(RoomStore))
  BY <1>1, <1>2, EndStores DEF ContinuityStays
<1>3. CASE UNCHANGED stores
  BY <1>3 DEF ContinuityStays, Files
<1>. QED
  BY <1>2, <1>3 DEF storeVars

LEMMA ChangeLeaves ==
  ASSUME StoresOK, NEW answer, NEW result, Change(answer, result)
  PROVE  ContinuityStays
<1>1. RoomStore \in Stores \ {"continuity"}
  BY DEF Stores, RoomStore
<1>. QED
  BY <1>1, PersistLeaves, FaultLeaves DEF Change

LEMMA StoreLeaves ==
  ASSUME StoresOK, NEW store \in Stores \ {"continuity"}, NEW value,
         Store(store, value) \/ Skip
  PROVE  ContinuityStays
BY PersistLeaves, FaultLeaves DEF Store, Skip

\* Steps that write no message of the window and nothing about a session.
Aside == UNCHANGED <<posts, sessions>> /\ ContinuityStays

LEMMA CommandsAside ==
  ASSUME StoresOK,
         \/ Create \/ Rename \/ Join \/ Leave \/ Delete
         \/ ExportRooms \/ PreviewBackup \/ RestoreBackup
         \/ OpenDialog \/ CloseDialog \/ AskGemini \/ BridgeReply \/ McpPost \/ UNCHANGED vars
  PROVE  Aside
<1>1. RoomStore \in Stores \ {"continuity"} /\ "workspaces" \in Stores \ {"continuity"}
  BY DEF Stores, Settings, RoomStore
<1>2. CASE Create \/ Rename \/ Join \/ Leave \/ Delete
  <2>1. PICK answer : RoomCommand(answer)
    BY <1>2 DEF Create, Rename, Join, Leave, Delete
  <2>2. UNCHANGED <<posts, sessions>>
    BY <2>1 DEF RoomCommand, outside
  <2>. QED
    BY <2>1, <2>2, ChangeLeaves DEF RoomCommand, Aside
<1>3. CASE \/ ExportRooms \/ PreviewBackup \/ OpenDialog \/ AskGemini \/ UNCHANGED vars
  <2>1. UNCHANGED <<posts, sessions>>
    BY <1>3 DEF ExportRooms, PreviewBackup, OpenDialog, AskGemini, vars, outside
  <2>2. UNCHANGED storeVars \/ (Fault /\ End(RoomStore, Files(RoomStore)))
    BY <1>3 DEF ExportRooms, PreviewBackup, OpenDialog, AskGemini, vars
  <2>. QED
    BY <2>1, <2>2, FaultLeaves DEF Aside
<1>4. CASE RestoreBackup
  <2>1. UNCHANGED <<posts, sessions>>
    BY <1>4 DEF RestoreBackup, outside
  <2>2. PICK value, result : Persist(RoomStore, value, result)
    BY <1>4 DEF RestoreBackup
  <2>. QED
    BY <1>1, <2>1, <2>2, PersistLeaves DEF Aside
<1>5. CASE CloseDialog
  <2>1. UNCHANGED <<posts, sessions>>
    BY <1>5 DEF CloseDialog, outside
  <2>2. UNCHANGED storeVars \/ \E value, result : Persist("workspaces", value, result)
    BY <1>5 DEF CloseDialog
  <2>. QED
    BY <1>1, <2>1, <2>2, PersistLeaves, FaultLeaves DEF Aside
<1>6. CASE BridgeReply \/ McpPost
  <2>1. UNCHANGED <<posts, sessions>>
    BY <1>6 DEF BridgeReply, McpPost, outside
  <2>2. \E answer, result : Change(answer, result)
    BY <1>6 DEF BridgeReply, McpPost
  <2>. QED
    BY <2>1, <2>2, ChangeLeaves DEF Aside
<1>. QED
  BY <1>2, <1>3, <1>4, <1>5, <1>6

LEMMA SettingsAside ==
  ASSUME StoresOK,
         \/ ConductorStatus \/ ChooseConductor \/ SetMode \/ DismissConductor
         \/ SaveAppearance \/ ChooseBackupDirectory \/ SaveProfile \/ ClearFolder
  PROVE  Aside
<1>1. {"conductors", "appearance", "backup_directory", "profiles", "workspaces"}
        \subseteq Stores \ {"continuity"}
  BY DEF Stores, Settings
<1>2. ASSUME NEW store \in {"conductors", "appearance", "backup_directory", "profiles",
                            "workspaces"},
             NEW value, Store(store, value) \/ Skip
      PROVE  Aside
  <2>1. ContinuityStays
    BY <1>1, <1>2, StoreLeaves
  <2>2. UNCHANGED <<posts, sessions>>
    BY <1>2 DEF Store, Skip, outside
  <2>. QED
    BY <2>1, <2>2 DEF Aside
<1>3. ASSUME NEW r, ClearConductor(r)
      PROVE  Aside
  BY <1>2, <1>3 DEF ClearConductor
<1>4. CASE ConductorStatus \/ DismissConductor
  BY <1>3, <1>4 DEF ConductorStatus, DismissConductor
<1>5. CASE ChooseConductor
  BY <1>2, <1>5 DEF ChooseConductor
<1>6. CASE SetMode
  BY <1>2, <1>3, <1>6 DEF SetMode
<1>7. CASE SaveAppearance \/ ChooseBackupDirectory \/ SaveProfile \/ ClearFolder
  BY <1>2, <1>7 DEF SaveAppearance, ChooseBackupDirectory, SaveProfile, ClearFolder
<1>. QED
  BY <1>4, <1>5, <1>6, <1>7

LEMMA LifeAside ==
  ASSUME StoresOK, Start \/ Stop
  PROVE  Aside
<1>1. UNCHANGED <<posts, sessions>>
  BY DEF Start, Stop, outside
<1>. SUFFICES ContinuityStays
  BY <1>1 DEF Aside
<1>2. /\ RoomStore \in Stores /\ "profiles" \in Stores
      /\ "continuity" \in Stores \ {RoomStore, "profiles"}
  BY DEF Stores, Settings, RoomStore
<1>3. ASSUME NEW store \in {RoomStore, "profiles"}, NEW value, NEW new, NEW next,
             LoadAfterWrite(store, value, new, next)
      PROVE  ContinuityStays
  <2>1. store \in Stores /\ "continuity" \in Stores \ {store}
    BY <1>2
  <2>2. ASSUME NEW served, NEW pair, Put(store, served, pair)
        PROVE  ContinuityStays
    BY <2>1, <2>2, PutStores DEF ContinuityStays
  <2>3. ASSUME NEW pair, End(store, pair)
        PROVE  ContinuityStays
    BY <2>1, <2>3, EndStores DEF ContinuityStays
  <2>. QED
    BY <1>3, <2>2, <2>3 DEF LoadAfterWrite
<1>4. CASE PrepareRooms \/ MigrateProfiles \/ CommitRooms
  <2>1. \E store \in {RoomStore, "profiles"} : \E value, new, next :
          LoadAfterWrite(store, value, new, next)
    BY <1>4, Zenon DEF PrepareRooms, MigrateProfiles, CommitRooms
  <2>. QED
    BY <1>3, <2>1
<1>5. CASE LoadSettings
  <2>1. \A s \in Stores : Files(s)' = Files(s)
    BY <1>5 DEF LoadSettings, Files, StoresOK
  <2>. QED
    BY <1>2, <2>1 DEF ContinuityStays
<1>6. CASE Crash
  BY <1>6, FaultLeaves DEF Crash
<1>7. ASSUME NEW s \in Stores, Damage(s)
      PROVE  ContinuityStays
  <2>1. s # "continuity" /\ stores' = [stores EXCEPT ![s].files.primary = Damaged]
    BY <1>7 DEF Damage
  <2>. QED
    BY <1>2, <2>1 DEF Files, ContinuityStays, StoresOK
<1>. QED
  BY <1>4, <1>5, <1>6, <1>7 DEF Start, Stop

LEMMA TurnsAside ==
  ASSUME StoresOK, FoldersInv,
         \/ AskCodex \/ CodexReads \/ CodexCreates \/ CodexReplaces \/ FinishReplacing
         \/ OwnerEdits \/ IngestImage \/ CodexFails \/ SaveReply \/ SaveImage
  PROVE  Aside
<1>1. CASE AskCodex \/ CodexReads \/ OwnerEdits \/ IngestImage \/ CodexFails
  <2>1. UNCHANGED <<posts, sessions>>
    BY <1>1 DEF AskCodex, CodexReads, ToolCall, OwnerEdits, IngestImage, CodexFails
  <2>2. \/ UNCHANGED storeVars
        \/ Fault /\ UNCHANGED <<stores, phase>>
        \/ Fault /\ End(RoomStore, Files(RoomStore))
    BY <1>1 DEF AskCodex, CodexReads, OwnerEdits, IngestImage, CodexFails
  <2>. QED
    BY <2>1, <2>2, FaultLeaves DEF Aside
<1>2. CASE CodexCreates \/ CodexReplaces \/ FinishReplacing \/ SaveImage
  <2>1. UNCHANGED <<posts, sessions>>
    <3>1. CASE CodexCreates \/ CodexReplaces
      <4>1. PICK tool, p : ToolCall(tool, p)
        BY <3>1, Zenon DEF CodexCreates, CodexReplaces
      <4>. QED
        BY <4>1 DEF ToolCall
    <3>2. CASE FinishReplacing \/ SaveImage
      BY <3>2 DEF FinishReplacing, SaveImage
    <3>. QED
      BY <1>2, <3>1, <3>2
  <2>2. ContinuityStays
    BY <1>2, WritersFollow, FaultLeaves
  <2>. QED
    BY <2>1, <2>2 DEF Aside
<1>3. CASE SaveReply
  <2>1. UNCHANGED <<posts, sessions>>
    BY <1>3 DEF SaveReply, outside
  <2>2. \E answer, result : Change(answer, result)
    BY <1>3 DEF SaveReply
  <2>. QED
    BY <2>1, <2>2, ChangeLeaves DEF Aside
<1>. QED
  BY <1>1, <1>2, <1>3

-----------------------------------------------------------------------------
(* The Rooms grow by new messages.                                          *)

LEMMA WriteGrows ==
  ASSUME MarksAreNoValues, DesktopInv, DesktopInv', ProfilesInv, posts \in Nat, WriteMessage
  PROVE  HistoryGrows /\ UNCHANGED sessions /\ ContinuityStays
<1>1. PICK r, p, result :
        LET m == Message(<<"owner", posts + 1>>, r, OwnerOf(Rooms), {p}, "text", FALSE, {})
        IN Change(AppendMessage(Rooms, m), result)
           /\ posts' = IF result = "refused" THEN posts ELSE posts + 1
  BY DEF WriteMessage
<1>. DEFINE m == Message(<<"owner", posts + 1>>, r, OwnerOf(Rooms), {p}, "text", FALSE, {})
<1>2. /\ Change(AppendMessage(Rooms, m), result)
      /\ posts' = IF result = "refused" THEN posts ELSE posts + 1
  BY <1>1
<1>3. "images" \in DOMAIN m /\ m.id = <<"owner", posts + 1>>
  BY DEF Message
<1>4. phase \in {"committed", "running"} /\ UNCHANGED backups /\ UNCHANGED sessions
  BY DEF WriteMessage, Does, outside
<1>. HIDE DEF m
<1>5. CASE result = "refused"
  <2>1. RoomsGrow({})
    BY <1>2, <1>3, <1>4, <1>5, RefusedGrows
  <2>. QED
    BY <1>2, <1>4, <1>5, <2>1, QuietHistory, ChangeLeaves DEF DesktopInv, StoreInv
<1>6. CASE result # "refused"
  <2>1. RoomsGrow({m})
    BY <1>2, <1>3, <1>4, PostGrows
  <2>2. posts' = posts + 1
    BY <1>2, <1>6
  <2>3. \A x \in {m} : NewMessage(x, posts, posts')
    BY <1>3, <2>2 DEF NewMessage
  <2>4. HistoryGrows
    BY <2>1, <2>2, <2>3 DEF HistoryGrows
  <2>. QED
    BY <1>2, <1>4, <2>4, ChangeLeaves DEF DesktopInv, StoreInv
<1>. QED
  BY <1>5, <1>6

\* A reply, or the message of an MCP client, may be in some version already.
LEMMA RepliesGrow ==
  ASSUME MarksAreNoValues, DesktopInv, DesktopInv', ProfilesInv, posts' = posts,
         BridgeReply \/ SaveReply \/ McpPost
  PROVE  HistoryGrows
<1>1. ASSUME NEW m, ~FromWindow(m.id), "images" \in DOMAIN m, NEW result,
             Change(AppendMessage(Rooms, m), result)
      PROVE  HistoryGrows
  <2>1. phase \in {"committed", "running"} /\ UNCHANGED backups
    BY DEF BridgeReply, SaveReply, McpPost, Does, At, outside
  <2>2. RoomsGrow({m})
    BY <1>1, <2>1, PostGrows
  <2>3. \A x \in {m} : NewMessage(x, posts, posts')
    BY <1>1 DEF NewMessage
  <2>. QED
    BY <2>2, <2>3 DEF HistoryGrows
<1>2. CASE BridgeReply
  <2>. DEFINE q == NextQuestion(outbox)
  <2>1. PICK result, human :
          Change(AppendMessage(Rooms, SearchReply(q, Gemini, human, "text")), result)
    BY <1>2 DEF BridgeReply
  <2>. DEFINE m == SearchReply(q, Gemini, human, "text")
  <2>2. m.id = SearchReplyId(q.id) /\ "images" \in DOMAIN m
    BY DEF SearchReply
  <2>. HIDE DEF m
  <2>3. ~FromWindow(m.id)
    BY <2>2 DEF SearchReplyId, FromWindow
  <2>4. Change(AppendMessage(Rooms, m), result)
    BY <2>1 DEF m
  <2>. QED
    BY <1>1, <2>2, <2>3, <2>4
<1>3. CASE SaveReply
  <2>. DEFINE m == Message(CodexReplyId(turn.source), turn.room, Codex, {turn.human}, "text", FALSE,
                           turn.images)
  <2>1. PICK result : Change(AppendMessage(Rooms, m), result)
    BY <1>3 DEF SaveReply
  <2>2. m.id = CodexReplyId(turn.source) /\ "images" \in DOMAIN m
    BY DEF Message
  <2>. HIDE DEF m
  <2>3. ~FromWindow(m.id)
    BY <2>2 DEF CodexReplyId, FromWindow
  <2>. QED
    BY <1>1, <2>1, <2>2, <2>3
<1>4. CASE McpPost
  <2>1. PICK q, r, o, p, result :
          Change(AppendMessage(Rooms, Message(<<"mcp", q>>, r, o, {p}, "text", TRUE, {})), result)
    BY <1>4 DEF McpPost
  <2>. DEFINE m == Message(<<"mcp", q>>, r, o, {p}, "text", TRUE, {})
  <2>2. m.id = <<"mcp", q>> /\ "images" \in DOMAIN m
    BY DEF Message
  <2>. HIDE DEF m
  <2>3. ~FromWindow(m.id)
    BY <2>2 DEF FromWindow
  <2>4. Change(AppendMessage(Rooms, m), result)
    BY <2>1 DEF m
  <2>. QED
    BY <1>1, <2>2, <2>3, <2>4
<1>. QED
  BY <1>2, <1>3, <1>4

\* Every other step adds no message.
LEMMA OthersGrow ==
  ASSUME MarksAreNoValues, ServiceInv, DesktopInv', [Next]_vars, posts' = posts,
         ~(WriteMessage \/ McpPost \/ BridgeReply \/ SaveReply)
  PROVE  HistoryGrows
<1>1. DesktopInv /\ ProfilesInv /\ FoldersInv
  BY DEF ServiceInv
<1>2. CASE Create \/ Rename \/ Join \/ Leave \/ Delete
  <2>1. Move /\ (Rearranged \/ ServedRooms' = ServedRooms)
    BY <1>1, <1>2, RoomCommandsFollow
  <2>. QED
    BY <2>1, ArrangedGrow, QuietHistory DEF Versions
<1>3. CASE RestoreBackup
  <2>1. Move /\ ServedRooms' \in {ServedRooms} \cup ExportedRooms
    BY <1>1, <1>3, RestoreFollows
  <2>. QED
    BY <2>1, ArrangedGrow, QuietHistory DEF Versions
<1>4. CASE Upkeep
  BY <1>4, UpkeepGrows, QuietHistory
<1>5. CASE ExportRooms
  BY <1>1, <1>4, <1>5, ExportFollows
<1>6. CASE \/ ConductorStatus \/ ChooseConductor \/ SetMode \/ DismissConductor
           \/ SaveAppearance \/ ChooseBackupDirectory \/ SaveProfile
           \/ ClearFolder \/ ResetContinuity
  BY <1>1, <1>4, <1>6, SettingsFollow
<1>7. CASE CommitContinuity \/ CloseDialog
  BY <1>1, <1>4, <1>7, BindingsFollow
<1>8. CASE \/ PreviewBackup \/ OpenDialog \/ AskGemini \/ AskCodex \/ CodexReads
           \/ CodexFails \/ CodexAnswers \/ IngestImage \/ UNCHANGED vars
  BY <1>1, <1>4, <1>8, OthersFollow
<1>9. CASE Start \/ Stop
  BY <1>1, <1>4, <1>9, StartsFollow, StopsFollow
<1>10. CASE CodexCreates \/ CodexReplaces \/ FinishReplacing \/ SaveImage
  <2>1. /\ UNCHANGED backups
        /\ \/ UNCHANGED storeVars
           \/ Fault /\ UNCHANGED <<stores, phase>>
           \/ Fault /\ End(RoomStore, Files(RoomStore))
    BY <1>1, <1>10, WritersFollow
  <2>2. Upkeep
    BY <1>1, <2>1, QuietFollows
  <2>. QED
    BY <1>4, <2>2
<1>11. CASE OwnerEdits
  <2>1. UNCHANGED <<storeVars, backups>>
    BY <1>11 DEF OwnerEdits
  <2>2. Upkeep
    BY <1>1, <2>1, QuietFollows
  <2>. QED
    BY <1>4, <2>2
<1>. QED
  BY <1>2, <1>3, <1>5, <1>6, <1>7, <1>8, <1>9, <1>10, <1>11 DEF Next

-----------------------------------------------------------------------------
(* Turns and sessions.                                                      *)

\* A change of the turn that leaves its room, source and plan.
LEMMA StepOfTurn ==
  ASSUME HistoryOK, turn.step # "idle", DOMAIN turn' = DOMAIN turn,
         turn'.room = turn.room, turn'.source = turn.source, turn'.plan = turn.plan,
         \/ {turn.step, turn'.step} \subseteq {"asked", "replacing"}
         \/ {turn.step, turn'.step} \subseteq {"answered", "saved"}
  PROVE  TurnGoesOn
BY DEF TurnGoesOn

LEMMA TurnsGoOn ==
  ASSUME HistoryOK,
         \/ IngestImage \/ CodexReads \/ CodexFails \/ SaveReply \/ CommitContinuity \/ Start
         \/ CodexCreates \/ CodexReplaces \/ FinishReplacing \/ SaveImage \/ OwnerEdits
  PROVE  TurnGoesOn
<1>1. turn.step # "idle" => {"step", "room", "source", "plan"} \subseteq DOMAIN turn
  BY DEF HistoryOK, TurnKnows
<1>2. CASE CodexFails \/ CommitContinuity \/ Start
  BY <1>2 DEF CodexFails, CommitContinuity, Start, NoTurn, TurnGoesOn
<1>3. CASE SaveImage \/ OwnerEdits
  BY <1>3 DEF SaveImage, OwnerEdits, view, TurnGoesOn
<1>4. CASE IngestImage
  <2>1. turn' = [turn EXCEPT !.images = {"image"}] \/ turn' = turn
    BY <1>4 DEF IngestImage
  <2>2. turn.step = "asked"
    BY <1>4 DEF IngestImage, At
  <2>. QED
    BY <1>1, <2>1, <2>2, StepOfTurn DEF TurnGoesOn
<1>5. CASE CodexReads
  <2>1. PICK x : turn' = [turn EXCEPT !.answer = x]
    BY <1>5 DEF CodexReads
  <2>2. turn.step = "asked"
    BY <1>5 DEF CodexReads, ToolCall, At
  <2>. QED
    BY <1>1, <2>1, <2>2, StepOfTurn
<1>6. CASE CodexCreates
  <2>1. turn' = [turn EXCEPT !.answer = "none"]
    BY <1>6 DEF CodexCreates
  <2>2. turn.step = "asked"
    BY <1>6 DEF CodexCreates, ToolCall, At
  <2>. QED
    BY <1>1, <2>1, <2>2, StepOfTurn
<1>7. CASE CodexReplaces
  <2>1. PICK p : turn' = [turn EXCEPT !.step = "replacing", !.path = p, !.answer = "none"]
    BY <1>7, Zenon DEF CodexReplaces
  <2>2. turn.step = "asked"
    BY <1>7, Zenon DEF CodexReplaces, ToolCall, At
  <2>. DEFINE moving == [turn EXCEPT !.step = "replacing", !.path = p]
  <2>3. turn' = [moving EXCEPT !.answer = "none"]
    BY <2>1, Zenon DEF moving
  <2>4. /\ DOMAIN moving = DOMAIN turn /\ moving.step = "replacing"
        /\ moving.room = turn.room /\ moving.source = turn.source /\ moving.plan = turn.plan
    BY <1>1, <2>2
  <2>. HIDE DEF moving
  <2>5. /\ DOMAIN turn' = DOMAIN turn /\ turn'.step = "replacing"
        /\ turn'.room = turn.room /\ turn'.source = turn.source /\ turn'.plan = turn.plan
    BY <1>1, <2>2, <2>3, <2>4
  <2>. QED
    BY <2>2, <2>5, StepOfTurn
<1>8. CASE FinishReplacing
  <2>1. turn' = [turn EXCEPT !.step = "asked", !.path = <<>>] /\ turn.step = "replacing"
    BY <1>8 DEF FinishReplacing, At
  <2>2. /\ DOMAIN turn' = DOMAIN turn /\ turn'.step = "asked"
        /\ turn'.room = turn.room /\ turn'.source = turn.source /\ turn'.plan = turn.plan
    BY <1>1, <2>1
  <2>. QED
    BY <2>1, <2>2, StepOfTurn
<1>9. CASE SaveReply
  <2>1. turn.step = "answered"
    BY <1>9 DEF SaveReply, At
  <2>2. turn' = [turn EXCEPT !.step = "saved"] \/ turn' = NoTurn
    BY <1>9 DEF SaveReply, Goto
  <2>. QED
    BY <1>1, <2>1, <2>2, StepOfTurn DEF TurnGoesOn, NoTurn
<1>. QED
  BY <1>2, <1>3, <1>4, <1>5, <1>6, <1>7, <1>8, <1>9

\* What is known of the message that is asked, in one version of its Room, is known
\* in all of them.
LEMMA KnownEverywhere ==
  ASSUME NEW versions, OnePast(versions), NEW v \in versions, NEW r \in DOMAIN v,
         NEW n \in Nat, LogsOK(versions, n), NEW k \in DOMAIN v[r].log, FromWindow(v[r].log[k].id),
         NEW known, \A j \in 1..k : v[r].log[j].author = Codex \/ v[r].log[j].id \in known
  PROVE  KnownIn(versions, r, v[r].log[k].id, known)
<1>. DEFINE source == v[r].log[k].id
<1>1. ASSUME NEW w \in versions, r \in DOMAIN w, NEW i \in DOMAIN w[r].log,
             w[r].log[i].id = source, NEW j \in 1..i
      PROVE  w[r].log[j].author = Codex \/ w[r].log[j].id \in known
  <2>1. SamePast(v[r].log, w[r].log)
    BY <1>1 DEF OnePast
  <2>2. /\ k = i
        /\ \A x \in 1..k : /\ v[r].log[x].id = w[r].log[x].id
                           /\ v[r].log[x].author = Codex <=> w[r].log[x].author = Codex
    BY <1>1, <2>1 DEF SamePast
  <2>. QED
    BY <1>1, <2>2
<1>. QED
  BY <1>1 DEF KnownIn, Knows

\* The stored continuations that are served are those of a file.
LEMMA ServedContinuations ==
  ASSUME DesktopInv, phase = "running"
  PROVE  Served("continuity") \in Continuations \cup {<<>>}
<1>1. "continuity" \in Settings /\ "continuity" \in Stores
  BY DEF Settings, Stores
<1>2. SettingServed("continuity")
  BY <1>1 DEF DesktopInv, StoreInv, SettingsServed
<1>3. Served("continuity") = ReadValue("continuity", Files("continuity"))
  BY <1>2 DEF SettingServed, LostPrimary, NeedsPrimary
<1>4. DefaultOf("continuity") = <<>>
  BY DEF DefaultOf, RoomStore
<1>5. ReadFile("continuity", Files("continuity"))
        \in {Files("continuity").primary, Files("continuity").backup}
  <2>1. NoBackupForDamage("continuity") /\ ~NeedsPrimary("continuity")
    BY DEF NoBackupForDamage, NeedsPrimary
  <2>2. ReadFile("continuity", Files("continuity")) = Loaded(Files("continuity"))
    BY <2>1 DEF ReadFile
  <2>. QED
    BY <2>2 DEF Loaded
<1>. QED
  BY <1>3, <1>4, <1>5 DEF ReadValue, Continuations, FilesOf

LEMMA ServedContinuationOK ==
  ASSUME DesktopInv, phase = "running", HistoryOK
  PROVE  ContinuationOK(Served("continuity"), Versions, posts, sessions)
<1>1. CASE Served("continuity") = <<>>
  <2>1. DOMAIN Served("continuity") = {}
    BY <1>1
  <2>. QED
    BY <2>1 DEF ContinuationOK
<1>2. CASE Served("continuity") \in Continuations
  BY <1>2 DEF HistoryOK
<1>. QED
  BY <1>1, <1>2, ServedContinuations

\* The positions before a message: none of its ID are elsewhere in the log.
LEMMA OnePosition ==
  ASSUME NEW room, IsLog(room.log), SamePast(room.log, room.log),
         NEW k \in DOMAIN room.log, FromWindow(room.log[k].id)
  PROVE  IndexIn(room, room.log[k].id) = k /\ k \in Nat \ {0}
<1>1. DOMAIN room.log = 1..Len(room.log) /\ Len(room.log) \in Nat
  BY DEF IsLog
<1>2. \A i \in 1..Len(room.log) : room.log[i].id = room.log[k].id => i = k
  BY <1>1 DEF SamePast
<1>. QED
  BY <1>1, <1>2 DEF IndexIn

\* A turn is told, or its session knows, all that others wrote before its source.
LEMMA PlanKnows ==
  ASSUME NEW room, IsLog(room.log), SamePast(room.log, room.log),
         NEW k \in DOMAIN room.log, FromWindow(room.log[k].id),
         NEW c, NEW continuation \in {<<>>, <<c>>}, NEW environment, NEW known,
         continuation # <<>> => Knows(room.log, c.cursor, known)
  PROVE  LET source == room.log[k].id
             plan == Plan(room, source, Codex, continuation, environment)
         IN /\ "session" \in DOMAIN plan
            /\ \/ /\ plan.session = 0
                  /\ \A j \in 1..k : room.log[j].id \in MakesKnown(Prompt(plan, source))
               \/ /\ continuation = <<c>> /\ plan.session = c.session
                  /\ \A j \in 1..(k - 1) :
                       \/ room.log[j].author = Codex
                       \/ room.log[j].id \in known \cup plan.told
                  /\ source \in MakesKnown(Prompt(plan, source))
                  /\ plan.told \subseteq MakesKnown(Prompt(plan, source))
<1>. DEFINE source == room.log[k].id
            plan == Plan(room, source, Codex, continuation, environment)
<1>1. IndexIn(room, source) = k /\ k \in Nat \ {0}
  BY OnePosition
<1>. HIDE DEF source
<1>2. CASE ~Resumes(room, source, Codex, continuation, environment)
  <2>1. PICK start \in {0, k - 1 - MaxContext} :
          /\ start <= k - 1 /\ start \in Nat
          /\ plan = [session |-> 0,
                     told |-> IdsAt(room, (start + 1)..(k - 1)),
                     omitted |-> IdsAt(room, 1..start)]
    <3>. DEFINE start == IF k - 1 > MaxContext THEN k - 1 - MaxContext ELSE 0
    <3>1. /\ start \in {0, k - 1 - MaxContext} /\ start <= k - 1 /\ start \in Nat
      BY <1>1, RoomContextConstants
    <3>2. plan = [session |-> 0,
                  told |-> IdsAt(room, (start + 1)..(k - 1)),
                  omitted |-> IdsAt(room, 1..start)]
      BY <1>1, <1>2 DEF Plan
    <3>. QED
      BY <3>1, <3>2
  <2>. HIDE DEF plan
  <2>2. MakesKnown(Prompt(plan, source)) = plan.told \cup plan.omitted \cup {source}
    BY DEF MakesKnown, Prompt
  <2>3. ASSUME NEW j \in 1..k
        PROVE  room.log[j].id \in MakesKnown(Prompt(plan, source))
    <3>1. j \in 1..start \/ j \in (start + 1)..(k - 1) \/ j = k
      BY <1>1, <2>1
    <3>2. CASE j \in 1..start
      BY <2>1, <2>2, <3>2 DEF IdsAt
    <3>3. CASE j \in (start + 1)..(k - 1)
      BY <2>1, <2>2, <3>3 DEF IdsAt
    <3>4. CASE j = k
      BY <2>2, <3>4 DEF source
    <3>. QED
      BY <3>1, <3>2, <3>3, <3>4
  <2>. QED
    BY <2>1, <2>3 DEF plan, source
<1>3. CASE Resumes(room, source, Codex, continuation, environment)
  <2>. DEFINE at == IndexIn(room, c.cursor)
              others == Since(room, c.cursor, source, Codex)
  <2>1. continuation = <<c>> /\ at \in 1..(k - 1)
    <3>1. PICK i \in DOMAIN continuation :
            IndexIn(room, continuation[i].cursor) \in 1..(k - 1)
      BY <1>1, <1>3 DEF Resumes
    <3>2. continuation = <<c>> /\ i = 1
      BY <3>1
    <3>. QED
      BY <3>1, <3>2
  <2>2. at \in DOMAIN room.log /\ room.log[at].id = c.cursor
    <3>1. \E x \in 1..Len(room.log) : room.log[x].id = c.cursor
      BY <2>1 DEF IndexIn
    <3>2. at \in 1..Len(room.log) /\ room.log[at].id = c.cursor
      BY <3>1 DEF IndexIn
    <3>. QED
      BY <3>2 DEF IsLog
  <2>3. others = {x \in (at + 1)..(k - 1) : room.log[x].author # Codex}
    BY <1>1 DEF Since
  <2>4. plan = [session |-> c.session, told |-> IdsAt(room, others), omitted |-> {}]
    BY <1>3, <2>1 DEF Plan
  <2>5. \A j \in 1..at : room.log[j].author = Codex \/ room.log[j].id \in known
    BY <2>1, <2>2 DEF Knows
  <2>. HIDE DEF at, others, plan
  <2>6. ASSUME NEW j \in 1..(k - 1)
        PROVE  room.log[j].author = Codex \/ room.log[j].id \in known \cup plan.told
    <3>1. j \in 1..at \/ j \in (at + 1)..(k - 1)
      BY <1>1, <2>1
    <3>2. CASE j \in 1..at
      BY <2>5, <3>2
    <3>3. CASE j \in (at + 1)..(k - 1)
      <4>1. CASE room.log[j].author # Codex
        <5>1. j \in others
          BY <2>3, <3>3, <4>1
        <5>. QED
          BY <2>4, <5>1 DEF IdsAt
      <4>. QED
        BY <4>1
    <3>. QED
      BY <3>1, <3>2, <3>3
  <2>7. MakesKnown(Prompt(plan, source)) = plan.told \cup plan.omitted \cup {source}
    BY DEF MakesKnown, Prompt
  <2>8. /\ "session" \in DOMAIN plan
        /\ continuation = <<c>> /\ plan.session = c.session
    BY <2>1, <2>4
  <2>9. /\ \A j \in 1..(k - 1) :
             room.log[j].author = Codex \/ room.log[j].id \in known \cup plan.told
        /\ source \in MakesKnown(Prompt(plan, source))
        /\ plan.told \subseteq MakesKnown(Prompt(plan, source))
    BY <2>6, <2>7
  <2>. QED
    BY <2>8, <2>9 DEF plan, source
<1>. QED
  BY <1>2, <1>3 DEF source

LEMMA AskFollows ==
  ASSUME MarksAreNoValues, DesktopInv, HistoryOK, AskCodex
  PROVE  /\ TurnKnows(turn', Versions, posts, sessions)
         /\ turn'.plan.session # 0
              => ByOthers(Rooms.rooms[turn'.room], turn'.source, Codex)
                   \subseteq sessions[turn'.plan.session] \cup turn'.plan.told
<1>. DEFINE Stored(r) == IF Mem("continuity", r) THEN <<Served("continuity")[r]>> ELSE <<>>
<1>1. phase = "running"
  BY DEF AskCodex, Command, Does
<1>2. Rooms.rooms = ServedRooms /\ UpToDate(Rooms) /\ ServedRooms \in Versions
  BY <1>1, ServedIsRooms DEF Versions
<1>3. PICK m, environment :
        /\ m \in Messages(Rooms) /\ CanAsk(m, Codex)
        /\ turn'.step = "asked" /\ {"step", "room", "source", "plan"} \subseteq DOMAIN turn'
        /\ turn'.room = m.room /\ turn'.source = m.id
        /\ turn'.plan = Plan(Rooms.rooms[m.room], m.id, Codex, Stored(m.room), environment)
  <2>1. PICK m \in Messages(Rooms) :
          LET access == TurnAccess(m.room)
              environment == EnvironmentOf(ProfileOf(Codex), FolderOf(m.room))
          IN /\ CanAsk(m, Codex)
             /\ turn' = [step |-> "asked", room |-> m.room, source |-> m.id, human |-> m.author,
                         environment |-> environment, images |-> {},
                         access |-> access, folder |-> FolderOf(m.room), path |-> <<>>,
                         answer |-> "none",
                         plan |-> Plan(Rooms.rooms[m.room], m.id, Codex, Stored(m.room),
                                       environment)]
    BY DEF AskCodex
  <2>2. /\ turn'.step = "asked" /\ {"step", "room", "source", "plan"} \subseteq DOMAIN turn'
        /\ turn'.room = m.room /\ turn'.source = m.id
        /\ turn'.plan = Plan(Rooms.rooms[m.room], m.id, Codex, Stored(m.room),
                             EnvironmentOf(ProfileOf(Codex), FolderOf(m.room)))
    BY <2>1
  <2>. QED
    BY <2>1, <2>2
<1>. DEFINE r == m.room
            log == ServedRooms[r].log
            c == Served("continuity")[r]
            known == sessions[c.session]
            plan == turn'.plan
            makes == MakesKnown(Prompt(plan, m.id))
<1>4. PICK k \in DOMAIN log : r \in DOMAIN ServedRooms /\ m = log[k]
  <2>1. PICK q \in DOMAIN ServedRooms : m \in ToSet(ServedRooms[q].log)
    BY <1>2, <1>3 DEF Messages, MessagesIn, RoomIds
  <2>2. PICK k \in DOMAIN ServedRooms[q].log : m = ServedRooms[q].log[k]
    BY <2>1 DEF ToSet
  <2>3. m.room = q
    BY <1>2, <2>2 DEF HistoryOK, LogsOK, LogOK
  <2>. QED
    BY <2>2, <2>3
<1>5. /\ LogOK(log, r, posts) /\ SamePast(log, log) /\ posts \in Nat
      /\ LogsOK(Versions, posts) /\ OnePast(Versions)
  BY <1>2, <1>4 DEF HistoryOK, LogsOK, OnePast
<1>6. IsSource(m.id, posts)
  BY <1>3, <1>4, <1>5 DEF CanAsk, LogOK, IsSource
<1>7. /\ Stored(r) \in {<<>>, <<c>>}
      /\ Stored(r) # <<>> => c.session \in DOMAIN sessions /\ Knows(log, c.cursor, known)
  <2>1. ContinuationOK(Served("continuity"), Versions, posts, sessions)
    BY <1>1, ServedContinuationOK
  <2>2. CASE Mem("continuity", r)
    BY <1>2, <1>4, <2>1, <2>2 DEF ContinuationOK, KnownIn, Mem
  <2>3. CASE ~Mem("continuity", r)
    BY <2>3
  <2>. QED
    BY <2>2, <2>3
<1>. HIDE DEF Stored, c, known, plan, log, r
<1>8. /\ "session" \in DOMAIN plan
      /\ \/ /\ plan.session = 0
            /\ \A j \in 1..k : log[j].id \in makes
         \/ /\ c.session \in DOMAIN sessions /\ plan.session = c.session
            /\ \A j \in 1..(k - 1) : log[j].author = Codex \/ log[j].id \in known \cup plan.told
            /\ m.id \in makes /\ plan.told \subseteq makes
  <2>. DEFINE room == ServedRooms[r]
              source == room.log[k].id
              planned == Plan(room, source, Codex, Stored(r), environment)
  <2>1. room.log = log /\ IsLog(room.log) /\ m.id = source /\ FromWindow(source)
    BY <1>4, <1>5, <1>6 DEF log, LogOK, IsSource
  <2>2. plan = planned
    BY <1>2, <1>3, <2>1 DEF plan, r
  <2>3. SamePast(room.log, room.log) /\ k \in DOMAIN room.log
    BY <1>4, <1>5, <2>1
  <2>4. Stored(r) # <<>> => Knows(room.log, c.cursor, known)
    BY <1>7, <2>1
  <2>. HIDE DEF room
  <2>5. /\ "session" \in DOMAIN planned
        /\ \/ /\ planned.session = 0
              /\ \A j \in 1..k : room.log[j].id \in MakesKnown(Prompt(planned, source))
           \/ /\ Stored(r) = <<c>> /\ planned.session = c.session
              /\ \A j \in 1..(k - 1) :
                   room.log[j].author = Codex \/ room.log[j].id \in known \cup planned.told
              /\ source \in MakesKnown(Prompt(planned, source))
              /\ planned.told \subseteq MakesKnown(Prompt(planned, source))
    BY <1>7, <2>1, <2>3, <2>4, PlanKnows
  <2>. HIDE DEF planned, source
  <2>6. Stored(r) = <<c>> => c.session \in DOMAIN sessions
    BY <1>7
  <2>. QED
    BY <2>1, <2>2, <2>5, <2>6
<1>9. IndexIn(ServedRooms[r], m.id) = k /\ k \in Nat \ {0}
  <2>. DEFINE room == ServedRooms[r]
  <2>1. /\ IsLog(room.log) /\ SamePast(room.log, room.log) /\ k \in DOMAIN room.log
        /\ m.id = room.log[k].id /\ FromWindow(room.log[k].id)
    BY <1>4, <1>5, <1>6 DEF log, LogOK, IsSource
  <2>. HIDE DEF room
  <2>2. IndexIn(room, m.id) = k /\ k \in Nat \ {0}
    BY <2>1, OnePosition
  <2>. QED
    BY <2>2 DEF room
<1>. HIDE DEF makes
<1>10. 0 \notin DOMAIN sessions
  BY DEF HistoryOK
\* What is known before the source in the Rooms that are served is known before it in
\* all that may still be.
<1>11. ASSUME NEW all, \A j \in 1..k : log[j].author = Codex \/ log[j].id \in all
       PROVE  KnownIn(Versions, r, m.id, all)
  BY <1>2, <1>4, <1>5, <1>6, <1>11, KnownEverywhere DEF log, IsSource
<1>12. /\ turn'.room = r /\ turn'.source = m.id /\ turn'.plan = plan
  BY <1>3 DEF r, plan
<1>13. CASE plan.session = 0 /\ \A j \in 1..k : log[j].id \in makes
  <2>1. KnownOf(plan.session, sessions) = {}
    BY <1>13 DEF KnownOf
  <2>2. KnownIn(Versions, r, m.id, {} \cup makes)
    BY <1>11, <1>13
  <2>. QED
    BY <1>3, <1>6, <1>8, <1>12, <1>13, <2>1, <2>2 DEF TurnKnows, makes
<1>14. CASE /\ c.session \in DOMAIN sessions /\ plan.session = c.session
            /\ \A j \in 1..(k - 1) : log[j].author = Codex \/ log[j].id \in known \cup plan.told
            /\ m.id \in makes /\ plan.told \subseteq makes
  <2>1. KnownOf(plan.session, sessions) = known /\ plan.session # 0
    BY <1>10, <1>14 DEF KnownOf, known
  <2>2. \A j \in 1..k : j \in 1..(k - 1) \/ j = k
    BY <1>9
  <2>3. \A j \in 1..k : log[j].author = Codex \/ log[j].id \in known \cup makes
    BY <1>4, <1>14, <2>2
  <2>4. KnownIn(Versions, r, m.id, known \cup makes)
    BY <1>11, <2>3
  <2>5. TurnKnows(turn', Versions, posts, sessions)
    BY <1>3, <1>6, <1>8, <1>12, <1>14, <2>1, <2>4 DEF TurnKnows, makes
  <2>6. ByOthers(ServedRooms[r], m.id, Codex) \subseteq known \cup plan.told
    BY <1>9, <1>14 DEF ByOthers, log
  <2>7. known = sessions[plan.session]
    BY <1>14 DEF known
  <2>. QED
    BY <1>2, <1>12, <2>5, <2>6, <2>7
<1>. QED
  BY <1>8, <1>13, <1>14

LEMMA OwnElements ==
  ASSUME NEW S, NEW f \in Seq(S)
  PROVE  f \in Seq(ToSet(f))
<1>1. f \in [1..Len(f) -> S] /\ Len(f) \in Nat
  OBVIOUS
<1>2. f \in [1..Len(f) -> ToSet(f)]
  BY <1>1 DEF ToSet
<1>. QED
  BY <1>1, <1>2

\* What Codex answered to is known to its session; no session forgets.
LEMMA AnswerFollows ==
  ASSUME HistoryOK, CodexAnswers
  PROVE  /\ sessions' \in Seq(ToSet(sessions'))
         /\ \A i \in DOMAIN sessions : i \in DOMAIN sessions' /\ sessions[i] \subseteq sessions'[i]
         /\ TurnKnows(turn', Versions, posts, sessions')
<1>. DEFINE s == turn.plan.session
            new == MakesKnown(Prompt(turn.plan, turn.source))
            S == ToSet(sessions) \cup {new} \cup {sessions[i] \cup new : i \in DOMAIN sessions}
            next == IF s = 0 THEN Len(sessions) + 1 ELSE s
<1>1. turn.step = "asked"
  BY DEF CodexAnswers, At
<1>2. /\ {"step", "room", "source", "plan"} \subseteq DOMAIN turn
      /\ "session" \in DOMAIN turn.plan /\ s \in {0} \cup DOMAIN sessions
      /\ IsSource(turn.source, posts)
      /\ KnownIn(Versions, turn.room, turn.source, KnownOf(s, sessions) \cup new)
  BY <1>1 DEF HistoryOK, TurnKnows
<1>3. /\ sessions' = IF s = 0 THEN Append(sessions, new)
                    ELSE [sessions EXCEPT ![s] = @ \cup new]
      /\ turn' = [turn EXCEPT !.step = "answered",
                     !.plan.session = IF @ = 0 THEN Len(sessions) + 1 ELSE @]
  BY DEF CodexAnswers, OpensThread
<1>4. sessions \in Seq(S) /\ new \in S
  BY SeqMonotonic DEF HistoryOK
<1>5. DOMAIN sessions = 1..Len(sessions) /\ Len(sessions) \in Nat
  BY <1>4
<1>6. /\ {"step", "room", "source", "plan"} \subseteq DOMAIN turn'
      /\ turn'.step = "answered" /\ turn'.room = turn.room /\ turn'.source = turn.source
      /\ "session" \in DOMAIN turn'.plan /\ turn'.plan.session = next
  <2>. DEFINE answered == [turn EXCEPT !.step = "answered"]
  <2>1. turn' = [answered EXCEPT !.plan.session = next]
    BY <1>2, <1>3
  <2>2. /\ DOMAIN answered = DOMAIN turn
        /\ answered.step = "answered" /\ answered.room = turn.room
        /\ answered.source = turn.source /\ answered.plan = turn.plan
    BY <1>2
  <2>. HIDE DEF answered, next
  <2>. QED
    BY <1>2, <2>1, <2>2
<1>. HIDE DEF s, new, S
<1>7. CASE s = 0
  <2>1. sessions' = Append(sessions, new)
    BY <1>3, <1>7
  <2>2. /\ sessions' \in Seq(S) /\ DOMAIN sessions' = 1..(Len(sessions) + 1)
        /\ \A i \in 1..Len(sessions) : sessions'[i] = sessions[i]
        /\ sessions'[Len(sessions) + 1] = new
    BY <1>4, <2>1
  <2>3. next = Len(sessions) + 1 /\ KnownOf(s, sessions) \cup new = new
    BY <1>7 DEF KnownOf
  <2>4. /\ next \in DOMAIN sessions' /\ next # 0
        /\ KnownIn(Versions, turn.room, turn.source, sessions'[next])
    <3>1. next \in DOMAIN sessions' /\ next # 0 /\ sessions'[next] = new
      BY <1>5, <2>2, <2>3
    <3>. HIDE DEF next
    <3>2. KnownIn(Versions, turn.room, turn.source, new)
      BY <1>2, <2>3
    <3>. QED
      BY <3>1, <3>2
  <2>5. \A i \in DOMAIN sessions : i \in DOMAIN sessions' /\ sessions[i] \subseteq sessions'[i]
    BY <1>5, <2>2
  <2>. HIDE DEF next
  <2>6. TurnKnows(turn', Versions, posts, sessions')
    BY <1>2, <1>6, <2>4 DEF TurnKnows
  <2>. QED
    BY <2>2, <2>5, <2>6, OwnElements
<1>8. CASE s # 0
  <2>1. s \in DOMAIN sessions /\ sessions' = [sessions EXCEPT ![s] = sessions[s] \cup new]
    BY <1>2, <1>3, <1>8
  <2>2. sessions[s] \cup new \in S
    BY <2>1 DEF S
  <2>3. /\ sessions' \in Seq(S) /\ DOMAIN sessions' = DOMAIN sessions
        /\ \A i \in DOMAIN sessions \ {s} : sessions'[i] = sessions[i]
        /\ sessions'[s] = sessions[s] \cup new
    BY <1>4, <1>5, <2>1, <2>2
  <2>4. next = s /\ KnownOf(s, sessions) = sessions[s]
    BY <1>8 DEF KnownOf
  <2>5. /\ next \in DOMAIN sessions' /\ next # 0
        /\ KnownIn(Versions, turn.room, turn.source, sessions'[next])
    BY <1>2, <1>8, <2>1, <2>3, <2>4
  <2>6. \A i \in DOMAIN sessions : i \in DOMAIN sessions' /\ sessions[i] \subseteq sessions'[i]
    BY <2>3
  <2>. HIDE DEF next
  <2>7. TurnKnows(turn', Versions, posts, sessions')
    BY <1>2, <1>6, <2>5 DEF TurnKnows
  <2>. QED
    BY <2>3, <2>6, <2>7, OwnElements
<1>. QED
  BY <1>7, <1>8

-----------------------------------------------------------------------------
(* The continuations that are stored.                                       *)

LEMMA ContinuityWritten ==
  ASSUME MarksAreNoValues, StoresOK, NEW value, IsFunction(value), NEW result,
         Persist("continuity", value, result)
  PROVE  Continuations' \subseteq Continuations \cup {value}
<1>. DEFINE pair == Files("continuity")
<1>1. "continuity" \in Stores /\ IsPair(pair) /\ Repairable("continuity", pair)
  BY DEF Stores, Settings, StoresOK
<1>2. value \notin {NoFile, Damaged}
  BY DEF MarksAreNoValues
<1>3. ASSUME NEW new \in WriteRefused("continuity", pair) \cup WriteCut("continuity", pair, value)
      PROVE  FilesOf(new) \subseteq FilesOf(pair) \cup {value}
  BY <1>1, <1>2, CutPairs
<1>4. Written("continuity", pair, value) \in WriteCut("continuity", pair, value)
  BY WrittenIsCut
<1>5. ASSUME NEW served, NEW new, Put("continuity", served, new)
      PROVE  Continuations' = FilesOf(new)
  BY <1>1, <1>5, PutStores DEF Continuations
<1>6. ASSUME NEW new, End("continuity", new)
      PROVE  Continuations' = FilesOf(new)
  BY <1>1, <1>6, EndStores DEF Continuations
<1>. QED
  BY <1>3, <1>4, <1>5, <1>6 DEF Persist, Save, RefuseSave, CutSave, Continuations

\* The owner forgets the session of a Room.
LEMMA ResetFollows ==
  ASSUME MarksAreNoValues, DesktopInv, HistoryOK, ResetContinuity
  PROVE  /\ UNCHANGED <<posts, sessions>>
         /\ \A f \in Continuations' :
              f \in Continuations \/ ContinuationOK(f, Versions, posts, sessions)
<1>1. phase = "running"
  BY DEF ResetContinuity, Command, Does
<1>2. StoresOK
  BY DEF DesktopInv, StoreInv
<1>3. CASE Skip
  <2>1. ContinuityStays
    BY <1>2, <1>3, FaultLeaves DEF Skip
  <2>. QED
    BY <1>3, <2>1 DEF Skip, outside, Continuations, ContinuityStays
<1>4. ASSUME NEW r, Store("continuity", Without("continuity", r))
      PROVE  /\ UNCHANGED <<posts, sessions>>
             /\ \A f \in Continuations' :
                  f \in Continuations \/ ContinuationOK(f, Versions, posts, sessions)
  <2>. DEFINE value == Without("continuity", r)
  <2>1. ContinuationOK(Served("continuity"), Versions, posts, sessions)
    BY <1>1, ServedContinuationOK
  <2>2. IsFunction(value) /\ ContinuationOK(value, Versions, posts, sessions)
    BY <2>1 DEF Without, IsFunction, ContinuationOK
  <2>. HIDE DEF value
  <2>3. PICK result : Persist("continuity", value, result)
    BY <1>4 DEF Store, value
  <2>4. Continuations' \subseteq Continuations \cup {value}
    BY <1>2, <2>2, <2>3, ContinuityWritten
  <2>. QED
    BY <1>4, <2>2, <2>4 DEF Store, outside
<1>. QED
  BY <1>3, <1>4 DEF ResetContinuity

\* The session of a turn knows what came before the source, the cursor of its Room.
LEMMA CursorFollows ==
  ASSUME MarksAreNoValues, DesktopInv, HistoryOK, CommitContinuity
  PROVE  /\ UNCHANGED <<posts, sessions>>
         /\ \A f \in Continuations' :
              f \in Continuations \/ ContinuationOK(f, Versions, posts, sessions)
<1>. DEFINE c == Continuation(turn.plan.session, Cursor(turn), turn.environment)
            stored == [q \in {turn.room} |-> c]
            value == With("continuity", turn.room, c)
<1>1. phase = "running" /\ turn.step = "saved"
  BY DEF CommitContinuity, At
<1>2. StoresOK
  BY DEF DesktopInv, StoreInv
<1>3. ContinuationOK(Served("continuity"), Versions, posts, sessions)
  BY <1>1, ServedContinuationOK
<1>4. /\ c.session \in DOMAIN sessions /\ IsSource(c.cursor, posts)
      /\ KnownIn(Versions, turn.room, c.cursor, sessions[c.session])
  BY <1>1 DEF HistoryOK, TurnKnows, Continuation, Cursor
<1>5. PICK result : Persist("continuity", value, result)
  BY DEF CommitContinuity
<1>. HIDE DEF c
<1>6. /\ IsFunction(value) /\ DOMAIN value = {turn.room} \cup DOMAIN Served("continuity")
      /\ value[turn.room] = c
      /\ \A q \in DOMAIN Served("continuity") \ {turn.room} : value[q] = Served("continuity")[q]
  <2>1. value = Over(stored, Served("continuity"))
    BY DEF With
  <2>2. DOMAIN stored = {turn.room} /\ stored[turn.room] = c
    OBVIOUS
  <2>. HIDE DEF value, stored
  <2>. QED
    BY <2>1, <2>2, OverIsFunction
<1>. HIDE DEF value
<1>7. ContinuationOK(value, Versions, posts, sessions)
  BY <1>3, <1>4, <1>6 DEF ContinuationOK
<1>8. Continuations' \subseteq Continuations \cup {value}
  BY <1>2, <1>5, <1>6, ContinuityWritten
<1>9. UNCHANGED <<posts, sessions>>
  BY DEF CommitContinuity, outside
<1>. QED
  BY <1>7, <1>8, <1>9

-----------------------------------------------------------------------------
(* The invariant holds at first and is kept.                                *)

\* What a start makes of a snapshot has the messages in sequences.
LEMMA PreparedLogs ==
  ASSUME NEW f, IsSnapshot(f)
  PROVE  \A r \in DOMAIN Prepared(f).rooms : IsLog(Prepared(f).rooms[r].log)
<1>1. CASE HasOldOwner(f)
  BY <1>1, PreparedIsUpToDate DEF HasOldOwner, UpToDate, IsSnapshot, IsRoom, RoomIds
<1>2. CASE ~HasOldOwner(f)
  <2>1. Prepared(f).rooms = Over(f.rooms, Bundled.rooms)
    BY <1>2 DEF Prepared, Merged, Normalized
  <2>2. /\ \A r \in DOMAIN f.rooms : IsLog(f.rooms[r].log)
        /\ \A r \in DOMAIN Bundled.rooms : IsLog(Bundled.rooms[r].log)
    BY BundledUpToDate DEF UpToDate, IsSnapshot, IsRoom, RoomIds
  <2>. DEFINE rooms == Over(f.rooms, Bundled.rooms)
  <2>3. /\ DOMAIN rooms = DOMAIN f.rooms \cup DOMAIN Bundled.rooms
        /\ \A r \in DOMAIN f.rooms : rooms[r] = f.rooms[r]
        /\ \A r \in DOMAIN Bundled.rooms \ DOMAIN f.rooms : rooms[r] = Bundled.rooms[r]
    BY OverIsFunction
  <2>. HIDE DEF rooms
  <2>4. \A r \in DOMAIN rooms : IsLog(rooms[r].log)
    BY <2>2, <2>3
  <2>. QED
    BY <2>1, <2>4 DEF rooms
<1>. QED
  BY <1>1, <1>2

LEMMA InitHistory ==
  ASSUME Init
  PROVE  HistoryInv
<1>1. PICK files \in Installations :
         stores = [s \in Stores |-> [memory |-> Unloaded, files |-> files[s]]]
  BY DEF Init
<1>2. posts = 0 /\ sessions = <<>> /\ turn = NoTurn /\ backups = <<>>
  BY DEF Init
<1>. DEFINE pair == files[RoomStore]
            first == {StartRooms(pair).rooms} \cup
                     (IF pair.backup = NoFile THEN {} ELSE {Prepared(pair.backup).rooms})
<1>3. /\ Served(RoomStore) = Unloaded /\ Files(RoomStore) = pair
      /\ Files("continuity") = files["continuity"]
  BY <1>1 DEF Served, Files, Stores, Settings
<1>4. Versions = first
  <2>1. ExportedRooms = {}
    BY <1>2 DEF ExportedRooms
  <2>2. ServedRooms = StartRooms(pair).rooms
    BY <1>3 DEF ServedRooms, ViewRooms
  <2>3. RoomsBefore = IF pair.backup = NoFile THEN StartRooms(pair).rooms
                      ELSE Prepared(pair.backup).rooms
    BY <1>3 DEF RoomsBefore, ViewRooms
  <2>. QED
    BY <2>1, <2>2, <2>3 DEF Versions
<1>5. ASSUME NEW v \in first, NEW r \in DOMAIN v
      PROVE  IsLog(v[r].log)
  <2>1. \A f \in {pair.primary, pair.backup} \ {NoFile} : IsSnapshot(f)
    BY InstallationsAreWhole DEF Stores, RoomStore
  <2>2. ReadFile(RoomStore, pair) \in {pair.primary, pair.backup}
    BY ReadRooms DEF ReadRecovered
  <2>3. v = Bundled.rooms \/ \E f \in {pair.primary, pair.backup} \ {NoFile} : v = Prepared(f).rooms
    BY <2>2 DEF StartRooms
  <2>4. \A q \in DOMAIN Bundled.rooms : IsLog(Bundled.rooms[q].log)
    BY BundledUpToDate DEF UpToDate, IsSnapshot, IsRoom, RoomIds
  <2>. QED
    BY <1>5, <2>1, <2>3, <2>4, PreparedLogs
<1>6. /\ files["continuity"] = NoFiles
      /\ \A v \in first : \A r \in DOMAIN v : \A i \in DOMAIN v[r].log :
           v[r].log[i].room = r /\ ~FromWindow(v[r].log[i].id)
  BY WindowMessagesAreNew
<1>. HIDE DEF first
<1>7. OnePast(first)
  BY <1>6 DEF OnePast, SamePast
<1>8. LogsOK(Versions, posts)
  BY <1>4, <1>5, <1>6 DEF LogsOK, LogOK
<1>9. Continuations = {}
  BY <1>3, <1>6 DEF Continuations, FilesOf, NoFiles
<1>10. posts \in Nat /\ sessions \in Seq(ToSet(sessions))
  BY <1>2 DEF ToSet
<1>11. TurnKnows(turn, Versions, posts, sessions)
  BY <1>2 DEF NoTurn, TurnKnows
<1>. QED
  BY <1>4, <1>7, <1>8, <1>9, <1>10, <1>11 DEF HistoryInv, HistoryOK

LEMMA NextHistory ==
  ASSUME MarksAreNoValues, DamageIsAlone, ServiceInv, HistoryInv, [Next]_vars
  PROVE  HistoryInv'
<1>. SUFFICES ASSUME "turn" \in scenario.does
              PROVE  HistoryOK'
  BY ScenarioStays DEF HistoryInv
<1>1. /\ DesktopInv /\ ProfilesInv /\ FoldersInv /\ DesktopInv' /\ HistoryOK
      /\ StoresOK /\ posts \in Nat
  BY NextService DEF ServiceInv, HistoryInv, HistoryOK, DesktopInv, StoreInv
<1>2. ASSUME Aside, TurnGoesOn, ~WriteMessage
      PROVE  HistoryOK'
  <2>1. UNCHANGED <<posts, sessions>> /\ Continuations' = Continuations
    BY <1>2 DEF Aside, ContinuityStays, Continuations
  <2>2. HistoryGrows
    BY <1>1, <1>2, <2>1, RepliesGrow, OthersGrow
  <2>. QED
    BY <1>1, <1>2, <2>1, <2>2, HistoryStays
<1>3. CASE WriteMessage
  <2>1. HistoryGrows /\ UNCHANGED sessions /\ ContinuityStays
    BY <1>1, <1>3, WriteGrows
  <2>2. TurnGoesOn
    BY <1>3, OwnerStepsLeaveFolders DEF TurnGoesOn
  <2>. QED
    BY <1>1, <2>1, <2>2, HistoryStays DEF ContinuityStays, Continuations
<1>4. CASE /\ ~WriteMessage
           /\ \/ Create \/ Rename \/ Join \/ Leave \/ Delete
              \/ ExportRooms \/ PreviewBackup \/ RestoreBackup
              \/ OpenDialog \/ CloseDialog \/ AskGemini \/ BridgeReply \/ McpPost
              \/ UNCHANGED vars
              \/ ConductorStatus \/ ChooseConductor \/ SetMode \/ DismissConductor
              \/ SaveAppearance \/ ChooseBackupDirectory \/ SaveProfile \/ ClearFolder
              \/ Stop
  <2>1. TurnGoesOn
    BY <1>4, OwnerStepsLeaveFolders DEF TurnGoesOn
  <2>2. Aside
    BY <1>1, <1>4, CommandsAside, SettingsAside, LifeAside
  <2>. QED
    BY <1>2, <1>4, <2>1, <2>2
<1>5. CASE /\ ~WriteMessage
           /\ \/ CodexReads \/ CodexCreates \/ CodexReplaces \/ FinishReplacing
              \/ OwnerEdits \/ IngestImage \/ CodexFails \/ SaveReply \/ SaveImage \/ Start
  <2>1. TurnGoesOn
    BY <1>1, <1>5, TurnsGoOn
  <2>2. Aside
    BY <1>1, <1>5, TurnsAside, LifeAside
  <2>. QED
    BY <1>2, <1>5, <2>1, <2>2
<1>6. ASSUME ~(WriteMessage \/ McpPost \/ BridgeReply \/ SaveReply), posts' = posts
      PROVE  HistoryGrows
  BY <1>1, <1>6, OthersGrow
<1>7. CASE AskCodex /\ ~(WriteMessage \/ McpPost \/ BridgeReply \/ SaveReply)
  <2>1. UNCHANGED <<posts, sessions>> /\ Continuations' = Continuations
    BY <1>1, <1>7, TurnsAside DEF Aside, ContinuityStays, Continuations
  <2>2. TurnKnows(turn', Versions, posts, sessions')
    BY <1>1, <1>7, <2>1, AskFollows
  <2>3. sessions' \in Seq(ToSet(sessions'))
    BY <1>1, <2>1 DEF HistoryOK
  <2>. QED
    BY <1>1, <1>6, <1>7, <2>1, <2>2, <2>3, HistoryFollows
<1>8. CASE CodexAnswers /\ ~(WriteMessage \/ McpPost \/ BridgeReply \/ SaveReply)
  <2>1. posts' = posts /\ UNCHANGED storeVars
    BY <1>8 DEF CodexAnswers
  <2>2. Continuations' = Continuations
    BY <1>1, <2>1, FaultLeaves DEF ContinuityStays, Continuations
  <2>. QED
    BY <1>1, <1>6, <1>8, <2>1, <2>2, AnswerFollows, HistoryFollows
<1>9. CASE /\ ResetContinuity \/ CommitContinuity
           /\ ~(WriteMessage \/ McpPost \/ BridgeReply \/ SaveReply)
  <2>1. /\ UNCHANGED <<posts, sessions>>
        /\ \A f \in Continuations' :
             f \in Continuations \/ ContinuationOK(f, Versions, posts, sessions)
    BY <1>1, <1>9, ResetFollows, CursorFollows
  <2>2. TurnGoesOn
    BY <1>1, <1>9, OwnerStepsLeaveFolders, TurnsGoOn DEF TurnGoesOn
  <2>. QED
    BY <1>1, <1>6, <1>9, <2>1, <2>2, HistoryStays
<1>. QED
  BY <1>3, <1>4, <1>5, <1>7, <1>8, <1>9 DEF Next

\* All versions of the Rooms that may still be served - the one of now, that of the
\* backup file and the exported ones - agree on what came before a message of the
\* window, and in each of them a session knows what came before the cursor that is
\* stored for it.  (room_source.rs, room_ai_continuity.rs, ADR 0020)
THEOREM HistoryHolds ==
  ASSUME MarksAreNoValues, DamageIsAlone
  PROVE  Spec => []HistoryInv
<1>1. Init => HistoryInv
  BY InitHistory
<1>2. HistoryInv /\ ServiceInv /\ [Next]_vars => HistoryInv'
  BY NextHistory
<1>. QED
  BY <1>1, <1>2, ServiceInvariant, PTL DEF Spec

\* A turn that resumes a session tells it every message by others it was not told of
\* before: after messages during a turn, continuations that could not be stored,
\* crashes, restored backups and changed environments.  (ADR 0020, room_context_plan)
THEOREM ResumedTurnsKnow ==
  ASSUME MarksAreNoValues, DamageIsAlone
  PROVE  Spec => ResumedKnowsTheRest
<1>. DEFINE Resuming == turn = NoTurn /\ turn'.step = "asked" /\ turn'.plan.session # 0
            Knowing == ByOthers(Rooms.rooms[turn'.room], turn'.source, Codex)
                         \subseteq sessions[turn'.plan.session] \cup turn'.plan.told
<1>1. ASSUME ServiceInv, HistoryInv, [Next]_vars, Resuming
      PROVE  Knowing
  <2>1. NoTurn.step = "idle"
    BY DEF NoTurn
  <2>2. turn.step = "idle" /\ turn' # turn /\ turn' # NoTurn
    BY <1>1, <2>1
  <2>3. CASE AskCodex
    <3>1. "turn" \in scenario.does
      BY <2>3 DEF AskCodex, Command, Does
    <3>. QED
      BY <1>1, <2>3, <3>1, AskFollows DEF HistoryInv, ServiceInv
  <2>4. CASE \/ WriteMessage \/ McpPost \/ Create \/ Rename \/ Join \/ Leave \/ Delete
             \/ ExportRooms \/ PreviewBackup \/ RestoreBackup
             \/ ConductorStatus \/ ChooseConductor \/ SetMode \/ DismissConductor
             \/ SaveAppearance \/ ChooseBackupDirectory \/ SaveProfile
             \/ OpenDialog \/ CloseDialog \/ ClearFolder \/ ResetContinuity
             \/ AskGemini \/ BridgeReply \/ Stop \/ UNCHANGED vars
    BY <2>2, <2>4, OwnerStepsLeaveFolders
  <2>5. CASE CodexReads \/ IngestImage \/ CodexFails \/ CodexAnswers
    BY <2>2, <2>5 DEF CodexReads, ToolCall, IngestImage, CodexFails, CodexAnswers, At
  <2>6. CASE CodexCreates \/ CodexReplaces
    <3>1. PICK tool, p : ToolCall(tool, p)
      BY <2>6, Zenon DEF CodexCreates, CodexReplaces
    <3>. QED
      BY <2>2, <3>1 DEF ToolCall, At
  <2>7. CASE FinishReplacing \/ SaveReply \/ CommitContinuity \/ SaveImage \/ OwnerEdits \/ Start
    BY <2>2, <2>7 DEF FinishReplacing, SaveReply, CommitContinuity, SaveImage, OwnerEdits, Start,
       At, view
  <2>. QED
    BY <1>1, <2>3, <2>4, <2>5, <2>6, <2>7 DEF Next
<1>2. ServiceInv /\ HistoryInv /\ [Next]_vars => [Resuming => Knowing]_vars
  BY <1>1
<1>. QED
  BY <1>2, HistoryHolds, ServiceInvariant, PTL DEF Spec, ResumedKnowsTheRest
=============================================================================
