----------------------------- MODULE RoomCatalog -----------------------------
(***************************************************************************)
(* The Rooms as moe-core keeps them (crates/moe-core/src/room.rs): a        *)
(* snapshot has the participants with their kinds and the Rooms, each with  *)
(* its name, its members and its messages in order.  Every operation         *)
(* returns the snapshot it leaves and a status: "changed", "duplicate" (the  *)
(* same request again) or "refused".  The reasons of a refusal, the display  *)
(* names of participants, time stamps and the order of the Rooms are left    *)
(* out.                                                                     *)
(***************************************************************************)
EXTENDS Naturals, Sequences, FiniteSets
LOCAL INSTANCE SequencesExt
LOCAL INSTANCE FiniteSetsExt

CONSTANTS MaxRooms,      \* MAXIMUM_ROOMS
          MaxMembers,    \* MAXIMUM_ROOM_PARTICIPANTS
          MaxMessages    \* MAXIMUM_ROOM_MESSAGES

ASSUME RoomCatalogConstants == {MaxRooms, MaxMembers, MaxMessages} \subseteq Nat \ {0}

Result(status, snapshot) == [status |-> status, snapshot |-> snapshot]

RoomIds(s) == DOMAIN s.rooms
\* RoomSnapshot and Room: the types of their fields.
IsFunction(f) == f = [x \in DOMAIN f |-> f[x]]
IsLog(log) == log \in Seq(ToSet(log)) /\ \A m \in ToSet(log) : "images" \in DOMAIN m
IsRoom(q) == q = [name |-> q.name, members |-> q.members, log |-> q.log] /\ IsLog(q.log)
IsSnapshot(s) ==
  /\ s = [people |-> s.people, rooms |-> s.rooms]
  /\ IsFunction(s.people) /\ IsFunction(s.rooms)
  /\ IsFiniteSet(DOMAIN s.people)
  /\ \A r \in RoomIds(s) : IsRoom(s.rooms[r])

Humans(s) == {p \in DOMAIN s.people : s.people[p] = "human"}
MessagesIn(room) == ToSet(room.log)
Messages(s) == UNION {MessagesIn(s.rooms[r]) : r \in RoomIds(s)}

\* Whether p wrote or is addressed by a message of the Room.
InUse(room, p) == \E m \in MessagesIn(room) : p \in {m.author} \cup m.to

WellFormedRoom(s, r) ==
  LET room == s.rooms[r]
  IN /\ room.members \subseteq DOMAIN s.people
     /\ Cardinality(room.members) <= MaxMembers
     /\ Len(room.log) <= MaxMessages
     /\ \A m \in MessagesIn(room) :
          m.room = r /\ {m.author} \cup m.to \subseteq room.members

\* validate_snapshot
ValidSnapshot(s) ==
  /\ Cardinality(RoomIds(s)) <= MaxRooms
  /\ \A r \in RoomIds(s) : WellFormedRoom(s, r)
  /\ \A r, q \in RoomIds(s) :
       \A i \in 1..Len(s.rooms[r].log), j \in 1..Len(s.rooms[q].log) :
         s.rooms[r].log[i].id = s.rooms[q].log[j].id => r = q /\ i = j

-----------------------------------------------------------------------------
(* Reading                                                                 *)

IndexIn(room, id) ==
  IF \E i \in 1..Len(room.log) : room.log[i].id = id
  THEN CHOOSE i \in 1..Len(room.log) : room.log[i].id = id
  ELSE 0

HasMessage(s, r, id) == r \in RoomIds(s) /\ IndexIn(s.rooms[r], id) # 0
FindMessage(s, r, id) == s.rooms[r].log[IndexIn(s.rooms[r], id)]

\* read_room: the members and one page, either the last limit messages or
\* those after a message; nothing when the Room or that message is unknown.
\* after is <<>> or <<the ID of a message>>.
ReadRoom(s, r, after, limit) ==
  IF r \notin RoomIds(s) \/ \E i \in DOMAIN after : ~HasMessage(s, r, after[i])
  THEN [members |-> {}, page |-> <<>>]
  ELSE LET room == s.rooms[r]
           first == IF after # <<>> THEN IndexIn(room, after[1]) + 1
                    ELSE Max({1, Len(room.log) - limit + 1})
       IN [members |-> room.members,
           page |-> SubSeq(room.log, first, Min({first + limit - 1, Len(room.log)}))]

-----------------------------------------------------------------------------
(* Changing                                                                *)

CanAppend(s, m) ==
  /\ m.room \in RoomIds(s)
  /\ Len(s.rooms[m.room].log) < MaxMessages
  /\ {m.author} \cup m.to \subseteq s.rooms[m.room].members

\* A message ID names one message in all Rooms; the same message again is a
\* duplicate, and another one under its ID is refused.
AppendMessage(s, m) ==
  IF \E n \in Messages(s) : n.id = m.id
  THEN Result(IF m \in Messages(s) THEN "duplicate" ELSE "refused", s)
  ELSE IF CanAppend(s, m)
       THEN Result("changed", [s EXCEPT !.rooms[m.room].log = Append(@, m)])
       ELSE Result("refused", s)

NewRoom(name, members) == [name |-> name, members |-> members, log |-> <<>>]

PutRoom(s, r, room) ==
  [s EXCEPT !.rooms =
     [q \in RoomIds(s) \cup {r} |-> IF q = r THEN room ELSE s.rooms[q]]]

CreateRoom(s, r, name, members) ==
  IF r \in RoomIds(s)
  THEN Result(IF s.rooms[r].name = name /\ s.rooms[r].members = members
              THEN "duplicate" ELSE "refused", s)
  ELSE IF Cardinality(RoomIds(s)) < MaxRooms /\ members \subseteq DOMAIN s.people
       THEN Result("changed", PutRoom(s, r, NewRoom(name, members)))
       ELSE Result("refused", s)

AddMember(s, r, p) ==
  IF p \notin DOMAIN s.people \/ r \notin RoomIds(s) THEN Result("refused", s)
  ELSE IF p \in s.rooms[r].members THEN Result("duplicate", s)
  ELSE IF Cardinality(s.rooms[r].members) < MaxMembers
       THEN Result("changed", [s EXCEPT !.rooms[r].members = @ \cup {p}])
       ELSE Result("refused", s)

RenameRoom(s, r, name) ==
  IF r \notin RoomIds(s) THEN Result("refused", s)
  ELSE IF s.rooms[r].name = name THEN Result("duplicate", s)
  ELSE Result("changed", [s EXCEPT !.rooms[r].name = name])

RemoveMember(s, r, p) ==
  IF p \notin DOMAIN s.people \/ r \notin RoomIds(s) THEN Result("refused", s)
  ELSE IF p \notin s.rooms[r].members THEN Result("duplicate", s)
  ELSE IF Cardinality(s.rooms[r].members) > 2 /\ ~InUse(s.rooms[r], p)
       THEN Result("changed", [s EXCEPT !.rooms[r].members = @ \ {p}])
       ELSE Result("refused", s)

DeleteRoom(s, r) ==
  IF r \in RoomIds(s) /\ Cardinality(RoomIds(s)) > 1
  THEN Result("changed", [s EXCEPT !.rooms = [q \in RoomIds(s) \ {r} |-> s.rooms[q]]])
  ELSE Result("refused", s)
=============================================================================
