----------------------------- MODULE RoomService -----------------------------
(***************************************************************************)
(* What the desktop promises of the Rooms and of the participants' profiles, *)
(* when writes are refused or cut, the process dies and the files are brought *)
(* up to date: messages are only added, one at a time, at the end *)
(* of one Room and by its members; a Room keeps everybody its messages name;  *)
(* and everything else happens only on the owner's order - but for a damaged  *)
(* file, which takes the Rooms back to what they were one write before, and a  *)
(* write of the profiles that was cut, which forgets them.  Of the owner's own  *)
(* files none is changed but by the owner, or as a whole by an AI that may     *)
(* write.                                                                     *)
(***************************************************************************)
EXTENDS Naturals, Sequences

CONSTANT ServiceBundledRoom   \* the Room nobody can delete

VARIABLES rooms,      \* the Rooms: name, members and log
          profiles,   \* participant -> what the owner chose for it
          previous,   \* the Rooms one write ago
          exported,   \* the Rooms of the backups that were made
          documents,  \* folder -> path -> what is there
          edited,     \* the changes the owner made to the folders
          writers     \* the folders an AI may write to now

roomVars == <<rooms, profiles, previous, exported>>
serviceVars == <<roomVars, documents, edited, writers>>

ServiceInit ==
  /\ ServiceBundledRoom \in DOMAIN rooms \cap DOMAIN previous
  /\ exported = {}
  /\ edited = 0 /\ writers = {}

AllIds == UNION {{rooms[r].log[i].id : i \in DOMAIN rooms[r].log} : r \in DOMAIN rooms}
Named(room) == UNION {{room.log[i].author} \cup room.log[i].to : i \in DOMAIN room.log}

\* A write of the profiles that was cut between its renames is found by the next
\* start, which comes with any step.
KeepProfiles == profiles' \in {profiles, <<>>}

\* One message is added at the end of Room r.
Post(r) ==
  /\ DOMAIN rooms' = DOMAIN rooms
  /\ Len(rooms'[r].log) = Len(rooms[r].log) + 1
  /\ LET m == rooms'[r].log[Len(rooms[r].log) + 1] IN
       /\ rooms' = [rooms EXCEPT ![r].log = Append(@, m)]
       /\ m.id \notin AllIds
       /\ {m.author} \cup m.to \subseteq rooms[r].members

\* The owner creates an empty Room, or renames r or changes its members.
Open(r) ==
  /\ DOMAIN rooms' = DOMAIN rooms \cup {r}
  /\ rooms'[r].log = <<>>
  /\ \A q \in DOMAIN rooms : rooms'[q] = rooms[q]

Arrange(r) ==
  /\ DOMAIN rooms' = DOMAIN rooms
  /\ rooms'[r].log = rooms[r].log
  /\ rooms[r].members \cap Named(rooms[r]) \subseteq rooms'[r].members
  /\ \A q \in DOMAIN rooms \ {r} : rooms'[q] = rooms[q]

Delete(r) ==
  /\ r # ServiceBundledRoom
  /\ DOMAIN rooms' = DOMAIN rooms \ {r}
  /\ \A q \in DOMAIN rooms' : rooms'[q] = rooms[q]

Restore == rooms' \in exported

ByOrder ==
  /\ \/ \E r \in DOMAIN rooms : Post(r) \/ Arrange(r) \/ Delete(r)
     \/ \E r \in DOMAIN rooms' \ DOMAIN rooms : Open(r)
     \/ Restore
  /\ previous' \in {previous, rooms, rooms'}
  /\ KeepProfiles /\ UNCHANGED exported

Export ==
  /\ exported' = exported \cup {rooms}
  /\ KeepProfiles /\ UNCHANGED <<rooms, previous>>

\* A participant gets a profile; the others keep theirs.
SetProfile ==
  /\ \E p \in DOMAIN profiles' :
       /\ DOMAIN profiles' = DOMAIN profiles \cup {p}
       /\ \A q \in DOMAIN profiles \ {p} : profiles'[q] = profiles[q]
  /\ UNCHANGED <<rooms, previous, exported>>

\* The file of the Rooms is damaged, or written again as it is.
RollBack ==
  /\ rooms' = previous
  /\ KeepProfiles /\ UNCHANGED <<previous, exported>>

WriteAgain ==
  /\ previous' \in {rooms, previous}
  /\ KeepProfiles /\ UNCHANGED <<rooms, exported>>

RoomStep ==
  /\ ByOrder \/ Export \/ SetProfile \/ RollBack \/ WriteAgain
  /\ UNCHANGED <<documents, edited>>

OwnerEdits == edited' = edited + 1 /\ UNCHANGED roomVars

\* Where nothing was a file appears, whole or not; a file that is there changes
\* only as a whole, and only while an AI may write to its folder.
WriteDocument ==
  \E f \in DOMAIN documents : \E p \in DOMAIN documents[f] :
    LET old == documents[f][p]
        new == documents'[f][p]
    IN /\ documents' = [documents EXCEPT ![f][p] = new]
       /\ \/ old = "absent" /\ new \in {"image", "part"}
          \/ f \in writers /\ old # "directory" /\ new = "codex_text"
       /\ KeepProfiles /\ UNCHANGED <<rooms, previous, exported, edited>>

\* A writer comes and goes with any step.
ServiceNext == RoomStep \/ OwnerEdits \/ WriteDocument

ServiceSpec == ServiceInit /\ [][ServiceNext]_serviceVars
=============================================================================
