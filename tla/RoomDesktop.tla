----------------------------- MODULE RoomDesktop -----------------------------
(***************************************************************************)
(* The commands of the desktop around its Rooms: the owner's window           *)
(* (room_commands.rs, room_conductor_settings.rs, room_workspace.rs,          *)
(* room_backup_commands.rs, appearance_settings.rs, participant_profiles.rs), *)
(* the MCP server, the browser bridge and a Codex turn with its images and     *)
(* its continuation (ai_dispatch.rs, room_artifacts.rs, room_ai_continuity.rs).*)
(* Each store serves its callers under a mutex, so a command is one step per   *)
(* store it changes; a turn and a folder dialog take several.                 *)
(***************************************************************************)
EXTENDS DesktopStores, RoomContext, BrowserBridge, WorkspaceFolder

CONSTANTS NewRooms,      \* IDs for the Rooms the owner creates
          Requests,      \* request IDs of MCP clients
          Folders,       \* folders the owner may open for a Room
          OwnerFolders,  \* what is in them at first
          Scenarios,     \* what a run does and how often, see scenario
          Installations, \* what the files may be before the first start
          MaxBackups     \* bound: backups

VARIABLES scenario,   \* bound: the activities of this run, how many messages
                      \* the owner writes, the commands and the faults
          commands,   \* bound: turns and other commands that may still come
          posts,      \* messages the owner's window gave an ID to
          outbox,     \* the browser bridge
          turn,       \* the Codex turn that has the gate
          asked,      \* messages whose dispatch is not confirmed as failed
          sessions,   \* what each native session was told of
          image,      \* the file of the one image Codex may generate
          folders,    \* the folders and what is in them
          edits,      \* the owner's changes to the folders so far
          dialog,     \* the Room a folder dialog is open for
          backups,    \* the backup files, oldest first
          preview     \* the backup the owner was shown

view == <<outbox, turn, dialog, preview>>
outside == <<asked, sessions, image, folders, edits, backups>>
vars == <<storeVars, scenario, commands, posts, view, outside>>

NoTurn == [step |-> "idle"]
NoRoom == NoFile

ASSUME ScenarioFaults == \A s \in Scenarios : s.faults \in Nat

\* Before the first start no file is damaged and no image was generated.
ASSUME InstallationsAreWhole ==
  \A files \in Installations : \A s \in Stores :
    LET pair == files[s] IN
      /\ pair = [primary |-> pair.primary, backup |-> pair.backup]
      /\ Damaged \notin {pair.primary, pair.backup}
      /\ s = RoomStore => \A f \in {pair.primary, pair.backup} \ {NoFile} :
                           IsSnapshot(f) /\ \A m \in Messages(f) : m.images = {}

\* The Rooms' files are of one owner, who was never called Codex: to the owner's
\* profile it makes no difference which of them is read.
ASSUME RoomsAreOfOneOwner ==
  \A files \in Installations :
    LET profiles == ReadValue("profiles", files["profiles"])
        read == ReadFile(RoomStore, files[RoomStore])
    IN \A f \in {files[RoomStore].primary, files[RoomStore].backup} \ {NoFile} :
         /\ MigratedFor(f, profiles) = MigratedFor(read, profiles)
         /\ HasOldOwner(f) => OwnerOf(f) # Codex

\* The window gives an ID to each message the owner writes in it.
FromWindow(id) == id[1] = "owner"

\* Before the first start there was no session, and an ID the window will make is new.
ASSUME WindowMessagesAreNew ==
  \A files \in Installations :
    LET pair == files[RoomStore]
        versions == {StartRooms(pair).rooms} \cup
                    (IF pair.backup = NoFile THEN {} ELSE {Prepared(pair.backup).rooms})
    IN /\ files["continuity"] = NoFiles
       /\ \A v \in versions : \A r \in DOMAIN v : \A i \in DOMAIN v[r].log :
            v[r].log[i].room = r /\ ~FromWindow(v[r].log[i].id)

ASSUME OwnerFoldersType ==
  OwnerFolders \subseteq [root : {"here", "gone"}, temporary : BOOLEAN, entry : [Paths -> Entries]]

Init ==
  /\ \E files \in Installations :
       stores = [s \in Stores |-> [memory |-> Unloaded, files |-> files[s]]]
  /\ phase = "down"
  /\ scenario \in Scenarios
  /\ faults = scenario.faults
  /\ commands = scenario.commands
  /\ posts = 0
  /\ outbox = EmptyOutbox /\ turn = NoTurn /\ dialog = NoRoom /\ preview = 0
  /\ asked = {} /\ sessions = <<>> /\ image = "absent" /\ backups = <<>>
  /\ folders \in [Folders -> OwnerFolders] /\ edits = 0

Does(activity) == phase = "running" /\ activity \in scenario.does

\* Bound: one more command
Command(activity) ==
  /\ Does(activity)
  /\ commands > 0
  /\ commands' = commands - 1
  /\ UNCHANGED scenario

\* No Rooms are served before they are loaded.
Rooms == IF Served(RoomStore) = Unloaded THEN [people |-> <<>>, rooms |-> <<>>]
         ELSE Served(RoomStore)
Mem(store, r) == r \in DOMAIN Served(store)
With(store, r, value) == Over([q \in {r} |-> value], Served(store))
Without(store, r) == [q \in DOMAIN Served(store) \ {r} |-> Served(store)[q]]

\* DesktopRoomSource: what the catalog accepts is persisted, a duplicate too.
Change(answer, result) ==
  IF answer.status = "refused"
  THEN result = "refused" /\ UNCHANGED storeVars
  ELSE Persist(RoomStore, answer.snapshot, result)

AllRooms == {BundledRoom} \cup NewRooms

Message(id, r, author, to, text, proxy, images) ==
  [id |-> id, room |-> r, author |-> author, to |-> to, text |-> text,
   proxy |-> proxy, images |-> images]

-----------------------------------------------------------------------------
(* Rooms and messages                                                       *)

\* dispatch_recipient: somebody a human wrote to.  The window alone dispatches, and
\* only what it has written itself (useRooms.ts, sendMessage).
CanAsk(m, p) == FromWindow(m.id) /\ m.author \in Humans(Rooms) /\ p \in m.to

\* The window gives every message a new ID; it writes one again only when the
\* write failed (useRooms.ts), and a refused write left nothing of it behind.
WriteMessage ==
  \E r \in RoomIds(Rooms), p \in {Codex, Gemini}, result \in Results :
    /\ Does("write")
    /\ posts < scenario.posts
    /\ posts' = IF result = "refused" THEN posts ELSE posts + 1
    /\ Change(AppendMessage(Rooms, Message(<<"owner", posts + 1>>, r, OwnerOf(Rooms), {p},
                                           "text", FALSE, {})), result)
    /\ UNCHANGED <<scenario, commands, view, outside>>

\* resolve_room_owner: the humans among the members the Room was read with
RoomOwners(r) == ReadRoom(Rooms, r, <<>>, 1).members \cap Humans(Rooms)

\* mio_room_post_as_owner; the server listens once the Rooms are committed.
McpPost ==
  \E q \in Requests, r \in RoomIds(Rooms), p \in {Codex, Gemini}, result \in Results :
    /\ phase \in {"committed", "running"} /\ "mcp" \in scenario.does
    /\ Cardinality(RoomOwners(r)) = 1
    /\ Change(AppendMessage(Rooms, Message(<<"mcp", q>>, r, CHOOSE o \in RoomOwners(r) : TRUE, {p},
                                           "text", TRUE, {})), result)
    /\ UNCHANGED <<scenario, commands, posts, view, outside>>

RoomCommand(answer) ==
  /\ Command("rooms")
  /\ \E result \in Results : Change(answer, result)
  /\ UNCHANGED <<posts, view, outside>>

Create == \E r \in NewRooms : RoomCommand(CreateRoom(Rooms, r, "new", {OwnerOf(Rooms), Codex}))
Rename == \E r \in RoomIds(Rooms) : RoomCommand(RenameRoom(Rooms, r, "renamed"))
Join == \E r \in RoomIds(Rooms), p \in {Codex, Gemini} : RoomCommand(AddMember(Rooms, r, p))

Leave ==
  \E r \in RoomIds(Rooms), p \in {Codex, Gemini, Owner} :
    p \notin Humans(Rooms) /\ RoomCommand(RemoveMember(Rooms, r, p))

Delete ==
  \E r \in RoomIds(Rooms) : r # BundledRoom /\ RoomCommand(DeleteRoom(Rooms, r))

-----------------------------------------------------------------------------
(* Backups                                                                  *)

LatestBackup ==
  LET here == {i \in DOMAIN backups : backups[i].directory = Served("backup_directory")}
  IN IF here = {} THEN 0 ELSE CHOOSE i \in here : \A j \in here : j <= i

\* A file that is cut before its rename is a temporary one nobody looks at.
ExportRooms ==
  /\ Does("backup")
  /\ Len(backups) < MaxBackups
  /\ backups' = Append(backups, [directory |-> Served("backup_directory"), image |-> Rooms])
  /\ \/ UNCHANGED storeVars
     \/ Fault /\ End(RoomStore, Files(RoomStore))
  /\ UNCHANGED <<scenario, commands, posts, view, asked, sessions, image, folders, edits>>

PreviewBackup ==
  /\ Does("backup")
  /\ LatestBackup # 0
  /\ Usable(backups[LatestBackup].image)
  /\ preview' = LatestBackup
  /\ UNCHANGED <<storeVars, scenario, commands, posts, outbox, turn, dialog, outside>>

\* The owner restores the backup that was shown, if it is still the latest.
RestoreBackup ==
  /\ Does("backup")
  /\ preview # 0
  /\ preview = LatestBackup
  /\ Usable(backups[preview].image)
  /\ preview' = 0
  /\ \E result \in Results : Persist(RoomStore, Prepared(backups[preview].image), result)
  /\ UNCHANGED <<scenario, commands, posts, outbox, turn, dialog, outside>>

-----------------------------------------------------------------------------
(* Settings                                                                 *)

Store(store, value) ==
  /\ \E result \in Results : Persist(store, value, result)
  /\ UNCHANGED <<posts, view, outside>>

Skip == UNCHANGED storeVars /\ UNCHANGED <<posts, view, outside>>

\* room_status: only a Room's AI member that can plan - Codex - stays conductor.
CanConduct(r) ==
  r \in RoomIds(Rooms) /\ Codex \in Rooms.rooms[r].members /\ Rooms.people[Codex] = "ai"

ClearConductor(r) ==
  IF Mem("conductors", r) THEN Store("conductors", Without("conductors", r)) ELSE Skip

ConductorStatus ==
  \E r \in AllRooms : Command("settings") /\ ~CanConduct(r) /\ ClearConductor(r)

ChooseConductor ==
  \E r \in RoomIds(Rooms) :
    /\ Command("settings")
    /\ CanConduct(r)
    /\ IF Mem("conductors", r) THEN Skip
       ELSE Store("conductors", With("conductors", r, "conductor"))

\* desktop_room_conductor_mode_save looks at the status first.
SetMode ==
  \E r \in AllRooms, mode \in {"conductor", "direct"} :
    /\ Command("settings")
    /\ IF ~CanConduct(r) THEN ClearConductor(r)
       ELSE IF Mem("conductors", r) /\ Served("conductors")[r] # mode
            THEN Store("conductors", With("conductors", r, mode)) ELSE Skip

DismissConductor == \E r \in AllRooms : Command("settings") /\ ClearConductor(r)

SaveAppearance ==
  \E v \in {"default", "custom"} : Command("settings") /\ Store("appearance", v)

ChooseBackupDirectory ==
  \E v \in {"default", "custom"} : Command("directory") /\ Store("backup_directory", v)

SaveProfile ==
  \E p \in {Owner, Codex}, v \in Profiles :
    /\ Command("profiles")
    /\ p \in DOMAIN Rooms.people
    /\ Store("profiles", With("profiles", p, v))

\* The folder is bound when the dialog closes, to a Room that may be gone.
OpenDialog ==
  \E r \in RoomIds(Rooms) :
    /\ Command("folders")
    /\ dialog' = r
    /\ UNCHANGED <<storeVars, posts, outbox, turn, preview, outside>>

CloseDialog ==
  /\ Does("folders")
  /\ dialog # NoRoom
  /\ dialog' = NoRoom
  /\ \/ \E f \in Folders, result \in Results :
          /\ Available(folders[f])
          /\ Persist("workspaces", With("workspaces", dialog, f), result)
     \/ UNCHANGED storeVars
  /\ UNCHANGED <<scenario, commands, posts, outbox, turn, preview, outside>>

ClearFolder ==
  \E r \in RoomIds(Rooms) : Command("folders") /\ Store("workspaces", Without("workspaces", r))

ResetContinuity ==
  \E r \in RoomIds(Rooms) :
    /\ Command("turn")
    /\ IF Mem("continuity", r) THEN Store("continuity", Without("continuity", r)) ELSE Skip

-----------------------------------------------------------------------------
(* The browser bridge                                                       *)

AskGemini ==
  \E m \in Messages(Rooms) :
    /\ Does("bridge")
    /\ CanAsk(m, Gemini)
    /\ ~HasMessage(Rooms, m.room, SearchReplyId(m.id))
    /\ outbox' = Enqueue(outbox, m, SearchContext(Rooms.rooms[m.room], m.id))
    /\ UNCHANGED <<storeVars, scenario, commands, posts, turn, dialog, preview, outside>>

\* The extension answers the question at the head of the outbox.
BridgeReply ==
  \E result \in Results :
    /\ Does("bridge")
    /\ outbox.order # <<>>
    /\ LET q == NextQuestion(outbox) IN
         /\ HasMessage(Rooms, q.room, q.id)
         /\ LET human == FindMessage(Rooms, q.room, q.id).author
                reply == SearchReply(q, Gemini, human, "text")
            IN /\ human \in Humans(Rooms)
               /\ Change(AppendMessage(Rooms, reply), result)
               /\ outbox' = IF result = "saved" THEN Complete(outbox, q, reply) ELSE outbox
    /\ UNCHANGED <<scenario, commands, posts, turn, dialog, preview, outside>>

-----------------------------------------------------------------------------
(* A Codex turn: one at a time, behind codex_turn_gate                       *)

CodexReplyId(id) == <<"codex", id>>

ProfileOf(p) == IF Mem("profiles", p) THEN Served("profiles")[p] ELSE ChatProfile
FolderOf(r) == IF Mem("workspaces", r) THEN Served("workspaces")[r] ELSE NoFolder

\* The access of a turn; without a folder there is nothing to have access to.
TurnAccess(r) == IF FolderOf(r) = NoFolder THEN "none" ELSE AccessOf(ProfileOf(Codex))

\* The dispatch ledger lets a message be asked once, or again after a failure
\* that is confirmed: a folder that is gone is one.
AskCodex ==
  \E m \in Messages(Rooms) :
    LET access == TurnAccess(m.room)
        environment == EnvironmentOf(ProfileOf(Codex), FolderOf(m.room))
        continuation == IF Mem("continuity", m.room)
                        THEN <<Served("continuity")[m.room]>> ELSE <<>>
    IN /\ Command("turn")
       /\ turn = NoTurn
       /\ CanAsk(m, Codex)
       /\ ~HasMessage(Rooms, m.room, CodexReplyId(m.id)) /\ m.id \notin asked
       /\ access # "none" => Available(folders[FolderOf(m.room)])
       /\ asked' = asked \cup {m.id}
       /\ turn' = [step |-> "asked", room |-> m.room, source |-> m.id, human |-> m.author,
                   environment |-> environment, images |-> {},
                   access |-> access, folder |-> FolderOf(m.room), path |-> <<>>,
                   answer |-> "none",
                   plan |-> Plan(Rooms.rooms[m.room], m.id, Codex, continuation, environment)]
       /\ UNCHANGED <<storeVars, posts, outbox, dialog, preview,
                      sessions, image, folders, edits, backups>>

At(step) == phase = "running" /\ turn.step = step
Goto(step) == turn' = [turn EXCEPT !.step = step]

\* Codex generated an image: it is copied to the artifacts under the hash of
\* its content.  A copy that is cut stays; a refused one is removed or stays.
IngestImage ==
  /\ At("asked") /\ "images" \in scenario.does
  /\ \/ /\ image \in {"absent", "whole"}
        /\ image' = "whole"
        /\ turn' = [turn EXCEPT !.images = {"image"}]
        /\ UNCHANGED storeVars
     \/ /\ image = "absent"
        /\ image' \in {"absent", "partial"}
        /\ Fault
        /\ \/ UNCHANGED <<stores, phase>>
           \/ End(RoomStore, Files(RoomStore))
        /\ UNCHANGED turn
  /\ UNCHANGED <<scenario, commands, posts, outbox, dialog, preview,
                 asked, sessions, folders, edits, backups>>

\* The one process that writes to a folder creates a file there, or fails, or
\* ends before the file is whole.
WriteNewFile(f, p, content) ==
  \/ /\ folders' = [folders EXCEPT ![f] = Created(@, p, content)]
     /\ UNCHANGED storeVars
  \/ /\ \E left \in CreationsFailed(folders[f], p) : folders' = [folders EXCEPT ![f] = left]
     /\ Fault
     /\ \/ UNCHANGED <<stores, phase>>
        \/ End(RoomStore, Files(RoomStore))

\* Codex calls its tools one after the other; the reader of its messages
\* answers each before it looks at the next.
ToolCall(tool, p) ==
  /\ At("asked")
  /\ tool \in {"list_directory", "read_file", "create_file", "replace_file"}
  /\ Command("tools")
  /\ UNCHANGED <<posts, outbox, dialog, preview, asked, sessions, image, edits, backups>>

CodexReads ==
  \E tool \in {"list_directory", "read_file"}, p \in Paths \cup {<<>>, Outside} :
    /\ turn.step # "idle" /\ turn.folder # NoFolder
    /\ ToolCall(tool, p)
    /\ turn' = [turn EXCEPT !.answer = Answer(folders[turn.folder], turn.access, tool, p)]
    /\ UNCHANGED <<storeVars, folders>>

CodexCreates ==
  \E p \in Paths :
    /\ ToolCall("create_file", p)
    /\ "create_file" \in Tools(turn.access)
    /\ NewFile(folders[turn.folder], p)
    /\ WriteNewFile(turn.folder, p, "codex_text")
    /\ turn' = [turn EXCEPT !.answer = "none"]

\* replace_file up to its rename
CodexReplaces ==
  \E p \in Paths :
    /\ ToolCall("replace_file", p)
    /\ "replace_file" \in Tools(turn.access)
    /\ CanReplace(folders[turn.folder], p)
    /\ folders' = [folders EXCEPT ![turn.folder] = Replacing(@, p)]
    /\ turn' = [turn EXCEPT !.step = "replacing", !.path = p, !.answer = "none"]
    /\ UNCHANGED storeVars

\* The owner may have changed the entry, or the way to it, in between; a folder that
\* was moved away may be renamed in or not.
FinishReplacing ==
  /\ At("replacing")
  /\ LET folder == folders[turn.folder]
         Ends(next) == folders' = [folders EXCEPT ![turn.folder] = next]
     IN \/ CanRename(folder, turn.path) /\ Ends(Renamed(folder, turn.path)) /\ UNCHANGED faults
        \/ /\ CanRename(folder, turn.path) => folder.root = "gone"
           /\ Ends(WithoutTemporary(folder)) /\ UNCHANGED faults
        \/ Fault /\ (Ends(folder) \/ Ends(WithoutTemporary(folder)))
  /\ turn' = [turn EXCEPT !.step = "asked", !.path = <<>>]
  /\ UNCHANGED <<stores, phase, scenario, commands, posts, outbox, dialog, preview,
                 asked, sessions, image, edits, backups>>

\* The owner's other programs change an entry, or the folder is moved away or back.
\* (What they do while the desktop does not run they may do after its start.)
OwnerEdits ==
  /\ Command("edits")
  /\ edits' = edits + 1
  /\ \E f \in Folders :
       \/ \E p \in Paths, e \in Entries \ {"codex_text", "image", "part"} :
            folders' = [folders EXCEPT ![f] = Left(@, p, e)]
       \/ folders' = [folders EXCEPT ![f].root = IF @ = "here" THEN "gone" ELSE "here"]
  /\ UNCHANGED <<storeVars, posts, view, asked, sessions, image, backups>>

CodexFails ==
  /\ At("asked")
  /\ turn' = NoTurn
  /\ \/ asked' = asked \ {turn.source}
     \/ UNCHANGED asked
  /\ UNCHANGED <<storeVars, scenario, commands, posts, outbox, dialog, preview,
                 sessions, image, folders, edits, backups>>

\* The session - a new one, or the one that was resumed - has the source, what
\* was told and the notice of what was left out.
CodexAnswers ==
  LET new == MakesKnown(Prompt(turn.plan, turn.source))
      open == OpensThread(turn.plan, Tools(turn.access))
  IN /\ At("asked")
     /\ sessions' = IF open.method = "thread/start" THEN Append(sessions, new)
                    ELSE [sessions EXCEPT ![open.thread] = @ \cup new]
     /\ turn' = [turn EXCEPT !.step = "answered",
                   !.plan.session = IF @ = 0 THEN Len(sessions) + 1 ELSE @]
     /\ UNCHANGED <<storeVars, scenario, commands, posts, outbox, dialog, preview,
                    asked, image, folders, edits, backups>>

SaveReply ==
  \E result \in Results :
    /\ At("answered")
    /\ Change(AppendMessage(Rooms, Message(CodexReplyId(turn.source), turn.room, Codex,
                                           {turn.human}, "text", FALSE, turn.images)),
              result)
    /\ IF result = "saved" THEN Goto("saved") ELSE turn' = NoTurn
    /\ UNCHANGED <<scenario, commands, posts, outbox, dialog, preview, outside>>

\* Fault: the continuation names the reply, and what came before it is not told.
CursorAtReply(t) == CodexReplyId(t.source)

\* The source is the last message the session is in step with: what was
\* posted while Codex answered is told the next time.
Cursor(t) == t.source

\* Whether or not the continuation could be stored, the turn is completed.
CommitContinuity ==
  \E result \in Results :
    /\ At("saved")
    /\ Persist("continuity",
               With("continuity", turn.room,
                    Continuation(turn.plan.session, Cursor(turn), turn.environment)),
               result)
    /\ turn' = NoTurn
    /\ UNCHANGED <<scenario, commands, posts, outbox, dialog, preview, outside>>

Picture == <<"picture">>

\* An image a message names is saved to the Room's folder, as a new file.
SaveImage ==
  \E m \in Messages(Rooms) :
    LET f == FolderOf(m.room) IN
      /\ Does("images")
      /\ m.images # {} /\ image = "whole"
      /\ f # NoFolder
      /\ NewFile(folders[f], Picture)
      /\ WriteNewFile(f, Picture, "image")
      /\ UNCHANGED <<scenario, commands, posts, view, asked, sessions, image, edits, backups>>

-----------------------------------------------------------------------------

\* The memory of the process begins empty.
Start ==
  /\ \/ PrepareRooms \/ MigrateProfiles \/ CommitRooms \/ LoadSettings
  /\ outbox' = EmptyOutbox /\ turn' = NoTurn /\ dialog' = NoRoom /\ preview' = 0
  /\ UNCHANGED <<scenario, commands, posts, outside>>

Stop ==
  /\ Crash \/ ("damage" \in scenario.does /\ \E s \in Stores : Damage(s))
  /\ UNCHANGED <<scenario, commands, posts, view, outside>>

Next ==
  \/ WriteMessage \/ McpPost \/ Create \/ Rename \/ Join \/ Leave \/ Delete
  \/ ExportRooms \/ PreviewBackup \/ RestoreBackup
  \/ ConductorStatus \/ ChooseConductor \/ SetMode \/ DismissConductor
  \/ SaveAppearance \/ ChooseBackupDirectory \/ SaveProfile
  \/ OpenDialog \/ CloseDialog \/ ClearFolder \/ ResetContinuity
  \/ AskGemini \/ BridgeReply
  \/ AskCodex \/ CodexReads \/ CodexCreates \/ CodexReplaces \/ FinishReplacing \/ OwnerEdits
  \/ IngestImage \/ CodexFails \/ CodexAnswers \/ SaveReply
  \/ CommitContinuity \/ SaveImage
  \/ Start \/ Stop

Spec == Init /\ [][Next]_vars

-----------------------------------------------------------------------------
(* What a start of the desktop would serve, from the files                    *)

ViewRooms == StartRooms(Files(RoomStore)).rooms
ViewProfiles == MigratedFor(RoomFile, ReadValue("profiles", Files("profiles")))

WouldServe(store) ==
  CASE store = RoomStore -> StartRooms(Files(RoomStore))
    [] store = "profiles" -> ViewProfiles
    [] OTHER -> ReadValue(store, Files(store))

\* A write of profiles or appearance that lost its primary is not read again.
LostPrimary(store) ==
  NeedsPrimary(store) /\ Files(store).primary = NoFile /\ Files(store).backup # NoFile

(* After writes that were refused or cut, damage and restores, the desktop       *)
(* serves exactly what its next start would find, in every store but those that  *)
(* lost their primary (LostPrimary); and every image a message names can be      *)
(* read.  (room_source.rs: a failed write puts the old snapshot back; settings   *)
(* change in memory after they are on disk.)                                  *)
StartServesTheSame ==
  phase = "running" =>
    /\ \A s \in Stores : LostPrimary(s) \/ WouldServe(s) = Served(s)
    /\ \A m \in Messages(Rooms) : m.images # {} => image = "whole"

(* A turn that resumes a session tells it every message by others it was not    *)
(* told of before: after messages during a turn, continuations that could not    *)
(* be stored, crashes, restored backups and changed environments.  (ADR 0020,   *)
(* room_context_plan)                                                         *)
ByOthers(room, id, participant) ==
  {room.log[i].id : i \in {j \in 1..(IndexIn(room, id) - 1) : room.log[j].author # participant}}

ResumedKnowsTheRest ==
  [][turn = NoTurn /\ turn'.step = "asked" /\ turn'.plan.session # 0
       => ByOthers(Rooms.rooms[turn'.room], turn'.source, Codex)
            \subseteq sessions[turn'.plan.session] \cup turn'.plan.told]_vars

(* What the readers are served - or, when nothing is loaded, what the next       *)
(* start would find - behaves as the Rooms and profiles of RoomService, through  *)
(* refused and cut writes, crashes, starts and a damaged file.  (Left out: a     *)
(* second fault beside the damage in a scenario that writes settings or the      *)
(* backup directory.)                                                         *)
ServedRooms == IF Served(RoomStore) = Unloaded THEN ViewRooms ELSE Rooms.rooms
ServedProfiles == IF Served("profiles") = Unloaded THEN ViewProfiles ELSE Served("profiles")

RoomsBefore ==
  IF Files(RoomStore).backup = NoFile THEN ViewRooms ELSE Prepared(Files(RoomStore).backup).rooms

ExportedRooms == {Prepared(backups[i].image).rooms : i \in DOMAIN backups}
Documents == [f \in Folders |-> folders[f].entry]
WritersNow == IF turn # NoTurn /\ turn.access = "write" THEN {turn.folder} ELSE {}

Service == INSTANCE RoomService
  WITH rooms <- ServedRooms, profiles <- ServedProfiles, previous <- RoomsBefore,
       exported <- ExportedRooms, documents <- Documents, edited <- edits,
       writers <- WritersNow, ServiceBundledRoom <- BundledRoom

\* See Service; every command, refused write, cut write, crash, damaged file and
\* start is a step the owner ordered or RoomService allows for.
ImplementsRoomService == Service!ServiceSpec
=============================================================================
