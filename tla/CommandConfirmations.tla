-------------------------- MODULE CommandConfirmations --------------------------
(***************************************************************************)
(* The owner's confirmations of commands: the registry of moe-command-broker   *)
(* (confirmation.rs) and the command sessions of the Rooms with the waiter       *)
(* around it (command_confirmations.rs), behind one Mutex and one Condvar.       *)
(* One turn uses command tools at a time, so there is one waiter; the window     *)
(* resolves, activates and deactivates from other threads.                    *)
(***************************************************************************)
EXTENDS CommandPolicy

CONSTANTS Rooms,
          Workspaces,    \* root and identity of a folder that a Room may have
          NoWorkspace,   \* the Room has no folder, or it is gone
          NoSession,
          MaxSessions,   \* bound: sessions begun
          MaxRequests,   \* bound: requests made
          MaxPending,    \* MAXIMUM_PENDING_CONFIRMATIONS
          MaxTerminal    \* MAXIMUM_TERMINAL_CONFIRMATIONS

ASSUME ConfirmationConstants ==
  /\ NoWorkspace \notin Workspaces
  /\ {MaxSessions, MaxRequests, MaxPending, MaxTerminal} \subseteq Nat \ {0}

VARIABLES folder,       \* what available_workspace answers for a Room
          sessions,     \* room_sessions
          begun,        \* sessions begun, next_session_sequence
          registry,     \* CommandConfirmationRegistry
          resolutions,  \* what the waiter has not picked up, by request
          waiter,       \* the thread of the turn in wait_for_room_authorization
          asked,        \* requests made, next_request_sequence
          activating,   \* activations that read the folder and not yet the sessions
          approvals     \* observer: the decisions to allow the owner was told of

confirmVars == <<folder, sessions, begun, registry, resolutions, waiter, asked,
                 activating, approvals>>

Sessions == [room : Rooms, id : 1..MaxSessions, key : Workspaces]
Scopes == [session : Sessions, target : Targets]
Lifetimes == {"Once", "RoomSession"}
Requests == 1..MaxRequests

NoWaiter == [at |-> "idle"]

ASSUME SessionConstant == NoSession \notin Sessions

Asked == [id : Requests, scope : Scopes]
Allowed == [id : Requests, scope : Scopes, lifetime : Lifetimes]
Registries == [pending : SUBSET Asked, ready : SUBSET Allowed,
               terminal : SUBSET [id : Requests, session : Sessions], grants : SUBSET Scopes]

\* wait_for_room_authorization: what its thread holds from one lock to the next.
Waiters == {NoWaiter}
  \cup [at : {"look"}, room : Rooms, target : Targets]
  \cup [at : {"folder"}, scope : Scopes]
  \cup [at : {"register", "waiting"}, request : Asked]
  \cup [at : {"answered"}, outcome : {"Authorized", "Denied", "RoomSessionEnded", "Error"}]

ConfirmTypeOK ==
  /\ folder \in [Rooms -> Workspaces \cup {NoWorkspace}]
  /\ sessions \in [Rooms -> Sessions \cup {NoSession}]
  /\ begun \in 0..MaxSessions /\ asked \in 0..MaxRequests
  /\ registry \in Registries
  /\ resolutions \in [Requests -> {"none", "AuthorizationReady", "Denied", "RoomSessionEnded"}]
  /\ waiter \in Waiters
  /\ activating \subseteq [room : Rooms, workspace : Workspaces, seen : BOOLEAN]
  /\ approvals \subseteq Allowed

ConfirmInit ==
  /\ folder \in [Rooms -> Workspaces \cup {NoWorkspace}]
  /\ sessions = [r \in Rooms |-> NoSession]
  /\ begun = 0 /\ asked = 0
  /\ registry = [pending |-> {}, ready |-> {}, terminal |-> {}, grants |-> {}]
  /\ resolutions = [q \in Requests |-> "none"]
  /\ waiter = NoWaiter
  /\ activating = {} /\ approvals = {}

-----------------------------------------------------------------------------
\* The registry, confirmation.rs.  Each operator gives the next registry.

TerminalFull == Cardinality(registry.terminal) >= MaxTerminal
PendingFull == Cardinality(registry.pending) + Cardinality(registry.ready) >= MaxPending

Finish(reg, request) ==
  [reg EXCEPT !.terminal = @ \cup {[id |-> request.id, session |-> request.scope.session]}]

Granted(request) == request.scope \in registry.grants

\* resolve, for a request that is pending
Allows(decision) == \/ decision = "AllowOnce"
                    \/ decision = "AllowRoomSession" /\ AllowsRoomSession("PackageInstall")
Resolve(request, decision) ==
  LET rest == [registry EXCEPT !.pending = @ \ {request}]
      lifetime == IF decision = "AllowOnce" THEN "Once" ELSE "RoomSession"
  IN IF Allows(decision)
     THEN [rest EXCEPT !.ready = @ \cup {[id |-> request.id, scope |-> request.scope,
                                          lifetime |-> lifetime]},
                       !.grants = @ \cup {s \in {request.scope} : lifetime = "RoomSession"}]
     ELSE Finish(rest, request)

Entries(session) ==
  [pending |-> {e \in registry.pending : e.scope.session = session},
   ready |-> {e \in registry.ready : e.scope.session = session},
   terminal |-> {e \in registry.terminal : e.session = session},
   grants |-> {s \in registry.grants : s.session = session}]

\* end_room_session
Ended(session) ==
  [part \in DOMAIN registry |-> registry[part] \ Entries(session)[part]]

-----------------------------------------------------------------------------
\* The sessions of the Rooms.

Waiting == waiter.at = "waiting"

\* active_room_context: the session of the Room, if it is on that folder
HasSessionOn(room, workspace) ==
  sessions[room] # NoSession /\ sessions[room].key = workspace

\* What the window shows the owner of a Room, pending_for_room
Pending(room) == {q \in registry.pending : q.scope.session.room = room}

\* end_session_in_state: a waiter of the session is told so, whatever it had
\* been told and not yet read.
EndSession(session) ==
  /\ registry' = Ended(session)
  /\ resolutions' = IF Waiting /\ waiter.request.scope.session = session
                    THEN [resolutions EXCEPT ![waiter.request.id] = "RoomSessionEnded"]
                    ELSE resolutions

\* end_room_session
EndRoomSession(room) ==
  IF sessions[room] = NoSession
  THEN UNCHANGED <<sessions, registry, resolutions>>
  ELSE /\ EndSession(sessions[room])
       /\ sessions' = [sessions EXCEPT ![room] = NoSession]

\* The folder is bound, cleared, replaced by another one or removed.
ChangeFolder(room) ==
  /\ \E w \in Workspaces \cup {NoWorkspace} : w # folder[room] /\ folder' = [folder EXCEPT ![room] = w]
  /\ UNCHANGED <<sessions, begun, registry, resolutions, waiter, asked, activating, approvals>>

\* desktop_command_room_session_activate reads the folder before any lock ...
Activate(room) ==
  /\ IF folder[room] = NoWorkspace
     THEN EndRoomSession(room) /\ UNCHANGED activating
     ELSE /\ activating = {} /\ begun < MaxSessions   \* bounds: one activation at a time,
                                                     \* and none that cannot begin a session
          /\ activating' = {[room |-> room, workspace |-> folder[room], seen |-> FALSE]}
          /\ UNCHANGED <<sessions, registry, resolutions>>
  /\ UNCHANGED <<folder, begun, waiter, asked, approvals>>

\* ... ensure_room_session keeps a session on the same folder ...
EnsureRoomSession(a) ==
  /\ a \in activating /\ ~a.seen
  /\ activating' = (activating \ {a}) \cup
       {[a EXCEPT !.seen = TRUE] : s \in {s \in {sessions[a.room]} :
                                            s = NoSession \/ s.key # a.workspace}}
  /\ UNCHANGED <<folder, sessions, begun, registry, resolutions, waiter, asked, approvals>>

\* ... and begin_room_session replaces it, after the lock was let go.
BeginRoomSession(a) ==
  /\ a \in activating /\ a.seen /\ begun < MaxSessions
  /\ begun' = begun + 1
  /\ IF sessions[a.room] = NoSession
     THEN UNCHANGED <<registry, resolutions>>
     ELSE EndSession(sessions[a.room])
  /\ sessions' = [sessions EXCEPT ![a.room] = [room |-> a.room, id |-> begun + 1, key |-> a.workspace]]
  /\ activating' = activating \ {a}
  /\ UNCHANGED <<folder, waiter, asked, approvals>>

Deactivate(room) ==
  /\ sessions[room] # NoSession
  /\ EndRoomSession(room)
  /\ UNCHANGED <<folder, begun, waiter, asked, activating, approvals>>

\* resolve_for_room: the request must be pending in that Room; when the registry
\* of finished requests is full nothing happens.
ResolveForRoom(room, decision) ==
  \E request \in Pending(room) :
    /\ ~TerminalFull
    /\ registry' = Resolve(request, decision)
    /\ resolutions' = IF Waiting /\ waiter.request.id = request.id
                      THEN [resolutions EXCEPT ![request.id] =
                              IF Allows(decision) THEN "AuthorizationReady" ELSE "Denied"]
                      ELSE resolutions
    /\ approvals' = approvals \cup (registry'.ready \ registry.ready)
    /\ UNCHANGED <<folder, sessions, begun, waiter, asked, activating>>

-----------------------------------------------------------------------------
\* wait_for_room_authorization, one step per lock.

Answer(outcome) == waiter' = [at |-> "answered", outcome |-> outcome]
Ask(room, target) == waiter' = [at |-> "look", room |-> room, target |-> target]

\* The session of the Room as it is now, which need not be that of the turn.
WaitLooks ==
  /\ waiter.at = "look"
  /\ IF sessions[waiter.room] = NoSession
     THEN Answer("RoomSessionEnded")
     ELSE waiter' = [at |-> "folder", scope |-> [session |-> sessions[waiter.room],
                                                 target |-> waiter.target]]
  /\ UNCHANGED <<folder, sessions, begun, registry, resolutions, asked, activating, approvals>>

\* A session whose folder is gone or another one is ended.
WaitChecksFolder ==
  /\ waiter.at = "folder"
  /\ LET session == waiter.scope.session IN
     IF folder[session.room] = session.key
     THEN /\ asked < MaxRequests
          /\ asked' = asked + 1
          /\ waiter' = [at |-> "register", request |-> [id |-> asked + 1, scope |-> waiter.scope]]
          /\ UNCHANGED <<sessions, registry, resolutions>>
     ELSE /\ EndRoomSession(session.room)
          /\ Answer("RoomSessionEnded")
          /\ UNCHANGED asked
  /\ UNCHANGED <<folder, begun, activating, approvals>>

StillActive(session) == sessions[session.room] = session

\* Fault: the session is not looked at again when the request is registered.
RegisterUnchecked ==
  /\ waiter.at = "register" /\ ~TerminalFull /\ ~PendingFull
  /\ waiter' = [at |-> "waiting", request |-> waiter.request]
  /\ registry' = [registry EXCEPT !.pending = @ \cup {waiter.request}]
  /\ UNCHANGED <<folder, sessions, begun, resolutions, asked, activating, approvals>>

\* wait_for_authorization_inner checks the session again under the lock that
\* registers the request, and a grant is consumed under the same lock.
WaitRegisters ==
  /\ waiter.at = "register"
  /\ LET request == waiter.request IN
       CASE ~StillActive(request.scope.session) ->
              Answer("RoomSessionEnded") /\ UNCHANGED registry
         [] TerminalFull \/ PendingFull ->
              Answer("Error") /\ UNCHANGED registry
         [] OTHER ->
              IF Granted(request)
              THEN Answer("Authorized") /\ registry' = Finish(registry, request)
              ELSE /\ waiter' = [at |-> "waiting", request |-> request]
                   /\ registry' = [registry EXCEPT !.pending = @ \cup {request}]
  /\ UNCHANGED <<folder, sessions, begun, resolutions, asked, activating, approvals>>

\* The waiter takes its resolution; an authorization is consumed.
WaitTakes ==
  /\ Waiting
  /\ LET request == waiter.request
         ready == {e \in registry.ready : e.id = request.id}
         resolution == resolutions[request.id] IN
     /\ resolution # "none"
     /\ resolutions' = [resolutions EXCEPT ![request.id] = "none"]
     /\ IF resolution = "AuthorizationReady"
        THEN IF TerminalFull \/ ready = {}
             THEN Answer("Error") /\ UNCHANGED registry
             ELSE /\ Answer("Authorized")
                  /\ registry' = Finish([registry EXCEPT !.ready = @ \ ready], request)
        ELSE Answer(resolution) /\ UNCHANGED registry
  /\ UNCHANGED <<folder, sessions, begun, asked, activating, approvals>>

\* Fault: the deadline is looked at before the resolution.
DeadlineFirst ==
  /\ Waiting
  /\ Answer("Denied")
  /\ registry' = IF waiter.request \in registry.pending
                 THEN Resolve(waiter.request, "TimedOut") ELSE registry
  /\ UNCHANGED <<folder, sessions, begun, resolutions, asked, activating, approvals>>

\* The deadline of 120 seconds, looked at under the lock when there is no
\* resolution.
WaitTimesOut ==
  /\ Waiting
  /\ resolutions[waiter.request.id] = "none"
  /\ IF TerminalFull \/ waiter.request \notin registry.pending
     THEN Answer("Error") /\ UNCHANGED registry
     ELSE Answer("Denied") /\ registry' = Resolve(waiter.request, "TimedOut")
  /\ UNCHANGED <<folder, sessions, begun, resolutions, asked, activating, approvals>>

WaitStep == WaitLooks \/ WaitChecksFolder \/ WaitRegisters \/ WaitTakes \/ WaitTimesOut

Decisions == {"AllowOnce", "AllowRoomSession", "Deny"}
OwnerStep ==
  \/ \E r \in Rooms : ChangeFolder(r) \/ Activate(r) \/ Deactivate(r)
  \/ \E a \in activating : EnsureRoomSession(a) \/ BeginRoomSession(a)
  \/ \E r \in Rooms, d \in Decisions : ResolveForRoom(r, d)
================================================================================
