-------------------------- MODULE ProviderTurn_proofs --------------------------
(***************************************************************************)
(* What a turn of a provider keeps, for any Rooms, folders, calls and limits:    *)
(* its types, that a turn reported as not started is one that Codex does not       *)
(* work on, that the registry of confirmations is of active sessions, that an       *)
(* acknowledged decision holds, that installations were allowed, and that a         *)
(* launch leaves nothing behind.  That a turn ends is liveness and left to model     *)
(* checking.                                                                *)
(***************************************************************************)
EXTENDS ProviderTurn, FiniteSetTheorems, TLAPS

-----------------------------------------------------------------------------
(* The confirmations: the steps of the owner and of the waiter preserve one      *)
(* invariant about the registry, the sessions and what the waiter was told.     *)

\* A session is that of its Room, and its number was given out.
SessionsAreNumbered ==
  \A r \in Rooms : sessions[r] # NoSession => sessions[r].room = r /\ sessions[r].id <= begun

\* The registry holds nothing of a session that is over.
RegistryIsActive ==
  /\ \A e \in registry.pending \cup registry.ready : StillActive(e.scope.session)
  /\ \A e \in registry.terminal : StillActive(e.session)
  /\ \A scope \in registry.grants : StillActive(scope.session)

\* Requests are told apart by their numbers, and one that was allowed does not
\* wait for a decision any more.
RequestsAreNumbered ==
  /\ \A e \in registry.pending \cup approvals : e.id <= asked
  /\ \A e, f \in registry.pending : e.id = f.id => e = f
  /\ \A a, b \in approvals : a.id = b.id => a = b
  /\ \A e \in registry.pending, a \in approvals : e.id # a.id
  /\ waiter.at \in {"register", "waiting"} => waiter.request.id = asked
  /\ waiter.at = "register" =>
       \A e \in registry.pending \cup approvals : e.id # waiter.request.id

\* What can be taken without asking was allowed by the owner.
AllowedByOwner ==
  /\ registry.ready \subseteq approvals
  /\ \A scope \in registry.grants :
       \E a \in approvals : a.scope = scope /\ a.lifetime = "RoomSession"

\* A resolution is for the one waiter, and is there as soon as its request was
\* allowed, with the authorization it stands for.
WaiterIsTold ==
  /\ \A q \in Requests : resolutions[q] # "none" => Waiting /\ q = waiter.request.id
  /\ Waiting =>
       LET mine == waiter.request IN
       /\ \A e \in registry.pending : e.id = mine.id => e = mine
       /\ \A a \in approvals : a.id = mine.id => a.scope = mine.scope
       /\ (\E a \in approvals : a.id = mine.id)
            => resolutions[mine.id] \in {"AuthorizationReady", "RoomSessionEnded"}
       /\ resolutions[mine.id] = "AuthorizationReady"
            => \E e \in registry.ready : e.id = mine.id

ConfirmInv ==
  /\ ConfirmTypeOK
  /\ SessionsAreNumbered
  /\ RegistryIsActive
  /\ RequestsAreNumbered
  /\ AllowedByOwner
  /\ WaiterIsTold

-----------------------------------------------------------------------------
(* Types.                                                                   *)

\* What the waiter holds at each of its steps.
LEMMA WaiterShapes ==
  ASSUME ConfirmTypeOK
  PROVE  /\ waiter.at \in {"idle", "look", "folder", "register", "waiting", "answered"}
         /\ waiter.at = "idle" => waiter = NoWaiter
         /\ waiter.at = "look" => waiter.room \in Rooms /\ waiter.target \in Targets
         /\ waiter.at = "folder" => waiter.scope \in Scopes
         /\ waiter.at \in {"register", "waiting"} => waiter.request \in Asked
         /\ waiter.at = "answered" =>
              waiter.outcome \in {"Authorized", "Denied", "RoomSessionEnded", "Error"}
BY DEF ConfirmTypeOK, Waiters, NoWaiter

\* An answer ends the waiting.
LEMMA AnswerType ==
  ASSUME NEW answer \in {"Authorized", "Denied", "RoomSessionEnded", "Error"}, Answer(answer)
  PROVE  waiter' \in Waiters /\ waiter'.at = "answered" /\ waiter'.outcome = answer
BY DEF Answer, Waiters

\* What is left of the registry when a session is ended.
LEMMA EndedRegistry ==
  ASSUME registry \in Registries, NEW session
  PROVE  /\ Ended(session) \in Registries
         /\ Ended(session).pending = {e \in registry.pending : e.scope.session # session}
         /\ Ended(session).ready = {e \in registry.ready : e.scope.session # session}
         /\ Ended(session).terminal = {e \in registry.terminal : e.session # session}
         /\ Ended(session).grants = {g \in registry.grants : g.session # session}
<1>1. DOMAIN registry = {"pending", "ready", "terminal", "grants"}
  BY DEF Registries
<1>2. /\ Ended(session).pending = {e \in registry.pending : e.scope.session # session}
      /\ Ended(session).ready = {e \in registry.ready : e.scope.session # session}
      /\ Ended(session).terminal = {e \in registry.terminal : e.session # session}
      /\ Ended(session).grants = {g \in registry.grants : g.session # session}
  BY <1>1 DEF Ended, Entries, Registries
<1>3. Ended(session) = [pending |-> Ended(session).pending, ready |-> Ended(session).ready,
                        terminal |-> Ended(session).terminal, grants |-> Ended(session).grants]
  <2>. DEFINE rest == Ended(session)
  <2>1. rest = [part \in {"pending", "ready", "terminal", "grants"} |-> rest[part]]
    BY <1>1 DEF Ended
  <2>. HIDE DEF rest
  <2>2. rest = [pending |-> rest.pending, ready |-> rest.ready,
                terminal |-> rest.terminal, grants |-> rest.grants]
    BY <2>1
  <2>. QED
    BY <2>2 DEF rest
<1>4. [pending |-> Ended(session).pending, ready |-> Ended(session).ready,
       terminal |-> Ended(session).terminal, grants |-> Ended(session).grants] \in Registries
  BY <1>2 DEF Registries
<1>. QED
  BY <1>2, <1>3, <1>4

\* A finished request is remembered with its session.
LEMMA FinishedRegistry ==
  ASSUME NEW reg \in Registries, NEW req \in Asked
  PROVE  /\ Finish(reg, req) \in Registries
         /\ Finish(reg, req).pending = reg.pending
         /\ Finish(reg, req).ready = reg.ready
         /\ Finish(reg, req).grants = reg.grants
         /\ Finish(reg, req).terminal
              = reg.terminal \cup {[id |-> req.id, session |-> req.scope.session]}
<1>1. [id |-> req.id, session |-> req.scope.session] \in [id : Requests, session : Sessions]
  BY DEF Asked, Scopes
<1>. QED
  BY <1>1 DEF Finish, Registries

-----------------------------------------------------------------------------
(* Sessions.                                                                *)

\* Ending the session of a Room takes everything of it out of the registry, also
\* when a new one begins at once, and tells its waiter.
LEMMA EndSessionKeeps ==
  ASSUME ConfirmInv, NEW room \in Rooms, sessions[room] # NoSession,
         EndSession(sessions[room]),
         ConfirmTypeOK', SessionsAreNumbered',
         \A r \in Rooms \ {room} : sessions'[r] = sessions[r],
         \/ waiter' = waiter
         \/ waiter.at \notin {"register", "waiting"} /\ waiter'.at = "answered",
         UNCHANGED <<asked, approvals>>
  PROVE  ConfirmInv'
<1>. USE DEF ConfirmInv
<1>. DEFINE session == sessions[room]
<1>1. session \in Sessions /\ session.room = room /\ registry \in Registries
  BY DEF ConfirmTypeOK, SessionsAreNumbered
<1>2. /\ registry'.pending = {e \in registry.pending : e.scope.session # session}
      /\ registry'.ready = {e \in registry.ready : e.scope.session # session}
      /\ registry'.terminal = {e \in registry.terminal : e.session # session}
      /\ registry'.grants = {g \in registry.grants : g.session # session}
  BY <1>1, EndedRegistry DEF EndSession
<1>3. ASSUME NEW other, other.room \in Rooms, StillActive(other), other # session
      PROVE  StillActive(other)'
  BY <1>1, <1>3 DEF StillActive
<1>4. /\ \A e \in registry.pending \cup registry.ready : e.scope.session.room \in Rooms
      /\ \A e \in registry.terminal : e.session.room \in Rooms
      /\ \A scope \in registry.grants : scope.session.room \in Rooms
  BY <1>1 DEF Registries, Asked, Allowed, Scopes, Sessions
<1>5. RegistryIsActive'
  BY <1>2, <1>3, <1>4 DEF RegistryIsActive
<1>6. RequestsAreNumbered' /\ AllowedByOwner'
  BY <1>2 DEF RequestsAreNumbered, AllowedByOwner
<1>7. WaiterIsTold'
  <2>1. CASE Waiting
    <3>1. waiter' = waiter /\ waiter.request \in Asked /\ waiter.request.id \in Requests
      BY <2>1, WaiterShapes DEF Waiting, Asked
    <3>. DEFINE mine == waiter.request
    <3>2. resolutions' = IF mine.scope.session = session
                         THEN [resolutions EXCEPT ![mine.id] = "RoomSessionEnded"]
                         ELSE resolutions
      BY <2>1 DEF EndSession
    <3>3. \A q \in Requests : resolutions'[q] # "none" => q = mine.id
      BY <2>1, <3>2 DEF WaiterIsTold, ConfirmTypeOK
    <3>4. resolutions'[mine.id] \in {resolutions[mine.id], "RoomSessionEnded"}
      BY <3>1, <3>2 DEF ConfirmTypeOK
    <3>5. resolutions'[mine.id] = "AuthorizationReady"
            => \E e \in registry'.ready : e.id = mine.id
      <4>. SUFFICES ASSUME resolutions'[mine.id] = "AuthorizationReady"
                    PROVE  \E e \in registry'.ready : e.id = mine.id
        OBVIOUS
      <4>1. mine.scope.session # session /\ resolutions' = resolutions
        BY <3>1, <3>2 DEF ConfirmTypeOK
      <4>2. PICK e \in registry.ready : e.id = mine.id
        BY <2>1, <4>1 DEF WaiterIsTold
      <4>3. e.scope = mine.scope
        BY <2>1, <4>2 DEF WaiterIsTold, AllowedByOwner
      <4>. QED
        BY <1>2, <4>1, <4>2, <4>3
    <3>. QED
      BY <1>2, <2>1, <3>1, <3>3, <3>4, <3>5 DEF WaiterIsTold, Waiting
  <2>2. CASE ~Waiting
    BY <2>2 DEF EndSession, WaiterIsTold, Waiting
  <2>. QED
    BY <2>1, <2>2
<1>. QED
  BY <1>5, <1>6, <1>7

\* The end of a Room's session, if it has one.
LEMMA EndRoomSessionKeeps ==
  ASSUME ConfirmInv, NEW room \in Rooms, EndRoomSession(room),
         waiter' \in Waiters, activating' = activating,
         \/ waiter' = waiter
         \/ waiter.at \notin {"register", "waiting"} /\ waiter'.at = "answered",
         UNCHANGED <<folder, begun, asked, approvals>>
  PROVE  ConfirmInv'
<1>. USE DEF ConfirmInv
<1>1. CASE sessions[room] = NoSession
  <2>1. UNCHANGED <<sessions, registry, resolutions>>
    BY <1>1 DEF EndRoomSession
  <2>. QED
    BY <2>1 DEF ConfirmTypeOK, SessionsAreNumbered, RegistryIsActive, RequestsAreNumbered,
       AllowedByOwner, WaiterIsTold, StillActive, Waiting
<1>2. CASE sessions[room] # NoSession
  <2>1. EndSession(sessions[room]) /\ sessions' = [sessions EXCEPT ![room] = NoSession]
    BY <1>2 DEF EndRoomSession
  <2>2. sessions' \in [Rooms -> Sessions \cup {NoSession}] /\ SessionsAreNumbered'
        /\ \A r \in Rooms \ {room} : sessions'[r] = sessions[r]
    BY <2>1 DEF ConfirmTypeOK, SessionsAreNumbered
  <2>3. registry' \in Registries
    BY <2>1, EndedRegistry DEF EndSession, ConfirmTypeOK
  <2>4. resolutions' \in [Requests -> {"none", "AuthorizationReady", "Denied", "RoomSessionEnded"}]
    BY <2>1 DEF EndSession, ConfirmTypeOK
  <2>5. ConfirmTypeOK'
    BY <2>2, <2>3, <2>4 DEF ConfirmTypeOK
  <2>. QED
    BY <1>2, <2>1, <2>2, <2>5, EndSessionKeeps
<1>. QED
  BY <1>1, <1>2

\* The owner changes folders, and activates and deactivates the sessions of Rooms.
LEMMA SessionsKeep ==
  ASSUME ConfirmInv,
         \/ \E r \in Rooms : ChangeFolder(r) \/ Activate(r) \/ Deactivate(r)
         \/ \E a \in activating : EnsureRoomSession(a) \/ BeginRoomSession(a)
  PROVE  ConfirmInv'
<1>. USE DEF ConfirmInv
<1>. DEFINE Activations == [room : Rooms, workspace : Workspaces, seen : BOOLEAN]
<1>1. ASSUME folder' \in [Rooms -> Workspaces \cup {NoWorkspace}],
             activating' \subseteq Activations,
             UNCHANGED <<sessions, begun, registry, resolutions, waiter, asked, approvals>>
      PROVE  ConfirmInv'
  BY <1>1 DEF ConfirmTypeOK, SessionsAreNumbered, RegistryIsActive, RequestsAreNumbered,
     AllowedByOwner, WaiterIsTold, StillActive, Waiting
<1>2. ASSUME NEW r \in Rooms, ChangeFolder(r)
      PROVE  ConfirmInv'
  BY <1>1, <1>2 DEF ChangeFolder, ConfirmTypeOK
<1>3. ASSUME NEW r \in Rooms, Activate(r)
      PROVE  ConfirmInv'
  <2>1. CASE folder[r] = NoWorkspace
    BY <1>3, <2>1, EndRoomSessionKeeps DEF Activate, ConfirmTypeOK
  <2>2. CASE folder[r] # NoWorkspace
    <3>. DEFINE new == [room |-> r, workspace |-> folder[r], seen |-> FALSE]
    <3>1. activating' \subseteq Activations
      <4>1. folder[r] \in Workspaces
        BY <2>2 DEF ConfirmTypeOK
      <4>2. new \in Activations
        BY <4>1
      <4>3. activating' = {new}
        BY <1>3, <2>2 DEF Activate
      <4>. QED
        BY <4>2, <4>3
    <3>. QED
      BY <1>1, <1>3, <2>2, <3>1 DEF Activate, ConfirmTypeOK
  <2>. QED
    BY <2>1, <2>2
<1>4. ASSUME NEW r \in Rooms, Deactivate(r)
      PROVE  ConfirmInv'
  BY <1>4, EndRoomSessionKeeps DEF Deactivate, ConfirmTypeOK
<1>5. ASSUME NEW a \in activating, EnsureRoomSession(a)
      PROVE  ConfirmInv'
  <2>1. a \in Activations /\ [a EXCEPT !.seen = TRUE] \in Activations
    BY DEF ConfirmTypeOK
  <2>2. activating' \subseteq Activations
    BY <1>5, <2>1 DEF EnsureRoomSession, ConfirmTypeOK
  <2>. QED
    BY <1>1, <1>5, <2>2 DEF EnsureRoomSession, ConfirmTypeOK
<1>6. ASSUME NEW a \in activating, BeginRoomSession(a)
      PROVE  ConfirmInv'
  <2>. DEFINE new == [room |-> a.room, id |-> begun + 1, key |-> a.workspace]
  <2>1. /\ begun < MaxSessions /\ begun' = begun + 1
        /\ sessions' = [sessions EXCEPT ![a.room] = new]
        /\ IF sessions[a.room] = NoSession THEN UNCHANGED <<registry, resolutions>>
           ELSE EndSession(sessions[a.room])
        /\ activating' = activating \ {a}
        /\ UNCHANGED <<folder, waiter, asked, approvals>>
    BY <1>6 DEF BeginRoomSession
  <2>2. a.room \in Rooms /\ a.workspace \in Workspaces
    BY DEF ConfirmTypeOK
  <2>3. begun' \in 0..MaxSessions /\ begun' \in 1..MaxSessions
    BY <2>1, ConfirmationConstants DEF ConfirmTypeOK
  <2>4. new \in Sessions /\ new.room = a.room /\ new.id = begun'
    BY <2>1, <2>2, <2>3 DEF Sessions
  <2>. HIDE DEF new
  <2>5. /\ sessions' \in [Rooms -> Sessions \cup {NoSession}] /\ sessions'[a.room] = new
        /\ \A r \in Rooms \ {a.room} : sessions'[r] = sessions[r]
    BY <2>1, <2>2, <2>4 DEF ConfirmTypeOK
  <2>6. SessionsAreNumbered'
    <3>. SUFFICES ASSUME NEW r \in Rooms, sessions'[r] # NoSession
                  PROVE  sessions'[r].room = r /\ sessions'[r].id <= begun'
      BY DEF SessionsAreNumbered
    <3>1. CASE r = a.room
      BY <2>3, <2>4, <2>5, <3>1
    <3>2. CASE r # a.room
      <4>1. sessions[r].room = r /\ sessions[r].id <= begun /\ sessions[r] \in Sessions
        BY <2>5, <3>2 DEF SessionsAreNumbered, ConfirmTypeOK
      <4>. QED
        BY <2>1, <2>5, <3>2, <4>1, ConfirmationConstants DEF ConfirmTypeOK, Sessions
    <3>. QED
      BY <3>1, <3>2
  <2>7. registry' \in Registries
    BY <2>1, EndedRegistry DEF EndSession, ConfirmTypeOK
  <2>8. resolutions' \in [Requests -> {"none", "AuthorizationReady", "Denied", "RoomSessionEnded"}]
    BY <2>1 DEF EndSession, ConfirmTypeOK
  <2>9. ConfirmTypeOK'
    BY <2>1, <2>3, <2>5, <2>7, <2>8 DEF ConfirmTypeOK
  <2>10. CASE sessions[a.room] = NoSession
    <3>1. /\ UNCHANGED <<registry, resolutions>>
          /\ \A s \in Sessions : StillActive(s) => StillActive(s)'
      BY <2>1, <2>2, <2>5, <2>10, SessionConstant DEF StillActive, Sessions
    <3>2. /\ \A e \in registry.pending \cup registry.ready : e.scope.session \in Sessions
          /\ \A e \in registry.terminal : e.session \in Sessions
          /\ \A scope \in registry.grants : scope.session \in Sessions
      BY DEF ConfirmTypeOK, Registries, Asked, Allowed, Scopes
    <3>3. RegistryIsActive'
      BY <3>1, <3>2 DEF RegistryIsActive
    <3>. QED
      BY <2>1, <2>6, <2>9, <3>1, <3>3 DEF RequestsAreNumbered, AllowedByOwner,
         WaiterIsTold, Waiting
  <2>11. CASE sessions[a.room] # NoSession
    BY <2>1, <2>2, <2>5, <2>6, <2>9, <2>11, EndSessionKeeps
  <2>. QED
    BY <2>10, <2>11
<1>. QED
  BY <1>2, <1>3, <1>4, <1>5, <1>6

-----------------------------------------------------------------------------
(* Decisions.                                                               *)

\* What a decision makes of the registry.
LEMMA ResolvedRegistry ==
  ASSUME registry \in Registries, NEW req \in registry.pending, NEW decision
  PROVE  LET new == Resolve(req, decision)
             lifetime == IF decision = "AllowOnce" THEN "Once" ELSE "RoomSession"
         IN /\ new \in Registries
            /\ new.pending = registry.pending \ {req}
            /\ Allows(decision) =>
                 /\ new.ready = registry.ready \cup {[id |-> req.id, scope |-> req.scope,
                                                      lifetime |-> lifetime]}
                 /\ new.terminal = registry.terminal
                 /\ new.grants \subseteq registry.grants \cup {req.scope}
                 /\ lifetime = "Once" => new.grants = registry.grants
            /\ ~Allows(decision) =>
                 /\ new.ready = registry.ready
                 /\ new.terminal = registry.terminal
                      \cup {[id |-> req.id, session |-> req.scope.session]}
                 /\ new.grants = registry.grants
<1>. DEFINE lifetime == IF decision = "AllowOnce" THEN "Once" ELSE "RoomSession"
            entry == [id |-> req.id, scope |-> req.scope, lifetime |-> lifetime]
            rest == [registry EXCEPT !.pending = @ \ {req}]
<1>1. req \in Asked /\ req.scope \in Scopes
  BY DEF Registries, Asked
<1>2. entry \in Allowed
  BY <1>1 DEF Allowed, Asked, Lifetimes
<1>3. /\ rest \in Registries /\ rest.pending = registry.pending \ {req}
      /\ rest.ready = registry.ready /\ rest.terminal = registry.terminal
      /\ rest.grants = registry.grants
  BY DEF Registries
<1>4. CASE Allows(decision)
  <2>1. Resolve(req, decision) =
          [rest EXCEPT !.ready = @ \cup {entry},
                       !.grants = @ \cup {s \in {req.scope} : lifetime = "RoomSession"}]
    BY <1>4 DEF Resolve
  <2>. HIDE DEF rest, entry
  <2>2. rest = [pending |-> rest.pending, ready |-> rest.ready, terminal |-> rest.terminal,
                grants |-> rest.grants]
    BY <1>3 DEF Registries
  <2>. DEFINE given == {s \in {req.scope} : lifetime = "RoomSession"}
  <2>3. given \subseteq Scopes /\ (lifetime = "Once" => given = {})
    BY <1>1
  <2>. HIDE DEF given
  <2>4. Resolve(req, decision) =
          [pending |-> rest.pending, ready |-> rest.ready \cup {entry},
           terminal |-> rest.terminal, grants |-> rest.grants \cup given]
    BY <2>1, <2>2 DEF given
  <2>5. Resolve(req, decision) \in Registries
    BY <1>2, <1>3, <2>3, <2>4 DEF Registries
  <2>6. given \subseteq {req.scope}
    BY DEF given
  <2>. QED
    BY <1>3, <1>4, <2>3, <2>4, <2>5, <2>6 DEF entry
<1>5. CASE ~Allows(decision)
  <2>1. Resolve(req, decision) = Finish(rest, req)
    BY <1>5 DEF Resolve
  <2>. HIDE DEF rest
  <2>. QED
    BY <1>1, <1>3, <1>5, <2>1, FinishedRegistry
<1>. QED
  BY <1>4, <1>5

\* The owner decides about a request that is pending: its waiter is told in the
\* same step in which it can no longer be decided otherwise.
LEMMA DecisionsKeep ==
  ASSUME ConfirmInv, NEW room \in Rooms, NEW decision, ResolveForRoom(room, decision)
  PROVE  ConfirmInv'
<1>. USE DEF ConfirmInv
<1>. DEFINE lifetime == IF decision = "AllowOnce" THEN "Once" ELSE "RoomSession"
<1>1. PICK req \in registry.pending :
        /\ registry' = Resolve(req, decision)
        /\ resolutions' = IF Waiting /\ waiter.request.id = req.id
                          THEN [resolutions EXCEPT ![req.id] =
                                  IF Allows(decision) THEN "AuthorizationReady" ELSE "Denied"]
                          ELSE resolutions
        /\ approvals' = approvals \cup (registry'.ready \ registry.ready)
        /\ UNCHANGED <<folder, sessions, begun, waiter, asked, activating>>
  BY DEF ResolveForRoom, Pending
<1>. DEFINE entry == [id |-> req.id, scope |-> req.scope, lifetime |-> lifetime]
<1>2. registry \in Registries /\ req \in Asked
  BY DEF ConfirmTypeOK, Registries
<1>3. entry \in Allowed /\ req.id \in Requests
  BY <1>2 DEF Allowed, Asked, Lifetimes
<1>4. /\ registry' \in Registries
      /\ registry'.pending = registry.pending \ {req}
      /\ Allows(decision) =>
           /\ registry'.ready = registry.ready \cup {entry}
           /\ registry'.terminal = registry.terminal
           /\ registry'.grants \subseteq registry.grants \cup {req.scope}
           /\ lifetime = "Once" => registry'.grants = registry.grants
      /\ ~Allows(decision) =>
           /\ registry'.ready = registry.ready
           /\ registry'.terminal = registry.terminal
                \cup {[id |-> req.id, session |-> req.scope.session]}
           /\ registry'.grants = registry.grants
  BY <1>1, <1>2, ResolvedRegistry
<1>5. StillActive(req.scope.session)
  BY DEF RegistryIsActive
<1>6. \A a \in approvals : a.id # req.id
  BY DEF RequestsAreNumbered
<1>7. entry \notin registry.ready
  BY <1>6 DEF AllowedByOwner
<1>8. /\ Allows(decision) => approvals' = approvals \cup {entry}
      /\ ~Allows(decision) => approvals' = approvals
  BY <1>1, <1>4, <1>7
<1>. HIDE DEF entry, lifetime
<1>9. entry.id = req.id /\ entry.scope = req.scope /\ entry.lifetime = lifetime
      /\ lifetime \in {"Once", "RoomSession"}
  BY DEF entry, lifetime
<1>10. resolutions' \in [Requests -> {"none", "AuthorizationReady", "Denied", "RoomSessionEnded"}]
  BY <1>1, <1>3 DEF ConfirmTypeOK
<1>11. ConfirmTypeOK'
  BY <1>1, <1>3, <1>4, <1>8, <1>10 DEF ConfirmTypeOK
<1>12. SessionsAreNumbered'
  BY <1>1 DEF SessionsAreNumbered
<1>13. RegistryIsActive'
  <2>1. \A session : StillActive(session)' <=> StillActive(session)
    BY <1>1 DEF StillActive
  <2>2. \A e \in registry'.terminal :
          e \in registry.terminal \/ e.session = req.scope.session
    BY <1>4
  <2>3. \A e \in registry'.ready : e \in registry.ready \/ e.scope = req.scope
    BY <1>4, <1>9
  <2>4. \A g \in registry'.grants : g \in registry.grants \/ g = req.scope
    BY <1>4
  <2>. QED
    BY <1>4, <1>5, <2>1, <2>2, <2>3, <2>4 DEF RegistryIsActive
<1>14. RequestsAreNumbered'
  <2>1. /\ registry'.pending \subseteq registry.pending /\ req \notin registry'.pending
        /\ \A a \in approvals' : a \in approvals \/ a = entry
    BY <1>4, <1>8
  <2>2. \A e \in registry'.pending : e.id # req.id
    BY <2>1 DEF RequestsAreNumbered
  <2>3. waiter.at = "register" => waiter.request.id # req.id
    BY DEF RequestsAreNumbered
  <2>. QED
    BY <1>1, <1>6, <1>9, <2>1, <2>2, <2>3 DEF RequestsAreNumbered
<1>15. AllowedByOwner'
  <2>1. registry'.ready \subseteq approvals'
    BY <1>4, <1>8 DEF AllowedByOwner
  <2>2. ASSUME NEW g \in registry'.grants
        PROVE  \E a \in approvals' : a.scope = g /\ a.lifetime = "RoomSession"
    <3>1. CASE g \in registry.grants
      BY <1>8, <3>1 DEF AllowedByOwner
    <3>2. CASE g \notin registry.grants
      <4>1. Allows(decision) /\ g = req.scope /\ lifetime = "RoomSession"
        BY <1>4, <1>9, <3>2
      <4>. QED
        BY <1>8, <1>9, <4>1
    <3>. QED
      BY <3>1, <3>2
  <2>. QED
    BY <2>1, <2>2 DEF AllowedByOwner
<1>16. WaiterIsTold'
  <2>1. CASE Waiting /\ waiter.request.id = req.id
    <3>1. waiter.request = req
      BY <2>1 DEF WaiterIsTold
    <3>2. /\ \A q \in Requests : q # req.id => resolutions'[q] = resolutions[q]
          /\ Allows(decision) => resolutions'[req.id] = "AuthorizationReady"
          /\ ~Allows(decision) => resolutions'[req.id] = "Denied"
      BY <1>1, <1>3, <2>1 DEF ConfirmTypeOK
    <3>3. \A q \in Requests : resolutions'[q] # "none" => Waiting' /\ q = waiter'.request.id
      BY <1>1, <2>1, <3>2 DEF WaiterIsTold, Waiting
    <3>4. \A a \in approvals' : a.id = req.id => Allows(decision) /\ a.scope = req.scope
      BY <1>6, <1>8, <1>9
    <3>5. \A e \in registry'.pending : e.id = req.id => e = req
      BY <1>4 DEF RequestsAreNumbered
    <3>6. Allows(decision) => \E e \in registry'.ready : e.id = req.id
      BY <1>4, <1>9
    <3>. QED
      BY <1>1, <2>1, <3>1, <3>2, <3>3, <3>4, <3>5, <3>6 DEF WaiterIsTold, Waiting
  <2>2. CASE ~(Waiting /\ waiter.request.id = req.id)
    <3>1. resolutions' = resolutions
      BY <1>1, <2>2
    <3>2. Waiting => \A a \in approvals' : a.id = waiter.request.id => a \in approvals
      BY <1>8, <1>9, <2>2
    <3>3. registry'.pending \subseteq registry.pending /\ registry.ready \subseteq registry'.ready
      BY <1>4
    <3>. QED
      BY <1>1, <3>1, <3>2, <3>3 DEF WaiterIsTold, Waiting
  <2>. QED
    BY <2>1, <2>2
<1>. QED
  BY <1>11, <1>12, <1>13, <1>14, <1>15, <1>16

-----------------------------------------------------------------------------
(* The waiter.                                                              *)

ResolutionsType == {"none", "AuthorizationReady", "Denied", "RoomSessionEnded"}

\* Without a waiter nothing is left to be read.
LEMMA NothingUnread ==
  ASSUME ConfirmInv, ~Waiting
  PROVE  \A q \in Requests : resolutions[q] = "none"
BY DEF ConfirmInv, WaiterIsTold

\* A waiter that does not wait for a decision holds nothing that could be stale:
\* when all it leaves is what the registry still has, finished requests of active
\* sessions apart, and no resolution.
LEMMA WaiterDone ==
  ASSUME ConfirmInv,
         waiter' \in Waiters, waiter'.at \notin {"register", "waiting"},
         resolutions' \in [Requests -> ResolutionsType],
         \A q \in Requests : resolutions'[q] = "none",
         registry' \in Registries,
         registry'.pending \subseteq registry.pending,
         registry'.ready \subseteq registry.ready,
         registry'.grants \subseteq registry.grants,
         \A e \in registry'.terminal : e \in registry.terminal \/ StillActive(e.session),
         UNCHANGED <<folder, sessions, begun, asked, activating, approvals>>
  PROVE  ConfirmInv'
<1>. USE DEF ConfirmInv
<1>1. ConfirmTypeOK' /\ SessionsAreNumbered'
  BY DEF ConfirmTypeOK, SessionsAreNumbered, ResolutionsType
<1>2. RegistryIsActive'
  BY DEF RegistryIsActive, StillActive
<1>3. RequestsAreNumbered' /\ AllowedByOwner'
  BY DEF RequestsAreNumbered, AllowedByOwner
<1>4. WaiterIsTold'
  BY DEF WaiterIsTold, Waiting
<1>. QED
  BY <1>1, <1>2, <1>3, <1>4

\* The owner is asked, or the one who asked has read the answer.
LEMMA AskingKeeps ==
  ASSUME ConfirmInv, waiter.at \notin {"register", "waiting"},
         \/ waiter' = NoWaiter
         \/ waiter'.at = "answered" /\ waiter' \in Waiters
         \/ \E room \in Rooms, target \in Targets : Ask(room, target)
         \/ waiter'.at = "folder" /\ waiter' \in Waiters,
         UNCHANGED <<folder, sessions, begun, registry, resolutions, asked, activating, approvals>>
  PROVE  ConfirmInv'
<1>1. waiter' \in Waiters /\ waiter'.at \notin {"register", "waiting"}
  BY DEF Ask, Waiters, NoWaiter
<1>2. resolutions' \in [Requests -> ResolutionsType] /\ registry \in Registries
  BY DEF ConfirmInv, ConfirmTypeOK, ResolutionsType
<1>3. \A q \in Requests : resolutions'[q] = "none"
  BY NothingUnread DEF Waiting
<1>. QED
  BY <1>1, <1>2, <1>3, WaiterDone

LEMMA WaitStepKeeps ==
  ASSUME ConfirmInv, WaitStep
  PROVE  ConfirmInv'
<1>. USE DEF ConfirmInv
<1>. DEFINE mine == waiter.request
<1>1. CASE WaitLooks
  <2>1. waiter.at = "look" /\ waiter.room \in Rooms /\ waiter.target \in Targets
    BY <1>1, WaiterShapes DEF WaitLooks
  <2>2. CASE sessions[waiter.room] = NoSession
    BY <1>1, <2>1, <2>2, AnswerType, AskingKeeps DEF WaitLooks
  <2>3. CASE sessions[waiter.room] # NoSession
    <3>1. [session |-> sessions[waiter.room], target |-> waiter.target] \in Scopes
      BY <2>1, <2>3 DEF ConfirmTypeOK, Scopes
    <3>2. waiter'.at = "folder" /\ waiter' \in Waiters
      BY <1>1, <2>3, <3>1 DEF WaitLooks, Waiters
    <3>. QED
      BY <1>1, <2>1, <3>2, AskingKeeps DEF WaitLooks
  <2>. QED
    BY <2>2, <2>3
<1>2. CASE WaitChecksFolder
  <2>1. waiter.at = "folder" /\ waiter.scope \in Scopes
    BY <1>2, WaiterShapes DEF WaitChecksFolder
  <2>. DEFINE session == waiter.scope.session
  <2>2. session.room \in Rooms
    BY <2>1 DEF Scopes, Sessions
  <2>3. CASE folder[session.room] = session.key
    <3>. DEFINE new == [id |-> asked + 1, scope |-> waiter.scope]
    <3>1. /\ asked < MaxRequests /\ asked' = asked + 1
          /\ waiter' = [at |-> "register", request |-> new]
          /\ UNCHANGED <<folder, sessions, begun, registry, resolutions, activating, approvals>>
      BY <1>2, <2>3 DEF WaitChecksFolder
    <3>2. asked \in Nat /\ asked + 1 \in Requests /\ asked' \in 0..MaxRequests
      BY <3>1, ConfirmationConstants DEF ConfirmTypeOK, Requests
    <3>3. new \in Asked /\ new.id = asked + 1
      BY <2>1, <3>2 DEF Asked
    <3>. HIDE DEF new
    <3>4. waiter' \in Waiters /\ waiter'.at = "register" /\ waiter'.request = new
      BY <3>1, <3>3 DEF Waiters
    <3>5. ConfirmTypeOK' /\ SessionsAreNumbered'
      BY <3>1, <3>2, <3>4 DEF ConfirmTypeOK, SessionsAreNumbered
    <3>6. RegistryIsActive' /\ AllowedByOwner'
      BY <3>1 DEF RegistryIsActive, AllowedByOwner, StillActive
    <3>7. \A e \in registry.pending \cup approvals : e.id \in Nat /\ e.id <= asked
      BY <2>1 DEF RequestsAreNumbered, ConfirmTypeOK, Registries, Asked, Allowed, Requests
    <3>8. RequestsAreNumbered'
      BY <3>1, <3>2, <3>3, <3>4, <3>7 DEF RequestsAreNumbered
    <3>9. WaiterIsTold'
      BY <2>1, <3>1, <3>4, NothingUnread DEF WaiterIsTold, Waiting
    <3>. QED
      BY <3>5, <3>6, <3>8, <3>9
  <2>4. CASE folder[session.room] # session.key
    <3>1. EndRoomSession(session.room) /\ Answer("RoomSessionEnded")
          /\ UNCHANGED <<folder, begun, asked, approvals, activating>>
      BY <1>2, <2>4 DEF WaitChecksFolder
    <3>. QED
      BY <2>1, <2>2, <3>1, AnswerType, EndRoomSessionKeeps
  <2>. QED
    BY <2>3, <2>4
<1>3. CASE WaitRegisters
  <2>1. waiter.at = "register" /\ mine \in Asked /\ registry \in Registries
    BY <1>3, WaiterShapes DEF WaitRegisters, ConfirmTypeOK
  <2>2. UNCHANGED <<folder, sessions, begun, resolutions, asked, activating, approvals>>
    BY <1>3 DEF WaitRegisters
  <2>3. resolutions' \in [Requests -> ResolutionsType]
        /\ \A q \in Requests : resolutions'[q] = "none"
    BY <2>1, <2>2, NothingUnread DEF Waiting, ConfirmTypeOK, ResolutionsType
  <2>4. \/ Answer("RoomSessionEnded") /\ UNCHANGED registry
        \/ Answer("Error") /\ UNCHANGED registry
        \/ StillActive(mine.scope.session) /\ Answer("Authorized") /\ registry' = Finish(registry, mine)
        \/ /\ StillActive(mine.scope.session)
           /\ waiter' = [at |-> "waiting", request |-> mine]
           /\ registry' = [registry EXCEPT !.pending = @ \cup {mine}]
    BY <1>3 DEF WaitRegisters
  <2>5. ASSUME UNCHANGED registry, Answer("RoomSessionEnded") \/ Answer("Error")
        PROVE  ConfirmInv'
    BY <2>1, <2>2, <2>3, <2>5, AnswerType, WaiterDone
  <2>6. ASSUME StillActive(mine.scope.session), Answer("Authorized"),
               registry' = Finish(registry, mine)
        PROVE  ConfirmInv'
    <3>1. /\ registry' \in Registries /\ registry'.pending = registry.pending
          /\ registry'.ready = registry.ready /\ registry'.grants = registry.grants
          /\ registry'.terminal = registry.terminal
               \cup {[id |-> mine.id, session |-> mine.scope.session]}
      BY <2>1, <2>6, FinishedRegistry
    <3>2. waiter' \in Waiters /\ waiter'.at = "answered"
      BY <2>6, AnswerType
    <3>. QED
      BY <2>2, <2>3, <2>6, <3>1, <3>2, WaiterDone
  <2>7. ASSUME StillActive(mine.scope.session),
               waiter' = [at |-> "waiting", request |-> mine],
               registry' = [registry EXCEPT !.pending = @ \cup {mine}]
        PROVE  ConfirmInv'
    <3>1. /\ registry' \in Registries /\ registry'.pending = registry.pending \cup {mine}
          /\ registry'.ready = registry.ready /\ registry'.grants = registry.grants
          /\ registry'.terminal = registry.terminal
      BY <2>1, <2>7 DEF Registries
    <3>2. waiter' \in Waiters /\ waiter'.at = "waiting" /\ waiter'.request = mine
      BY <2>1, <2>7 DEF Waiters
    <3>3. ConfirmTypeOK' /\ SessionsAreNumbered'
      BY <2>2, <2>3, <3>1, <3>2 DEF ConfirmTypeOK, SessionsAreNumbered
    <3>4. RegistryIsActive' /\ AllowedByOwner'
      BY <2>2, <2>7, <3>1 DEF RegistryIsActive, AllowedByOwner, StillActive
    <3>5. /\ mine.id = asked /\ asked <= asked
          /\ \A e \in registry.pending \cup approvals : e.id # mine.id
          /\ mine.id \in Requests
      BY <2>1, ConfirmationConstants DEF RequestsAreNumbered, ConfirmTypeOK, Asked
    <3>6. RequestsAreNumbered'
      BY <2>2, <3>1, <3>2, <3>5 DEF RequestsAreNumbered
    <3>7. WaiterIsTold'
      BY <2>2, <2>3, <3>1, <3>2, <3>5 DEF WaiterIsTold, Waiting
    <3>. QED
      BY <3>3, <3>4, <3>6, <3>7
  <2>. QED
    BY <2>4, <2>5, <2>6, <2>7
<1>4. CASE WaitTakes
  <2>. DEFINE ready == {e \in registry.ready : e.id = mine.id}
  <2>1. waiter.at = "waiting" /\ mine \in Asked /\ registry \in Registries
    BY <1>4, WaiterShapes DEF WaitTakes, Waiting, ConfirmTypeOK
  <2>2. /\ resolutions[mine.id] # "none"
        /\ resolutions' = [resolutions EXCEPT ![mine.id] = "none"]
        /\ UNCHANGED <<folder, sessions, begun, asked, activating, approvals>>
        /\ \/ Answer("Error") /\ UNCHANGED registry
           \/ /\ ready # {} /\ Answer("Authorized")
              /\ registry' = Finish([registry EXCEPT !.ready = @ \ ready], mine)
           \/ /\ resolutions[mine.id] # "AuthorizationReady"
              /\ Answer(resolutions[mine.id]) /\ UNCHANGED registry
    BY <1>4 DEF WaitTakes
  <2>3. resolutions' \in [Requests -> ResolutionsType]
        /\ \A q \in Requests : resolutions'[q] = "none"
    BY <2>1, <2>2 DEF ConfirmTypeOK, ResolutionsType, WaiterIsTold, Asked
  <2>4. ASSUME UNCHANGED registry,
               \/ Answer("Error")
               \/ resolutions[mine.id] # "AuthorizationReady" /\ Answer(resolutions[mine.id])
        PROVE  ConfirmInv'
    <3>1. mine.id \in Requests
      BY <2>1 DEF Asked
    <3>2. resolutions[mine.id] # "AuthorizationReady"
            => resolutions[mine.id] \in {"Denied", "RoomSessionEnded"}
      BY <2>2, <3>1 DEF ConfirmTypeOK
    <3>3. waiter' \in Waiters /\ waiter'.at = "answered"
      BY <2>4, <3>2, AnswerType
    <3>. QED
      BY <2>1, <2>2, <2>3, <2>4, <3>3, WaiterDone
  <2>5. ASSUME ready # {}, Answer("Authorized"),
               registry' = Finish([registry EXCEPT !.ready = @ \ ready], mine)
        PROVE  ConfirmInv'
    <3>. DEFINE rest == [registry EXCEPT !.ready = @ \ ready]
    <3>1. /\ rest \in Registries /\ rest.pending = registry.pending
          /\ rest.ready = registry.ready \ ready /\ rest.terminal = registry.terminal
          /\ rest.grants = registry.grants
      BY <2>1 DEF Registries
    <3>2. registry' = Finish(rest, mine)
      BY <2>5
    <3>. HIDE DEF rest
    <3>3. /\ registry' \in Registries /\ registry'.pending = registry.pending
          /\ registry'.ready \subseteq registry.ready /\ registry'.grants = registry.grants
          /\ registry'.terminal = registry.terminal
               \cup {[id |-> mine.id, session |-> mine.scope.session]}
      BY <2>1, <3>1, <3>2, FinishedRegistry
    <3>4. PICK e \in registry.ready : e.id = mine.id
      BY <2>5
    <3>5. StillActive(e.scope.session)
      BY <3>4 DEF RegistryIsActive
    <3>6. e.scope = mine.scope
      BY <2>1, <3>4 DEF AllowedByOwner, WaiterIsTold, Waiting
    <3>7. waiter' \in Waiters /\ waiter'.at = "answered"
      BY <2>5, AnswerType
    <3>. QED
      BY <2>2, <2>3, <3>3, <3>5, <3>6, <3>7, WaiterDone
  <2>. QED
    BY <2>2, <2>4, <2>5
<1>5. CASE WaitTimesOut
  <2>1. waiter.at = "waiting" /\ mine \in Asked /\ registry \in Registries
    BY <1>5, WaiterShapes DEF WaitTimesOut, Waiting, ConfirmTypeOK
  <2>2. /\ resolutions[mine.id] = "none"
        /\ UNCHANGED <<folder, sessions, begun, resolutions, asked, activating, approvals>>
        /\ \/ Answer("Error") /\ UNCHANGED registry
           \/ /\ mine \in registry.pending /\ Answer("Denied")
              /\ registry' = Resolve(mine, "TimedOut")
    BY <1>5 DEF WaitTimesOut
  <2>3. resolutions' \in [Requests -> ResolutionsType]
        /\ \A q \in Requests : resolutions'[q] = "none"
    BY <2>1, <2>2 DEF ConfirmTypeOK, ResolutionsType, WaiterIsTold
  <2>4. waiter' \in Waiters /\ waiter'.at = "answered"
    BY <2>2, AnswerType
  <2>5. ASSUME UNCHANGED registry
        PROVE  ConfirmInv'
    BY <2>1, <2>2, <2>3, <2>4, <2>5, WaiterDone
  <2>6. ASSUME mine \in registry.pending, registry' = Resolve(mine, "TimedOut")
        PROVE  ConfirmInv'
    <3>1. ~Allows("TimedOut")
      BY DEF Allows
    <3>2. /\ registry' \in Registries
          /\ registry'.pending \subseteq registry.pending
          /\ registry'.ready = registry.ready /\ registry'.grants = registry.grants
          /\ registry'.terminal = registry.terminal
               \cup {[id |-> mine.id, session |-> mine.scope.session]}
      BY <2>1, <2>6, <3>1, ResolvedRegistry
    <3>3. StillActive(mine.scope.session)
      BY <2>6 DEF RegistryIsActive
    <3>. QED
      BY <2>2, <2>3, <2>4, <3>2, <3>3, WaiterDone
  <2>. QED
    BY <2>2, <2>5, <2>6
<1>. QED
  BY <1>1, <1>2, <1>3, <1>4, <1>5 DEF WaitStep

\* The start of the desktop: no session, nothing asked.
LEMMA ConfirmStarts ==
  ASSUME ConfirmInit
  PROVE  ConfirmInv
BY ConfirmationConstants DEF ConfirmInit, ConfirmInv, ConfirmTypeOK, SessionsAreNumbered,
   RegistryIsActive, RequestsAreNumbered, AllowedByOwner, WaiterIsTold, Registries,
   Waiters, NoWaiter, Waiting

\* Whatever the owner does.
LEMMA OwnerStepKeeps ==
  ASSUME ConfirmInv, OwnerStep
  PROVE  ConfirmInv'
BY SessionsKeep, DecisionsKeep DEF OwnerStep

-----------------------------------------------------------------------------
(* The inductive invariant of the turns.                                     *)

\* What is held where: a call is answered by a turn with command tools, and the
\* owner is asked and the command launched only in the call's own steps.
Fresh ==
  /\ launch = "idle" /\ outcome = "none"
  /\ left = {}
  /\ process = [p \in Processes |-> "none"]

CallsAreOfTheTurn ==
  /\ call # NoCall => turn.at = "call" /\ context # NoContext /\ made >= 1
  /\ turn.at = "call" => call # NoCall
  /\ call.at # <<"launched">> => Fresh
  /\ waiter # NoWaiter => call.at = <<"ask">>
  /\ context # NoContext => context.session.id <= begun

\* Codex is not sent turn/start before the last of the opening requests, and a
\* turn has no result before it returns.
Preflight == {"codex", "tools", "context", "spawn", "attach"}
OpeningIsUnseen ==
  /\ turn # NoTurn => result = "none"
  /\ turn.at \in Preflight => ~accepted
  /\ turn.at = "await" /\ Stage # "turnStart" => ~accepted

\* What the waiter asks for is the call's, in a session of its Room.
AsksForTheCall ==
  /\ waiter.at = "look" => waiter.room = context.session.room /\ waiter.target = call.call.target
  /\ waiter.at = "folder" =>
       /\ waiter.scope.session.room = context.session.room
       /\ waiter.scope.target = call.call.target
  /\ waiter.at \in {"register", "waiting"} =>
       /\ waiter.request.scope.session.room = context.session.room
       /\ waiter.request.scope.target = call.call.target

\* The authorization in hand: an installation that the owner was asked about, in
\* the session that the turn began with or that was found to be that one.
CallScope == [session |-> context.session, target |-> call.call.target]
InHand ==
  /\ call # NoCall /\ call.call.command = "PackageInstall"
  /\ \/ /\ StillActive(context.session)
        /\ \/ call.at = <<"ask">> /\ waiter.at = "answered" /\ waiter.outcome = "Authorized"
           \/ call.at \in {<<"again", "folder">>, <<"again", "session">>}
     \/ call.at = <<"again", "tools">>
     \/ call.at \in {"execute"} \X Checks

\* Approvals of a scope pay for what was launched, what may be taken and what is in
\* hand, unless one of them is for the session.
Approved(scope) == {a \in approvals : a.scope = scope}
Launched(scope) == {i \in installs : i.scope = scope}
Ready(scope) == {e \in registry.ready : e.scope = scope}
Hand(scope) == IF InHand /\ scope = CallScope THEN 1 ELSE 0

ForSession(scope) == \E a \in Approved(scope) : a.lifetime = "RoomSession"
PaidFor(scope) ==
  Cardinality(Launched(scope)) + Cardinality(Ready(scope)) + Hand(scope)
    <= Cardinality(Approved(scope))

InstallsArePaidFor ==
  /\ IsFiniteSet(approvals) /\ IsFiniteSet(installs)
  /\ \A scope \in Scopes : ForSession(scope) \/ PaidFor(scope)

\* A launch that returned has ended what was in its Job, unless closing the Job
\* failed, and no other process than the helper is ever outside of it.
LaunchesClean ==
  /\ left # {} => launch = "idle" /\ outcome \in {"EstablishFailed", "CleanupFailed"}
  /\ launch = "idle" /\ outcome \notin {"EstablishFailed", "CleanupFailed"} =>
       \A p \in Processes : process[p] \notin {"suspended", "alive"}
  /\ \A p \in Processes : process[p] = "outside" =>
       /\ p = "helper"
       /\ \/ launch = "assign"
          \/ launch = "close" /\ outcome = "ProcessWaitFailed"
          \/ launch = "idle" /\ outcome \in {"ProcessWaitFailed", "CleanupFailed"}

CoreInv ==
  /\ TypeOK /\ ConfirmInv
  /\ CallsAreOfTheTurn
  /\ OpeningIsUnseen
  /\ NotStartedIsTrue

TurnInv ==
  /\ CoreInv
  /\ AsksForTheCall
  /\ InstallsArePaidFor
  /\ LaunchesClean

-----------------------------------------------------------------------------
(* A launch.                                                                *)

LEMMA ResourceNames ==
  Resources = {"profile", "staged", "grant", "drive", "toolDrive", "job"}
BY DEF Resources, ResourceOrder

\* What every step of the host and of the processes of a launch keeps.
LEMMA LaunchTypes ==
  ASSUME LaunchTypeOK, HostStep \/ ProcessStep
  PROVE  LaunchTypeOK' /\ request' = request
<1>. USE DEF LaunchTypeOK
<1>1. Killed \in [Processes -> ProcessStates]
  BY DEF Killed, ProcessStates
<1>2. ASSUME NEW resource \in Resources, Take(resource)
      PROVE  LaunchTypeOK' /\ request' = request
  <2>1. \A stuck \in Few(held \cup Begun(resource)) : stuck \subseteq Resources
    BY ResourceNames DEF Few, Begun
  <2>. QED
    BY <1>2, <2>1 DEF Take, EstablishFails, Steps, Outcomes
<1>3. CASE Establish
  BY <1>2, <1>3, ResourceNames DEF Establish, CreateProfile, StageTool, GrantFolder, MapDrive, CreateJob
<1>4. CASE Create
  <2>1. CreationErrors(request) \subseteq Outcomes
    BY DEF CreationErrors, PipeErrors, CapabilityErrors, EnvironmentErrors, Outcomes, ExecuteErrors
  <2>. QED
    BY <1>4, <2>1 DEF Create, ToClose, Steps, Processes, ProcessStates
<1>5. CASE Assign \/ WriteRequest \/ Resume
  BY <1>1, <1>5 DEF Assign, WriteRequest, Resume, ToClose, Steps, Processes, ProcessStates,
     Outcomes, ExecuteErrors
<1>6. CASE WaitEnds \/ HostTimesOut \/ WaitFails \/ KilledGoes \/ JoinReaders
  BY <1>1, <1>6 DEF WaitEnds, HostTimesOut, WaitFails, KilledGoes, JoinReaders, ToClose, Steps,
     Outcomes, ExecuteErrors, Completions
<1>7. CASE Close
  <2>1. \A failed \in Few(held) : \A stuck \in SUBSET failed : stuck \subseteq Resources
    BY DEF Few
  <2>. QED
    BY <1>1, <1>7, <2>1 DEF Close, Steps, Outcomes
<1>8. CASE ProcessStep
  BY <1>8 DEF ProcessStep, HelperRefuses, HelperStarts, CommandForks, CommandEnds,
     DescendantEnds, HelperAnswers, TerminatedGo, Goes, Processes, ProcessStates
<1>. QED
  BY <1>3, <1>4, <1>5, <1>6, <1>7, <1>8 DEF HostStep

\* Every way out of a launch terminates what is in the Job.
LEMMA LaunchCleans ==
  ASSUME LaunchTypeOK, LaunchesClean, HostStep \/ ProcessStep
  PROVE  LaunchesClean'
<1>. USE DEF LaunchesClean, LaunchTypeOK
<1>1. \A p \in Processes : /\ Killed[p] \notin {"suspended", "alive"}
                           /\ Killed[p] = "outside" => process[p] = "outside"
  BY DEF Killed
<1>2. CASE \E resource \in Resources : Take(resource)
  BY <1>2 DEF Take, EstablishFails, Establishing
<1>3. CASE Establish
  BY <1>2, <1>3, ResourceNames DEF Establish, CreateProfile, StageTool, GrantFolder, MapDrive, CreateJob
<1>4. CASE Create \/ Assign
  BY <1>4 DEF Create, Assign, ToClose, Processes
<1>5. CASE WriteRequest \/ Resume
  BY <1>1, <1>5 DEF WriteRequest, Resume, ToClose, Processes
<1>6. CASE WaitEnds \/ HostTimesOut \/ WaitFails \/ KilledGoes \/ JoinReaders
  BY <1>1, <1>6 DEF WaitEnds, HostTimesOut, WaitFails, KilledGoes, JoinReaders, ToClose
<1>7. CASE Close
  <2>1. PICK failed \in Few(held) :
          /\ outcome' = IF failed = {} THEN outcome ELSE "CleanupFailed"
          /\ \E stuck \in SUBSET failed :
               /\ left' = stuck
               /\ process' = IF "job" \in stuck THEN process ELSE Killed
    BY <1>7 DEF Close
  <2>2. launch = "close" /\ launch' = "idle"
    BY <1>7 DEF Close
  <2>3. CASE failed = {}
    BY <1>1, <2>1, <2>2, <2>3
  <2>4. CASE failed # {}
    BY <1>1, <2>1, <2>2, <2>4
  <2>. QED
    BY <2>3, <2>4
<1>8. CASE ProcessStep
  BY <1>8 DEF ProcessStep, HelperRefuses, HelperStarts, CommandForks, CommandEnds,
     DescendantEnds, HelperAnswers, TerminatedGo, Goes, Alive, Processes
<1>. QED
  BY <1>3, <1>4, <1>5, <1>6, <1>7, <1>8 DEF HostStep

\* Nothing moves before a launch begins.
LEMMA FreshIsStill ==
  ASSUME Fresh
  PROVE  ~HostStep /\ ~ProcessStep
BY DEF Fresh, HostStep, Establish, CreateProfile, StageTool, GrantFolder, MapDrive, CreateJob,
   Take, Establishing, Create, Assign, WriteRequest, Resume, WaitEnds, HostTimesOut, WaitFails,
   KilledGoes, JoinReaders, Close, ProcessStep, HelperRefuses, HelperStarts, CommandForks,
   CommandEnds, DescendantEnds, HelperAnswers, TerminatedGo, Alive, Processes

-----------------------------------------------------------------------------
(* The call and the turn: their types and who holds what.                    *)

Phases == {"prepare", "again", "execute"}

LEMMA CallShapes ==
  ASSUME TypeOK
  PROVE  /\ call # NoCall => /\ call.at \in CallSteps \ {<<"none">>}
                             /\ call.call \in OfferedCalls /\ call.call \in Calls
                             /\ call.call.target \in Targets
         /\ call.at # <<"none">> => call # NoCall
         /\ context # NoContext => /\ context.session \in Sessions /\ context.session.room \in Rooms
                                   /\ context.access \in Accesses
BY ExecutionConstants DEF TypeOK, ExecutionTypeOK, NoCall, ToolCalls, Calls, Sessions

LEMMA CallMoves ==
  ASSUME TypeOK, call # NoCall, NEW at \in CallSteps \ {<<"none">>}, MoveCall(at)
  PROVE  /\ call' \in [at : CallSteps \ {<<"none">>}, call : OfferedCalls]
         /\ call'.at = at /\ call'.call = call.call /\ call' # NoCall
<1>1. call \in [at : CallSteps \ {<<"none">>}, call : OfferedCalls]
  BY DEF TypeOK, ExecutionTypeOK
<1>2. call' = [call EXCEPT !.at = at]
  BY DEF MoveCall
<1>3. call'.at = at /\ call'.call = call.call
      /\ call' \in [at : CallSteps \ {<<"none">>}, call : OfferedCalls]
  BY <1>1, <1>2
<1>4. NoCall.at = <<"none">> /\ at # <<"none">>
  BY DEF NoCall
<1>. QED
  BY <1>3, <1>4

\* The steps of a call are told apart.
LEMMA StepNames ==
  /\ \A phase \in Phases, check \in Checks :
       /\ <<phase, check>> \in CallSteps \ {<<"none">>}
       /\ <<phase, check>> \notin {<<"ask">>, <<"launched">>, <<"answer">>}
  /\ {<<"ask">>, <<"launched">>, <<"answer">>} \subseteq CallSteps \ {<<"none">>}
  /\ <<"ask">> # <<"launched">> /\ <<"ask">> # <<"answer">> /\ <<"launched">> # <<"answer">>
BY DEF Phases, CallSteps

LEMMA TurnShapes ==
  ASSUME turn \in CurrentTurns
  PROVE  /\ turn.at \in {"idle", "cli", "await", "turn", "call", "cliAttach", "poll", "join"}
                        \cup Preflight
         /\ turn.at = "idle" <=> turn = NoTurn
         /\ turn.at \in {"cli"} \cup Preflight =>
              turn \in [at : {"cli"} \cup Preflight, room : Rooms,
                        workspace : Workspaces \cup {NoWorkspace}, access : Accesses]
         /\ turn.at = "await" =>
              turn \in [at : {"await"}, stage : 1..Len(Stages), room : Rooms,
                        workspace : Workspaces \cup {NoWorkspace}]
         /\ turn.at \in {"turn", "call"} => turn \in [at : {"turn", "call"}, room : Rooms]
BY DEF CurrentTurns, NoTurn, Preflight

\* The opening requests, in their order.
LEMMA StageNames ==
  /\ Len(Stages) = 5
  /\ \A i \in 1..5 : Stages[i] = "turnStart" <=> i = 5
  /\ \A i \in 1..5 : Stages[i] = "profiles" <=> i = 2
BY DEF Stages

\* The end of a turn, which is only reached from outside of a call or with its
\* answer: nothing of the call is left.
LEMMA ReturnKeeps ==
  ASSUME CoreInv, NEW r \in Results, Return(r),
         turn.at # "call" \/ call.at = <<"answer">>,
         r \in {"PreflightFailure", "WorkspaceUnavailable", "WorkspaceSandboxUnavailable"} => ~accepted
  PROVE  CoreInv'
<1>. USE DEF CoreInv
<1>1. /\ turn' = NoTurn /\ result' = r /\ context' = NoContext /\ call' = NoCall
      /\ TerminateTree /\ cancelled' = FALSE
      /\ UNCHANGED <<confirmVars, launchVars, made, installs, turns, accepted>>
  BY DEF Return
<1>2. call.at = <<"answer">> \/ call = NoCall
  BY DEF CallsAreOfTheTurn
<1>3. call.at \notin {<<"ask">>, <<"launched">>}
  BY <1>2, StepNames DEF NoCall
<1>4. ConfirmInv'
  BY <1>1 DEF ConfirmInv, confirmVars, ConfirmTypeOK, SessionsAreNumbered, RegistryIsActive,
     RequestsAreNumbered, AllowedByOwner, WaiterIsTold, StillActive, Waiting
<1>5. ProviderTypeOK'
  BY <1>1 DEF TerminateTree, Ends, ProviderTypeOK, TypeOK
<1>6. LaunchTypeOK' /\ ExecutionTypeOK'
  BY <1>1 DEF launchVars, LaunchTypeOK, ExecutionTypeOK, TypeOK
<1>7. TypeOK'
  BY <1>1, <1>4, <1>5, <1>6 DEF TypeOK, ConfirmInv, CurrentTurns
<1>8. CallsAreOfTheTurn'
  BY <1>1, <1>3 DEF CallsAreOfTheTurn, Fresh, NoTurn, NoCall, launchVars, confirmVars
<1>9. OpeningIsUnseen' /\ NotStartedIsTrue'
  BY <1>1 DEF Preflight, OpeningIsUnseen, NotStartedIsTrue, NoTurn
<1>. QED
  BY <1>4, <1>7, <1>8, <1>9

\* The confirmations, the launch and the call stay as they are.
LEMMA FrameKeeps ==
  ASSUME CoreInv, UNCHANGED <<confirmVars, launchVars, executionVars>>,
         turn'.at = "call" <=> turn.at = "call"
  PROVE  /\ ConfirmInv' /\ LaunchTypeOK' /\ ExecutionTypeOK'
         /\ CallsAreOfTheTurn'
<1>1. ConfirmInv'
  BY DEF CoreInv, ConfirmInv, confirmVars, ConfirmTypeOK, SessionsAreNumbered, RegistryIsActive,
     RequestsAreNumbered, AllowedByOwner, WaiterIsTold, StillActive, Waiting
<1>2. LaunchTypeOK' /\ ExecutionTypeOK'
  BY DEF CoreInv, launchVars, executionVars, LaunchTypeOK, ExecutionTypeOK, TypeOK
<1>3. CallsAreOfTheTurn'
  BY DEF CoreInv, CallsAreOfTheTurn, Fresh, launchVars, confirmVars, executionVars
<1>. QED
  BY <1>1, <1>2, <1>3

\* A step of the provider and the flag of the turn.
LEMMA BesideTheTurn ==
  ASSUME CoreInv, Cancel \/ CodexAccepts \/ ProviderRuns
  PROVE  CoreInv' /\ UNCHANGED <<confirmVars, launchVars, executionVars>> /\ turn' = turn
<1>. USE DEF CoreInv
<1>1. /\ UNCHANGED <<confirmVars, launchVars, executionVars, turn, turns, result>>
      /\ cancelled' \in BOOLEAN /\ accepted' \in BOOLEAN
      /\ accepted' = accepted \/ (At("await") /\ Stage = "turnStart")
  BY DEF Cancel, CodexAccepts, ProviderRuns, Frame, turnVars, TypeOK
<1>2. ProviderTypeOK'
  BY DEF Cancel, CodexAccepts, ProviderRuns, ProviderForks, ProviderEnds, Ends, ProviderTypeOK,
     ProviderProcesses, TypeOK
<1>3. TypeOK' /\ ConfirmInv' /\ CallsAreOfTheTurn'
  BY <1>1, <1>2, FrameKeeps DEF TypeOK, ConfirmInv
<1>4. OpeningIsUnseen'
  BY <1>1 DEF Preflight, OpeningIsUnseen, At, Stage
<1>5. At("await") => turn # NoTurn
  BY DEF At, NoTurn
<1>6. NotStartedIsTrue'
  BY <1>1, <1>5 DEF OpeningIsUnseen, NotStartedIsTrue
<1>. QED
  BY <1>1, <1>3, <1>4, <1>6

\* The turn goes on to its next step.
LEMMA MoveKeeps ==
  ASSUME CoreInv, NEW to \in CurrentTurns, MoveTurn(to), ProviderTypeOK',
         UNCHANGED <<confirmVars, launchVars, executionVars>>,
         turn # NoTurn, turn.at # "call", to # NoTurn, to.at # "call",
         \/ ~accepted
         \/ /\ to.at \notin Preflight
            /\ to.at = "await" => Stages[to.stage] = "turnStart"
  PROVE  CoreInv'
<1>. USE DEF CoreInv
<1>1. turn' = to /\ UNCHANGED <<turns, cancelled, accepted, result>>
  BY DEF MoveTurn
<1>2. TypeOK' /\ ConfirmInv' /\ CallsAreOfTheTurn'
  BY <1>1, FrameKeeps DEF TypeOK, ConfirmInv
<1>3. OpeningIsUnseen' /\ NotStartedIsTrue'
  BY <1>1 DEF OpeningIsUnseen, NotStartedIsTrue, Stage
<1>. QED
  BY <1>2, <1>3

\* What a request or a wait may end with is none of the answers that a turn has not
\* started, unless it is one of the opening requests.
LEMMA NotStartedIsOpening ==
  ASSUME TypeOK, At("await") \/ At("turn"), NEW e \in Results, CanEndWith(e),
         At("turn") \/ Stage = "turnStart"
  PROVE  e \notin {"PreflightFailure", "WorkspaceUnavailable", "WorkspaceSandboxUnavailable"}
BY DEF At, CanEndWith, Silences, EndsAs, ReaderEnds, NoProfile, NoSandbox, OtherThread,
   ReportedFailures

LEMMA FailuresAreResults ==
  ASSUME NEW stage, NEW e \in Results
  PROVE  Failure(stage, e) \in Results
BY DEF Failure, CodexPreflightFailure, Results

\* The turn's own steps, those of its call apart.
LEMMA TurnMoves ==
  ASSUME CoreInv,
         \/ OpenWorkspace \/ FindFolder \/ FindSession \/ SpawnCodex \/ AttachCodex
         \/ Reply \/ NoReply \/ WaitForTurnFails \/ TurnCompletes
         \/ RunCli \/ AttachCli \/ Poll \/ JoinCli
  PROVE  CoreInv' /\ UNCHANGED <<confirmVars, launchVars, made, installs>> /\ call' = call
         /\ call = NoCall
<1>. USE DEF CoreInv
<1>1. turn.at \in {"cli", "await", "turn", "cliAttach", "poll", "join"} \cup Preflight
  BY DEF Preflight, OpenWorkspace, FindFolder, FindSession, SpawnCodex, AttachCodex, Reply, NoReply, WaitForTurnFails, TurnCompletes,
     RunCli, AttachCli, Poll, JoinCli, At
<1>2. turn \in CurrentTurns /\ turn # NoTurn /\ turn.at # "call" /\ call = NoCall
  BY <1>1 DEF Preflight, NoTurn, CallsAreOfTheTurn, TypeOK
<1>3. ASSUME NEW r \in Results, Return(r),
             r \in {"PreflightFailure", "WorkspaceUnavailable", "WorkspaceSandboxUnavailable"} => ~accepted
      PROVE  CoreInv' /\ UNCHANGED <<confirmVars, launchVars, made, installs>> /\ call' = call
             /\ call = NoCall
  BY <1>2, <1>3, ReturnKeeps DEF Return
<1>4. ASSUME NEW to \in CurrentTurns, MoveTurn(to), ProviderTypeOK', Frame,
             to # NoTurn, to.at # "call",
             \/ ~accepted
             \/ /\ to.at \notin Preflight
                /\ to.at = "await" => Stages[to.stage] = "turnStart"
      PROVE  CoreInv' /\ UNCHANGED <<confirmVars, launchVars, made, installs>> /\ call' = call
             /\ call = NoCall
  BY <1>2, <1>4, MoveKeeps DEF Frame, executionVars
<1>5. UNCHANGED provider => ProviderTypeOK'
  BY DEF TypeOK, ProviderTypeOK
\* The steps of the preflight before the process is there.
<1>6. ASSUME turn.at \in Preflight
       PROVE  /\ ~accepted
              /\ \A step \in Preflight :
                   LET to == [turn EXCEPT !.at = step] IN
                     /\ to \in CurrentTurns /\ to # NoTurn /\ to.at = step /\ to.at # "call"
                     /\ MoveTurn(to) /\ Frame /\ UNCHANGED provider
                          => /\ CoreInv' /\ UNCHANGED <<confirmVars, launchVars, made, installs>>
                             /\ call' = call /\ call = NoCall
  <2>1. turn \in [at : {"cli"} \cup Preflight, room : Rooms,
                  workspace : Workspaces \cup {NoWorkspace}, access : Accesses]
    BY <1>2, <1>6, TurnShapes
  <2>2. ~accepted
    BY <1>6 DEF OpeningIsUnseen
  <2>3. ASSUME NEW step \in Preflight
        PROVE  LET to == [turn EXCEPT !.at = step] IN
                 to \in CurrentTurns /\ to # NoTurn /\ to.at = step /\ to.at # "call"
    BY <2>1, <2>3 DEF CurrentTurns, NoTurn, Preflight
  <2>. QED
    BY <1>4, <1>5, <2>2, <2>3
<1>7. CASE OpenWorkspace
  <2>1. turn.at = "codex" /\ turn.at \in Preflight /\ "tools" \in Preflight
    BY <1>7 DEF OpenWorkspace, At, Preflight
  <2>2. CASE \E r \in {"Cancelled", "WorkspaceUnavailable"} : Return(r)
    BY <1>3, <1>6, <2>1, <2>2 DEF Results
  <2>3. CASE ~\E r \in {"Cancelled", "WorkspaceUnavailable"} : Return(r)
    BY <1>7, <1>6, <2>1, <2>3 DEF OpenWorkspace, Goto
  <2>. QED
    BY <2>2, <2>3
<1>8. CASE FindFolder
  <2>1. turn.at \in Preflight /\ {"context", "spawn"} \subseteq Preflight
    BY <1>8 DEF FindFolder, At, Preflight
  <2>2. PICK step \in {"context", "spawn"} : Goto(step) /\ Frame /\ UNCHANGED provider
    BY <1>8 DEF FindFolder
  <2>. QED
    BY <1>6, <2>1, <2>2 DEF Goto
<1>9. CASE FindSession
  <2>. DEFINE to == [turn EXCEPT !.at = "spawn"]
  <2>1. /\ context' = ContextForTurn(turn.room, turn.workspace, turn.access)
        /\ MoveTurn(to)
        /\ UNCHANGED <<confirmVars, launchVars, call, made, installs, provider>>
        /\ turn.at = "context"
    BY <1>9 DEF FindSession, Goto, At
  <2>2. turn.at \in Preflight /\ "spawn" \in Preflight
    BY <2>1 DEF Preflight
  <2>3. turn \in [at : {"cli"} \cup Preflight, room : Rooms,
                  workspace : Workspaces \cup {NoWorkspace}, access : Accesses]
    BY <1>2, <2>2, TurnShapes
  <2>4. to \in CurrentTurns /\ to.at = "spawn" /\ ~accepted
    BY <1>6, <2>2
  <2>. HIDE DEF to
  <2>5. turn' = to /\ UNCHANGED <<turns, cancelled, accepted, result>>
    BY <2>1 DEF MoveTurn
  <2>6. context' # NoContext =>
          /\ sessions[turn.room] # NoSession
          /\ context' = [session |-> sessions[turn.room], access |-> turn.access]
    BY <2>1 DEF ContextForTurn, HasSessionOn
  <2>7. context' # NoContext =>
          /\ context' \in [session : Sessions, access : Accesses]
          /\ context'.session.id <= begun
    BY <2>3, <2>6 DEF ConfirmInv, ConfirmTypeOK, SessionsAreNumbered
  <2>8. ConfirmInv' /\ LaunchTypeOK'
    BY <2>1 DEF ConfirmInv, confirmVars, ConfirmTypeOK, SessionsAreNumbered, RegistryIsActive,
       RequestsAreNumbered, AllowedByOwner, WaiterIsTold, StillActive, Waiting, launchVars,
       LaunchTypeOK, TypeOK
  <2>9. ExecutionTypeOK'
    BY <2>1, <2>7 DEF ExecutionTypeOK, TypeOK
  <2>10. TypeOK'
    BY <1>5, <2>1, <2>4, <2>5, <2>8, <2>9 DEF TypeOK, ConfirmInv
  <2>11. CallsAreOfTheTurn'
    BY <1>2, <2>1, <2>4, <2>5, <2>7 DEF CallsAreOfTheTurn, Fresh, launchVars, confirmVars
  <2>12. OpeningIsUnseen' /\ NotStartedIsTrue'
    BY <1>2, <2>4, <2>5 DEF OpeningIsUnseen, NotStartedIsTrue
  <2>. QED
    BY <1>2, <2>1, <2>8, <2>10, <2>11, <2>12
<1>10. CASE SpawnCodex \/ AttachCodex
  <2>1. turn.at \in {"spawn", "attach"} /\ turn.at \in Preflight /\ ~accepted
    BY <1>10 DEF SpawnCodex, AttachCodex, At, OpeningIsUnseen, Preflight
  <2>2. CASE Return("PreflightFailure")
    BY <1>3, <2>1, <2>2 DEF Results
  <2>3. CASE ~Return("PreflightFailure")
    <3>. DEFINE to == IF turn.at = "spawn" THEN [turn EXCEPT !.at = "attach"] ELSE AwaitStage(1)
    <3>1. MoveTurn(to) /\ Frame /\ UNCHANGED provider
      BY <1>10, <2>1, <2>3 DEF SpawnCodex, AttachCodex, Attach, Goto, At
    <3>2. turn \in [at : {"cli"} \cup Preflight, room : Rooms,
                    workspace : Workspaces \cup {NoWorkspace}, access : Accesses]
      BY <1>2, <2>1, TurnShapes
    <3>3. to \in CurrentTurns /\ to # NoTurn /\ to.at # "call"
      BY <3>2, StageNames DEF CurrentTurns, AwaitStage, NoTurn, Preflight
    <3>. HIDE DEF to
    <3>. QED
      BY <1>4, <1>5, <2>1, <3>1, <3>3
  <2>. QED
    BY <2>2, <2>3
<1>11. CASE Reply
  <2>1. turn.at = "await"
    BY <1>11 DEF Reply, At
  <2>2. turn \in [at : {"await"}, stage : 1..5, room : Rooms,
                  workspace : Workspaces \cup {NoWorkspace}]
    BY <1>2, <2>1, TurnShapes, StageNames
  <2>3. CASE Stage = "turnStart"
    <3>. DEFINE to == [at |-> "turn", room |-> turn.room]
    <3>1. MoveTurn(to) /\ Frame /\ UNCHANGED provider
      BY <1>11, <2>3 DEF Reply
    <3>2. to \in CurrentTurns /\ to # NoTurn /\ to.at = "turn"
      BY <2>2 DEF CurrentTurns, NoTurn
    <3>. HIDE DEF to
    <3>. QED
      BY <1>4, <1>5, <3>1, <3>2 DEF Preflight
  <2>4. CASE Stage # "turnStart"
    <3>. DEFINE to == AwaitStage(NextStage)
    <3>1. MoveTurn(to) /\ Frame /\ UNCHANGED provider
      BY <1>11, <2>4 DEF Reply
    <3>2. turn.stage \in 1..4 /\ (Stage = "profiles" => turn.stage = 2)
      BY <2>2, <2>4, StageNames DEF Stage
    <3>3. NextStage \in 1..5
      BY <3>2 DEF NextStage
    <3>4. to \in CurrentTurns /\ to # NoTurn /\ to.at = "await"
      BY <2>2, <3>3, StageNames DEF CurrentTurns, NoTurn, AwaitStage
    <3>. HIDE DEF to
    <3>5. ~accepted
      BY <2>1, <2>4 DEF OpeningIsUnseen
    <3>. QED
      BY <1>4, <1>5, <3>1, <3>4, <3>5
  <2>. QED
    BY <2>3, <2>4
<1>12. CASE NoReply
  <2>1. At("await")
    BY <1>12 DEF NoReply
  <2>2. CASE \E e \in Results : CanEndWith(e) /\ Return(Failure(Stage, e))
    <3>1. PICK e \in Results : CanEndWith(e) /\ Return(Failure(Stage, e))
      BY <2>2
    <3>2. CASE Stage = "turnStart"
      BY <1>3, <2>1, <3>1, <3>2, NotStartedIsOpening DEF Failure
    <3>3. CASE Stage # "turnStart"
      BY <1>3, <2>1, <3>1, <3>3, FailuresAreResults DEF At, OpeningIsUnseen
    <3>. QED
      BY <3>2, <3>3
  <2>3. CASE NotWritten /\ Return("PreflightFailure")
    BY <1>3, <2>1, <2>3 DEF NotWritten, At, OpeningIsUnseen, Results
  <2>. QED
    BY <1>12, <2>2, <2>3 DEF NoReply
<1>13. CASE WaitForTurnFails
  BY <1>3, <1>13, NotStartedIsOpening DEF WaitForTurnFails
<1>14. CASE TurnCompletes
  BY <1>3, <1>14 DEF TurnCompletes, TurnResult, Results
<1>15. CASE RunCli \/ AttachCli \/ Poll \/ JoinCli
  <2>1. CASE \E r \in {"Cancelled", "Unavailable", "TimedOut", "Answered", "Rejected", "InvalidResponse"} :
               Return(r)
    BY <1>3, <2>1 DEF Results
  <2>2. CASE ~\E r \in {"Cancelled", "Unavailable", "TimedOut", "Answered", "Rejected", "InvalidResponse"} :
               Return(r)
    <3>1. CASE RunCli
      <4>1. Spawn /\ MoveTurn([at |-> "cliAttach"]) /\ Frame
        BY <2>2, <3>1 DEF RunCli
      <4>2. ProviderTypeOK'
        BY <4>1 DEF Spawn, ProviderTypeOK
      <4>. QED
        BY <1>4, <4>1, <4>2 DEF CurrentTurns, NoTurn, Preflight
    <3>2. CASE AttachCli
      BY <1>4, <1>5, <2>2, <3>2 DEF AttachCli, Attach, CurrentTurns, NoTurn, Preflight
    <3>3. CASE Poll
      <4>1. TerminateTree /\ MoveTurn([turn EXCEPT !.at = "join"]) /\ Frame /\ turn.at = "poll"
        BY <2>2, <3>3 DEF Poll, Goto, At
      <4>2. [turn EXCEPT !.at = "join"] = [at |-> "join"]
        BY <1>2, <4>1 DEF CurrentTurns, NoTurn
      <4>3. ProviderTypeOK'
        BY <4>1 DEF TerminateTree, Ends, ProviderTypeOK, TypeOK
      <4>. QED
        BY <1>4, <4>1, <4>2, <4>3 DEF CurrentTurns, NoTurn, Preflight
    <3>4. ~JoinCli
      BY <2>2 DEF JoinCli
    <3>. QED
      BY <1>15, <3>1, <3>2, <3>3, <3>4
  <2>. QED
    BY <2>1, <2>2
<1>. QED
  BY <1>2, <1>7, <1>10, <1>11, <1>12, <1>13, <1>14, <1>15, <1>8, <1>9

\* The ways in which the last check of a phase ends.
LEMMA ToolsChecked ==
  ASSUME NEW phase \in Phases, CheckTools(phase)
  PROVE  /\ call.at = <<phase, "tools">> /\ UNCHANGED <<context, made>>
         /\ \/ AnswerCall /\ UNCHANGED <<launchVars, installs>>
            \/ /\ phase = "prepare" /\ UNCHANGED <<launchVars, installs>>
               /\ \/ MoveCall(<<"ask">>)
                  \/ /\ Decodes(Encode(call.call, context.access))
                     /\ Classify(call.call, context.access) # "confirm"
                     /\ MoveCall(<<"execute", "folder">>)
            \/ /\ phase = "again" /\ UNCHANGED <<launchVars, installs>>
               /\ MoveCall(<<"execute", "folder">>)
            \/ /\ phase = "execute" /\ MoveCall(<<"launched">>)
               /\ Launch(Encode(call.call, context.access))
               /\ installs' = installs \cup
                    {[number |-> made, scope |-> [session |-> context.session, target |-> t]] :
                       t \in {t \in {call.call.target} : NetworkEnabled(call.call.command)}}
BY DEF Phases, CheckTools, Passes, PolicyTakes, CanPrepare, PreparesCommand, PreparesNpmScript,
   PreparesPackageInstall, Baseline, Installation

\* A step of the call leaves the turn alone.
LEMMA CallKeeps ==
  ASSUME CoreInv, turn.at = "call", UNCHANGED <<provider, turnVars>>,
         ConfirmInv', LaunchTypeOK', ExecutionTypeOK', CallsAreOfTheTurn'
  PROVE  CoreInv'
<1>. USE DEF CoreInv, turnVars
<1>1. TypeOK'
  BY DEF TypeOK, ConfirmInv, ProviderTypeOK
<1>2. OpeningIsUnseen' /\ NotStartedIsTrue'
  BY DEF OpeningIsUnseen, NotStartedIsTrue
<1>. QED
  BY <1>1, <1>2

LEMMA CallRunsKeeps ==
  ASSUME CoreInv, CallRuns
  PROVE  CoreInv'
<1>. USE DEF CoreInv
<1>1. turn.at = "call" /\ CallStep /\ UNCHANGED <<provider, turnVars>> /\ turn' = turn
  BY DEF CallRuns, At, turnVars
<1>2. /\ call # NoCall /\ context # NoContext /\ made >= 1
      /\ call.at \in CallSteps \ {<<"none">>} /\ call.call \in Calls /\ call.call.target \in Targets
      /\ context.session \in Sessions /\ context.session.room \in Rooms /\ context.access \in Accesses
      /\ context.session.id <= begun
  BY <1>1, CallShapes DEF CallsAreOfTheTurn
<1>3. NoWaiter.at = "idle" /\ NoCall.at = <<"none">>
  BY DEF NoWaiter, NoCall
<1>4. UNCHANGED confirmVars => ConfirmInv'
  BY DEF confirmVars, ConfirmInv, ConfirmTypeOK, SessionsAreNumbered, RegistryIsActive,
     RequestsAreNumbered, AllowedByOwner, WaiterIsTold, StillActive, Waiting
<1>5. UNCHANGED launchVars => LaunchTypeOK' /\ (Fresh => Fresh')
  BY DEF launchVars, LaunchTypeOK, TypeOK, Fresh
<1>6. ASSUME NEW at \in CallSteps \ {<<"none">>}, MoveCall(at), UNCHANGED <<context, made>>,
             \/ installs' = installs
             \/ installs' \subseteq [number : 1..MaxCalls, scope : Scopes]
      PROVE  ExecutionTypeOK' /\ call'.at = at /\ call' # NoCall
  <2>1. call' \in [at : CallSteps \ {<<"none">>}, call : OfferedCalls]
        /\ call'.at = at /\ call' # NoCall
    BY <1>2, <1>6, CallMoves
  <2>. QED
    BY <1>6, <2>1 DEF ExecutionTypeOK, TypeOK
<1>7. ASSUME NEW at \in CallSteps \ {<<"none">>}, MoveCall(at), UNCHANGED <<context, made, installs>>,
             UNCHANGED <<confirmVars, launchVars>>,
             call.at \notin {<<"ask">>, <<"launched">>}, at # <<"launched">>
      PROVE  CoreInv'
  <2>1. ExecutionTypeOK' /\ call'.at = at /\ call' # NoCall
    BY <1>6, <1>7
  <2>2. CallsAreOfTheTurn'
    BY <1>1, <1>2, <1>5, <1>7, <2>1 DEF CallsAreOfTheTurn, confirmVars
  <2>. QED
    BY <1>1, <1>4, <1>5, <1>7, <2>1, <2>2, CallKeeps
<1>8. ASSUME NEW phase \in Phases, CheckFolder(phase) \/ CheckSession(phase),
             UNCHANGED <<confirmVars, launchVars>>
      PROVE  CoreInv'
  <2>1. PICK check \in {"folder", "session"} :
          /\ call.at = <<phase, check>> /\ UNCHANGED <<context, made, installs>>
          /\ MoveCall(<<"answer">>) \/ MoveCall(<<phase, "session">>) \/ MoveCall(<<phase, "tools">>)
    BY <1>8 DEF CheckFolder, CheckSession, AnswerCall
  <2>2. call.at \notin {<<"ask">>, <<"launched">>}
    BY <2>1, StepNames DEF Checks
  <2>. QED
    BY <1>7, <1>8, <2>1, <2>2, StepNames DEF Checks
<1>9. ASSUME NEW phase \in Phases, CheckTools(phase), UNCHANGED confirmVars
      PROVE  CoreInv'
  <2>1. call.at = <<phase, "tools">> /\ UNCHANGED <<context, made>>
    BY <1>9, ToolsChecked
  <2>2. call.at \notin {<<"ask">>, <<"launched">>}
    BY <2>1, StepNames DEF Checks
  <2>3. CASE /\ UNCHANGED <<launchVars, installs>>
             /\ MoveCall(<<"answer">>) \/ MoveCall(<<"ask">>) \/ MoveCall(<<"execute", "folder">>)
    BY <1>7, <1>9, <2>1, <2>2, <2>3, StepNames DEF Phases, Checks
  <2>4. CASE /\ MoveCall(<<"launched">>)
             /\ Launch(Encode(call.call, context.access))
             /\ installs' = installs \cup
                  {[number |-> made, scope |-> [session |-> context.session, target |-> t]] :
                     t \in {t \in {call.call.target} : NetworkEnabled(call.call.command)}}
    <3>1. made \in 1..MaxCalls
      BY <1>2, ExecutionConstants DEF TypeOK, ExecutionTypeOK
    <3>2. [session |-> context.session, target |-> call.call.target] \in Scopes
      BY <1>2 DEF Scopes
    <3>3. installs' \subseteq [number : 1..MaxCalls, scope : Scopes]
      BY <2>4, <3>1, <3>2 DEF TypeOK, ExecutionTypeOK
    <3>4. ExecutionTypeOK' /\ call'.at = <<"launched">> /\ call' # NoCall
      BY <1>6, <2>1, <2>4, <3>3, StepNames
    <3>5. Encode(call.call, context.access) \in [call : Calls, access : Accesses]
      BY <1>2 DEF Encode
    <3>6. LaunchTypeOK'
      BY <2>4, <3>5 DEF Launch, LaunchTypeOK, TypeOK, Steps
    <3>7. CallsAreOfTheTurn'
      BY <1>1, <1>2, <1>9, <2>1, <2>2, <3>4 DEF CallsAreOfTheTurn, confirmVars
    <3>. QED
      BY <1>1, <1>4, <1>9, <3>4, <3>6, <3>7, CallKeeps
  <2>. QED
    BY <1>9, <2>3, <2>4, ToolsChecked DEF AnswerCall
<1>10. ASSUME AskOwner \/ WaitStep, UNCHANGED <<launchVars, executionVars>>
       PROVE  CoreInv'
  <2>1. call.at = <<"ask">> /\ begun' = begun
    <3>1. CASE AskOwner
      BY <3>1 DEF AskOwner
    <3>2. CASE WaitStep
      BY <1>3, <3>2 DEF WaitStep, WaitLooks, WaitChecksFolder, WaitRegisters, WaitTakes,
         WaitTimesOut, Waiting, CallsAreOfTheTurn
    <3>. QED
      BY <1>10, <3>1, <3>2
  <2>2. ConfirmInv'
    <3>1. CASE AskOwner
      BY <1>2, <1>3, <3>1, AskingKeeps DEF AskOwner
    <3>2. CASE WaitStep
      BY <3>2, WaitStepKeeps
    <3>. QED
      BY <1>10, <3>1, <3>2
  <2>3. ExecutionTypeOK'
    BY <1>10 DEF executionVars, ExecutionTypeOK, TypeOK
  <2>4. CallsAreOfTheTurn'
    BY <1>1, <1>2, <1>5, <1>10, <2>1 DEF CallsAreOfTheTurn, executionVars
  <2>. QED
    BY <1>1, <1>5, <1>10, <2>2, <2>3, <2>4, CallKeeps
<1>11. ASSUME OwnerAnswered, UNCHANGED launchVars
       PROVE  CoreInv'
  <2>1. /\ call.at = <<"ask">> /\ waiter.at = "answered" /\ waiter' = NoWaiter
        /\ MoveCall(<<"again", "folder">>) \/ MoveCall(<<"answer">>)
        /\ UNCHANGED <<folder, sessions, begun, registry, resolutions, asked, activating, approvals>>
        /\ UNCHANGED <<context, made, installs>>
    BY <1>11 DEF OwnerAnswered, AnswerCall
  <2>2. ConfirmInv'
    BY <2>1, AskingKeeps
  <2>3. ExecutionTypeOK' /\ call'.at # <<"launched">> /\ call' # NoCall
    BY <1>6, <2>1, StepNames DEF Phases, Checks
  <2>4. CallsAreOfTheTurn'
    BY <1>1, <1>2, <1>5, <1>11, <2>1, <2>3, StepNames DEF CallsAreOfTheTurn
  <2>. QED
    BY <1>1, <1>5, <1>11, <2>2, <2>3, <2>4, CallKeeps
<1>12. ASSUME call.at = <<"launched">>, HostStep, UNCHANGED <<confirmVars, executionVars>>
       PROVE  CoreInv'
  <2>1. LaunchTypeOK'
    BY <1>12, LaunchTypes DEF TypeOK
  <2>2. ExecutionTypeOK'
    BY <1>12 DEF executionVars, ExecutionTypeOK, TypeOK
  <2>3. CallsAreOfTheTurn'
    BY <1>1, <1>2, <1>12 DEF CallsAreOfTheTurn, confirmVars, executionVars
  <2>. QED
    BY <1>1, <1>4, <1>12, <2>1, <2>2, <2>3, CallKeeps
<1>13. ASSUME LaunchReturned, UNCHANGED confirmVars
       PROVE  CoreInv'
  <2>1. call.at = <<"launched">> /\ MoveCall(<<"answer">>) /\ Forget
        /\ UNCHANGED <<context, made, installs>>
    BY <1>13 DEF LaunchReturned, AnswerCall
  <2>2. ExecutionTypeOK' /\ call'.at = <<"answer">> /\ call' # NoCall
    BY <1>6, <2>1, StepNames
  <2>3. LaunchTypeOK' /\ Fresh'
    BY <2>1 DEF Forget, LaunchTypeOK, Fresh, TypeOK, Processes, ProcessStates, Outcomes
  <2>4. CallsAreOfTheTurn'
    BY <1>1, <1>2, <1>13, <2>1, <2>2, <2>3, StepNames DEF CallsAreOfTheTurn, confirmVars
  <2>. QED
    BY <1>1, <1>4, <1>13, <2>2, <2>3, <2>4, CallKeeps
<1>. QED
  BY <1>1, <1>8, <1>9, <1>10, <1>11, <1>12, <1>13 DEF CallStep, Phases, AskOwner

\* The owner leaves the waiter where it is; a session that begins has a new number.
LEMMA OwnerStepFrame ==
  ASSUME OwnerStep
  PROVE  waiter' = waiter /\ (begun' = begun \/ begun' = begun + 1)
BY DEF OwnerStep, ChangeFolder, Activate, Deactivate, EnsureRoomSession, BeginRoomSession,
   ResolveForRoom

\* The call is made, and its answer is given back to Codex.
LEMMA ToolCallKeeps ==
  ASSUME CoreInv, CodexCallsTool
  PROVE  CoreInv' /\ UNCHANGED <<confirmVars, launchVars, context, installs>> /\ call = NoCall
         /\ call'.at = <<"prepare", "folder">> /\ call' # NoCall
<1>. USE DEF CoreInv
<1>1. PICK c \in OfferedCalls : ToolCall(c)
  BY DEF CodexCallsTool
<1>2. /\ turn.at = "turn" /\ MoveTurn([turn EXCEPT !.at = "call"])
      /\ UNCHANGED <<confirmVars, launchVars, provider>>
      /\ context # NoContext /\ made < MaxCalls /\ made' = made + 1
      /\ call' = [at |-> <<"prepare", "folder">>, call |-> c]
      /\ UNCHANGED <<context, installs>>
  BY <1>1 DEF CodexCallsTool, At, Goto, ToolCall
<1>3. turn \in [at : {"turn", "call"}, room : Rooms]
  BY <1>2, TurnShapes DEF TypeOK
<1>4. turn' \in CurrentTurns /\ turn'.at = "call" /\ UNCHANGED <<turns, cancelled, accepted, result>>
  BY <1>2, <1>3 DEF MoveTurn, CurrentTurns
<1>5. call' \in [at : CallSteps \ {<<"none">>}, call : OfferedCalls]
      /\ call'.at = <<"prepare", "folder">> /\ call'.at # <<"launched">>
  BY <1>2, StepNames DEF Phases, Checks
<1>6. call' # NoCall
  BY <1>5, StepNames DEF NoCall, Phases, Checks
<1>7. call = NoCall /\ call.at # <<"ask">> /\ call.at # <<"launched">>
  BY <1>2, StepNames DEF CallsAreOfTheTurn, NoCall
<1>8. ConfirmInv'
  BY <1>2 DEF confirmVars, ConfirmInv, ConfirmTypeOK, SessionsAreNumbered, RegistryIsActive,
     RequestsAreNumbered, AllowedByOwner, WaiterIsTold, StillActive, Waiting
<1>9. LaunchTypeOK' /\ ExecutionTypeOK' /\ made' >= 1
  BY <1>2, <1>5, ExecutionConstants DEF launchVars, LaunchTypeOK, ExecutionTypeOK, TypeOK
<1>10. TypeOK'
  BY <1>2, <1>4, <1>8, <1>9 DEF TypeOK, ConfirmInv, ProviderTypeOK
<1>11. CallsAreOfTheTurn'
  BY <1>2, <1>4, <1>6, <1>7, <1>9 DEF CallsAreOfTheTurn, Fresh, launchVars, confirmVars
<1>12. OpeningIsUnseen' /\ NotStartedIsTrue'
  BY <1>2, <1>4 DEF Preflight, OpeningIsUnseen, NotStartedIsTrue, NoTurn
<1>. QED
  BY <1>2, <1>5, <1>6, <1>7, <1>8, <1>10, <1>11, <1>12

LEMMA AnswersCallKeeps ==
  ASSUME CoreInv, AnswersCall
  PROVE  CoreInv' /\ UNCHANGED <<confirmVars, launchVars, installs>> /\ call' = NoCall
<1>. USE DEF CoreInv
<1>1. turn.at = "call" /\ call.at = <<"answer">>
  BY DEF AnswersCall, At
<1>2. CASE Return("Unavailable")
  BY <1>1, <1>2, ReturnKeeps DEF Return, Results
<1>3. CASE ~Return("Unavailable")
  <2>1. /\ MoveTurn([turn EXCEPT !.at = "turn"]) /\ call' = NoCall
        /\ UNCHANGED <<confirmVars, launchVars, context, made, installs, provider>>
    BY <1>3 DEF AnswersCall, Goto
  <2>2. turn \in [at : {"turn", "call"}, room : Rooms]
    BY <1>1, TurnShapes DEF TypeOK
  <2>3. turn' \in CurrentTurns /\ turn'.at = "turn" /\ UNCHANGED <<turns, cancelled, accepted, result>>
    BY <2>1, <2>2 DEF MoveTurn, CurrentTurns
  <2>4. ConfirmInv'
    BY <2>1 DEF confirmVars, ConfirmInv, ConfirmTypeOK, SessionsAreNumbered, RegistryIsActive,
       RequestsAreNumbered, AllowedByOwner, WaiterIsTold, StillActive, Waiting
  <2>5. LaunchTypeOK' /\ ExecutionTypeOK'
    BY <2>1 DEF launchVars, LaunchTypeOK, ExecutionTypeOK, TypeOK
  <2>6. TypeOK'
    BY <2>1, <2>3, <2>4, <2>5 DEF TypeOK, ConfirmInv, ProviderTypeOK
  <2>7. CallsAreOfTheTurn'
    BY <1>1, <2>1, <2>3, StepNames DEF CallsAreOfTheTurn, Fresh, launchVars, confirmVars, NoCall
  <2>8. OpeningIsUnseen' /\ NotStartedIsTrue'
    BY <1>1, <2>3 DEF Preflight, OpeningIsUnseen, NotStartedIsTrue, NoTurn
  <2>. QED
    BY <2>1, <2>4, <2>6, <2>7, <2>8
<1>. QED
  BY <1>2, <1>3

\* A turn begins with nothing accepted and no result.
LEMMA BeginKeeps ==
  ASSUME CoreInv, NEW at \in {"codex", "cli"}, NEW room \in Rooms, NEW access \in Accesses,
         Begin(at, room, access)
  PROVE  CoreInv' /\ UNCHANGED <<confirmVars, launchVars, executionVars>>
<1>. USE DEF CoreInv
<1>1. /\ turn = NoTurn /\ turns < MaxTurns /\ turns' = turns + 1
      /\ turn' = [at |-> at, room |-> room, workspace |-> folder[room], access |-> access]
      /\ cancelled' = FALSE /\ accepted' = FALSE /\ result' = "none"
      /\ UNCHANGED <<confirmVars, launchVars, executionVars, provider>>
  BY DEF Begin
<1>2. folder[room] \in Workspaces \cup {NoWorkspace}
  BY DEF ConfirmInv, ConfirmTypeOK
<1>3. turn' \in CurrentTurns /\ turn'.at = at /\ turn.at # "call"
  BY <1>1, <1>2 DEF CurrentTurns, NoTurn
<1>4. turns' \in 0..MaxTurns
  BY <1>1, TurnConstants DEF TypeOK
<1>5. TypeOK' /\ ConfirmInv' /\ CallsAreOfTheTurn'
  BY <1>1, <1>3, <1>4, FrameKeeps DEF TypeOK, ConfirmInv, ProviderTypeOK, Results
<1>6. OpeningIsUnseen' /\ NotStartedIsTrue'
  BY <1>1, <1>3 DEF OpeningIsUnseen, NotStartedIsTrue
<1>. QED
  BY <1>1, <1>5, <1>6

\* Beside the turn: the owner, and the processes of a command.
LEMMA OthersKeep ==
  ASSUME CoreInv,
         \/ OwnerStep /\ UNCHANGED <<launchVars, executionVars, provider, turnVars>>
         \/ CommandProcesses
         \/ UNCHANGED vars
  PROVE  CoreInv'
<1>. USE DEF CoreInv
<1>1. UNCHANGED <<executionVars, provider, turnVars>>
  BY DEF CommandProcesses, vars
<1>2. ExecutionTypeOK' /\ ProviderTypeOK' /\ OpeningIsUnseen' /\ NotStartedIsTrue'
  BY <1>1 DEF executionVars, turnVars, ExecutionTypeOK, ProviderTypeOK, TypeOK, OpeningIsUnseen,
     NotStartedIsTrue, Stage
<1>3. ASSUME OwnerStep, UNCHANGED launchVars
      PROVE  ConfirmInv' /\ LaunchTypeOK' /\ CallsAreOfTheTurn'
  <2>1. ConfirmInv'
    BY <1>3, OwnerStepKeeps
  <2>2. LaunchTypeOK'
    BY <1>3 DEF launchVars, LaunchTypeOK, TypeOK
  <2>3. context # NoContext => context.session.id \in Int
    BY CallShapes DEF Sessions
  <2>4. begun \in Int
    BY DEF ConfirmInv, ConfirmTypeOK
  <2>5. CallsAreOfTheTurn'
    BY <1>1, <1>3, <2>3, <2>4, OwnerStepFrame DEF executionVars, turnVars, launchVars,
       CallsAreOfTheTurn, Fresh
  <2>. QED
    BY <2>1, <2>2, <2>5
<1>4. ASSUME CommandProcesses
      PROVE  ConfirmInv' /\ LaunchTypeOK' /\ CallsAreOfTheTurn'
  <2>1. ProcessStep /\ UNCHANGED confirmVars
    BY <1>4 DEF CommandProcesses
  <2>2. ConfirmInv'
    BY <2>1 DEF confirmVars, ConfirmInv, ConfirmTypeOK, SessionsAreNumbered, RegistryIsActive,
       RequestsAreNumbered, AllowedByOwner, WaiterIsTold, StillActive, Waiting
  <2>3. LaunchTypeOK'
    BY <2>1, LaunchTypes DEF TypeOK
  <2>4. CallsAreOfTheTurn'
    BY <1>1, <2>1, FreshIsStill DEF executionVars, turnVars, confirmVars, CallsAreOfTheTurn
  <2>. QED
    BY <2>2, <2>3, <2>4
<1>5. ASSUME UNCHANGED vars
      PROVE  ConfirmInv' /\ LaunchTypeOK' /\ CallsAreOfTheTurn'
  BY <1>5, FrameKeeps DEF vars, turnVars
<1>6. ConfirmInv' /\ LaunchTypeOK' /\ CallsAreOfTheTurn'
  BY <1>3, <1>4, <1>5
<1>. QED
  BY <1>1, <1>2, <1>6 DEF TypeOK, turnVars, ConfirmInv

LEMMA CoreStarts ==
  ASSUME Init
  PROVE  CoreInv
<1>1. /\ ConfirmInit /\ LaunchInit /\ ExecutionInit /\ ProviderInit
      /\ turn = NoTurn /\ turns = 0 /\ cancelled = FALSE /\ accepted = FALSE /\ result = "none"
  BY DEF Init
<1>2. ConfirmInv
  BY <1>1, ConfirmStarts
<1>3. LaunchTypeOK /\ Fresh
  BY <1>1 DEF LaunchInit, LaunchTypeOK, Fresh, Steps, ProcessStates, Outcomes
<1>4. ExecutionTypeOK /\ ProviderTypeOK
  BY <1>1, ExecutionConstants DEF ExecutionInit, ExecutionTypeOK, ProviderInit, ProviderTypeOK
<1>5. turn \in CurrentTurns /\ turns \in 0..MaxTurns /\ result \in Results
  BY <1>1, TurnConstants DEF CurrentTurns, Results
<1>6. TypeOK
  BY <1>1, <1>2, <1>3, <1>4, <1>5 DEF TypeOK, ConfirmInv
<1>7. CallsAreOfTheTurn
  BY <1>1, <1>3 DEF CallsAreOfTheTurn, ExecutionInit, ConfirmInit, NoTurn
<1>8. OpeningIsUnseen /\ NotStartedIsTrue
  BY <1>1 DEF OpeningIsUnseen, NotStartedIsTrue, NoTurn
<1>. QED
  BY <1>2, <1>6, <1>7, <1>8 DEF CoreInv

LEMMA CoreSteps ==
  ASSUME CoreInv, [Next]_vars
  PROVE  CoreInv'
<1>1. ASSUME NEW room \in Rooms, NEW access \in Accesses,
             Begin("codex", room, access) \/ Begin("cli", room, "ReadOnly")
      PROVE  CoreInv'
  BY <1>1, BeginKeeps DEF Accesses
<1>2. CASE TurnStep
  BY <1>2, TurnMoves, AnswersCallKeeps, CallRunsKeeps DEF TurnStep
<1>3. CASE CodexCallsTool
  BY <1>3, ToolCallKeeps
<1>4. CASE CommandProcesses \/ UNCHANGED vars
  BY <1>4, OthersKeep
<1>5. CASE Environment
  BY <1>5, BesideTheTurn, OthersKeep DEF Environment
<1>6. CASE \E room \in Rooms : Begin("cli", room, "ReadOnly")
  BY <1>1, <1>6 DEF Accesses
<1>. QED
  BY <1>1, <1>2, <1>3, <1>4, <1>5, <1>6 DEF Next

-----------------------------------------------------------------------------
(* What is asked for.                                                       *)

\* While the owner is asked, the call and the turn wait.
LEMMA WhileAsking ==
  ASSUME CoreInv, [Next]_vars
  PROVE  \/ AskOwner /\ call' = call /\ context' = context
         \/ OwnerAnswered
         \/ WaitStep /\ call' = call /\ context' = context
         \/ waiter' = waiter /\ waiter = NoWaiter
         \/ waiter' = waiter /\ call' = call /\ context' = context
<1>. USE DEF CoreInv
<1>1. call # NoCall => turn.at = "call"
  BY DEF CallsAreOfTheTurn
<1>2. waiter # NoWaiter => call.at = <<"ask">> /\ turn.at = "call"
  BY <1>1, StepNames DEF CallsAreOfTheTurn, NoCall
<1>3. CASE CallRuns
  <2>1. CASE WaitStep /\ UNCHANGED <<launchVars, executionVars>>
    BY <2>1 DEF executionVars
  <2>2. CASE AskOwner \/ OwnerAnswered
    BY <2>2 DEF AskOwner, executionVars
  <2>3. ASSUME NEW phase \in Phases, CheckFolder(phase) \/ CheckSession(phase) \/ CheckTools(phase),
               UNCHANGED confirmVars
        PROVE  waiter' = waiter /\ waiter = NoWaiter
    <3>1. PICK check \in Checks : call.at = <<phase, check>>
      BY <2>3 DEF CheckFolder, CheckSession, CheckTools, Checks
    <3>. QED
      BY <1>2, <2>3, <3>1, StepNames DEF confirmVars
  <2>4. CASE HostStep /\ UNCHANGED <<confirmVars, executionVars>>
    BY <2>4 DEF confirmVars, executionVars
  <2>5. CASE LaunchReturned /\ UNCHANGED confirmVars
    BY <1>2, <2>5, StepNames DEF confirmVars, LaunchReturned
  <2>. QED
    BY <1>3, <2>1, <2>2, <2>3, <2>4, <2>5 DEF CallRuns, CallStep, Phases
<1>4. CASE AnswersCall
  BY <1>2, <1>4, AnswersCallKeeps, StepNames DEF AnswersCall, confirmVars
<1>5. CASE CodexCallsTool
  BY <1>2, <1>5 DEF CodexCallsTool, At, confirmVars
<1>6. CASE TurnStep /\ ~CallRuns /\ ~AnswersCall
  <2>1. UNCHANGED confirmVars /\ call = NoCall
    BY <1>6, TurnMoves DEF TurnStep
  <2>. QED
    BY <1>2, <2>1, StepNames DEF confirmVars, NoCall
<1>7. CASE CommandProcesses \/ Environment \/ UNCHANGED vars
  BY <1>7, OwnerStepFrame, BesideTheTurn DEF CommandProcesses, Environment, vars, confirmVars, executionVars
<1>8. ASSUME NEW room \in Rooms, NEW access \in Accesses,
             Begin("codex", room, access) \/ Begin("cli", room, "ReadOnly")
      PROVE  waiter' = waiter /\ call' = call /\ context' = context
  BY <1>8 DEF Begin, confirmVars, executionVars
<1>9. CASE \E room \in Rooms : Begin("cli", room, "ReadOnly")
  BY <1>8, <1>9 DEF Accesses
<1>. QED
  BY <1>3, <1>4, <1>5, <1>6, <1>7, <1>8, <1>9 DEF Next

LEMMA AsksForTheCallSteps ==
  ASSUME CoreInv, AsksForTheCall, [Next]_vars
  PROVE  AsksForTheCall'
<1>. USE DEF AsksForTheCall
<1>1. CASE AskOwner /\ call' = call /\ context' = context
  BY <1>1 DEF AskOwner, Ask
<1>2. CASE OwnerAnswered \/ (waiter' = waiter /\ waiter = NoWaiter)
  BY <1>2 DEF OwnerAnswered, NoWaiter
<1>3. CASE WaitStep /\ call' = call /\ context' = context
  <2>1. WaiterIsTold /\ SessionsAreNumbered /\ ConfirmTypeOK
    BY DEF CoreInv, ConfirmInv
  <2>2. CASE WaitLooks
    <3>1. waiter.at = "look" /\ waiter.room \in Rooms
      BY <2>1, <2>2, WaiterShapes DEF WaitLooks
    <3>. QED
      BY <1>3, <2>1, <2>2, <3>1 DEF WaitLooks, Answer, SessionsAreNumbered
  <2>3. CASE WaitChecksFolder \/ WaitRegisters
    BY <1>3, <2>3 DEF WaitChecksFolder, WaitRegisters, Answer
  <2>4. CASE WaitTakes \/ WaitTimesOut
    BY <1>3, <2>4 DEF WaitTakes, WaitTimesOut, Answer
  <2>. QED
    BY <1>3, <2>2, <2>3, <2>4 DEF WaitStep
<1>4. CASE waiter' = waiter /\ call' = call /\ context' = context
  BY <1>4
<1>. QED
  BY <1>1, <1>2, <1>3, <1>4, WhileAsking

-----------------------------------------------------------------------------
(* What is allowed, and what it pays for.                                    *)

\* The sets that are counted are finite.
LEMMA Counted ==
  ASSUME IsFiniteSet(approvals), IsFiniteSet(installs), registry.ready \subseteq approvals, NEW scope
  PROVE  /\ IsFiniteSet(Approved(scope)) /\ Cardinality(Approved(scope)) \in Nat
         /\ IsFiniteSet(Launched(scope)) /\ Cardinality(Launched(scope)) \in Nat
         /\ IsFiniteSet(Ready(scope)) /\ Cardinality(Ready(scope)) \in Nat
         /\ Hand(scope) \in {0, 1}
<1>1. /\ Approved(scope) \in SUBSET approvals /\ Launched(scope) \in SUBSET installs
      /\ Ready(scope) \in SUBSET approvals
  BY DEF Approved, Launched, Ready
<1>. QED
  BY <1>1, FS_Subset, FS_CardinalityType DEF Hand

\* Nothing new is launched or comes to hand.
LEMMA StaysPaidFor ==
  ASSUME InstallsArePaidFor, registry.ready \subseteq approvals,
         approvals' = approvals, installs' = installs,
         registry'.ready \subseteq registry.ready,
         InHand' => InHand /\ CallScope' = CallScope
  PROVE  InstallsArePaidFor'
<1>. USE DEF InstallsArePaidFor
<1>. SUFFICES ASSUME NEW scope \in Scopes, ~ForSession(scope)
              PROVE  PaidFor(scope)'
  BY DEF ForSession, Approved
<1>1. PaidFor(scope)
  OBVIOUS
<1>2. Approved(scope)' = Approved(scope) /\ Launched(scope)' = Launched(scope)
      /\ Ready(scope)' \in SUBSET Ready(scope)
  BY DEF Approved, Launched, Ready
<1>3. Hand(scope)' <= Hand(scope)
  BY DEF Hand
<1>4. IsFiniteSet(Ready(scope)) /\ Cardinality(Ready(scope)) \in Nat
      /\ Cardinality(Launched(scope)) \in Nat /\ Cardinality(Approved(scope)) \in Nat
      /\ Hand(scope) \in {0, 1}
  BY Counted
<1>5. Hand(scope)' \in {0, 1}
  BY DEF Hand
<1>6. Cardinality(Ready(scope)') <= Cardinality(Ready(scope)) /\ Cardinality(Ready(scope)') \in Nat
  BY <1>2, <1>4, FS_Subset, FS_CardinalityType
<1>. HIDE DEF InstallsArePaidFor
<1>7. Cardinality(Launched(scope)') = Cardinality(Launched(scope))
      /\ Cardinality(Approved(scope)') = Cardinality(Approved(scope))
  BY <1>2
<1>8. Cardinality(Launched(scope)') + Cardinality(Ready(scope)') + Hand(scope)'
        <= Cardinality(Approved(scope)')
  BY <1>1, <1>3, <1>4, <1>5, <1>6, <1>7 DEF PaidFor
<1>. QED
  BY <1>8 DEF PaidFor

\* A session that was ended does not become active again.
LEMMA SessionsDoNotReturn ==
  ASSUME ConfirmInv, OwnerStep, NEW session \in Sessions, session.id <= begun, StillActive(session)'
  PROVE  StillActive(session)
<1>. USE DEF ConfirmInv
<1>1. CASE sessions' = sessions
  BY <1>1 DEF StillActive
<1>2. ASSUME NEW room \in Rooms, sessions' = [sessions EXCEPT ![room] = NoSession]
      PROVE  StillActive(session)
  BY <1>2, SessionConstant DEF StillActive, ConfirmTypeOK, Sessions
<1>3. ASSUME NEW room \in Rooms, NEW workspace,
             sessions' = [sessions EXCEPT ![room] = [room |-> room, id |-> begun + 1, key |-> workspace]]
      PROVE  StillActive(session)
  <2>1. session.id # begun + 1
    BY DEF ConfirmTypeOK, Sessions
  <2>2. session # [room |-> room, id |-> begun + 1, key |-> workspace]
    BY <2>1
  <2>. QED
    BY <1>3, <2>2 DEF StillActive, ConfirmTypeOK, Sessions
<1>4. \/ sessions' = sessions
      \/ \E room \in Rooms : sessions' = [sessions EXCEPT ![room] = NoSession]
      \/ \E room \in Rooms, workspace \in Workspaces :
           sessions' = [sessions EXCEPT ![room] = [room |-> room, id |-> begun + 1, key |-> workspace]]
  BY DEF OwnerStep, ChangeFolder, Activate, Deactivate, EndRoomSession, EnsureRoomSession,
     BeginRoomSession, ResolveForRoom, ConfirmTypeOK
<1>. QED
  BY <1>1, <1>2, <1>3, <1>4

\* The owner allows a request: the approval and what it readies come together.
LEMMA DecisionPays ==
  ASSUME ConfirmInv, InstallsArePaidFor, NEW room \in Rooms, NEW decision,
         ResolveForRoom(room, decision), UNCHANGED executionVars
  PROVE  InstallsArePaidFor'
<1>. USE DEF ConfirmInv
<1>. DEFINE lifetime == IF decision = "AllowOnce" THEN "Once" ELSE "RoomSession"
<1>1. PICK wanted \in registry.pending :
        /\ registry' = Resolve(wanted, decision)
        /\ approvals' = approvals \cup (registry'.ready \ registry.ready)
        /\ UNCHANGED <<sessions, waiter>>
  BY DEF ResolveForRoom, Pending
<1>. DEFINE entry == [id |-> wanted.id, scope |-> wanted.scope, lifetime |-> lifetime]
<1>2. registry \in Registries
  BY DEF ConfirmTypeOK
<1>3. registry'.ready = registry.ready \cup (IF Allows(decision) THEN {entry} ELSE {})
  BY <1>1, <1>2, ResolvedRegistry
<1>4. entry \notin approvals /\ registry.ready \subseteq approvals /\ entry.id = wanted.id
  BY DEF RequestsAreNumbered, AllowedByOwner
<1>. HIDE DEF entry
<1>5. approvals' = approvals \cup (IF Allows(decision) THEN {entry} ELSE {})
  BY <1>1, <1>3, <1>4
<1>6. (InHand' <=> InHand) /\ CallScope' = CallScope /\ installs' = installs
  BY <1>1 DEF InHand, CallScope, StillActive, executionVars
<1>7. CASE ~Allows(decision)
  BY <1>3, <1>4, <1>5, <1>6, <1>7, StaysPaidFor
<1>8. CASE Allows(decision)
  <2>1. IsFiniteSet(approvals') /\ IsFiniteSet(installs')
    BY <1>5, <1>6, <1>8, FS_AddElement DEF InstallsArePaidFor
  <2>2. ASSUME NEW scope \in Scopes, ~ForSession(scope)'
        PROVE  PaidFor(scope)'
    <3>1. ~ForSession(scope)
      BY <1>5, <2>2 DEF ForSession, Approved
    <3>2. PaidFor(scope)
      BY <3>1 DEF InstallsArePaidFor
    <3>3. Hand(scope)' = Hand(scope) /\ Launched(scope)' = Launched(scope)
      BY <1>6 DEF Hand, Launched
    <3>4. CASE entry.scope = scope
      <4>1. /\ Approved(scope)' = Approved(scope) \cup {entry} /\ entry \notin Approved(scope)
            /\ Ready(scope)' = Ready(scope) \cup {entry} /\ entry \notin Ready(scope)
        BY <1>3, <1>4, <1>5, <1>8, <3>4 DEF Approved, Ready
      <4>2. /\ IsFiniteSet(Approved(scope)) /\ Cardinality(Approved(scope)) \in Nat
            /\ Cardinality(Launched(scope)) \in Nat
            /\ IsFiniteSet(Ready(scope)) /\ Cardinality(Ready(scope)) \in Nat
            /\ Hand(scope) \in {0, 1}
        BY <1>4, Counted DEF InstallsArePaidFor
      <4>3. /\ Cardinality(Approved(scope)') = Cardinality(Approved(scope)) + 1
            /\ Cardinality(Ready(scope)') = Cardinality(Ready(scope)) + 1
        BY <4>1, <4>2, FS_AddElement
      <4>4. Cardinality(Launched(scope)') = Cardinality(Launched(scope))
        BY <3>3
      <4>5. Cardinality(Launched(scope)') + Cardinality(Ready(scope)') + Hand(scope)'
              <= Cardinality(Approved(scope)')
        BY <3>2, <3>3, <4>2, <4>3, <4>4 DEF PaidFor
      <4>. QED
        BY <4>5 DEF PaidFor
    <3>5. CASE entry.scope # scope
      <4>1. Approved(scope)' = Approved(scope) /\ Ready(scope)' = Ready(scope)
        BY <1>3, <1>5, <1>8, <3>5 DEF Approved, Ready
      <4>. QED
        BY <3>2, <3>3, <4>1 DEF PaidFor
    <3>. QED
      BY <3>4, <3>5
  <2>. QED
    BY <2>1, <2>2 DEF InstallsArePaidFor
<1>. QED
  BY <1>7, <1>8

\* What the waiter does: a grant is for the session, and a decision is taken once.
LEMMA AnswerPays ==
  ASSUME CoreInv, AsksForTheCall, InstallsArePaidFor, call.at = <<"ask">>, WaitStep,
         UNCHANGED executionVars
  PROVE  InstallsArePaidFor'
<1>. USE DEF CoreInv, ConfirmInv
<1>1. /\ call # NoCall /\ context.session \in Sessions /\ context.session.room \in Rooms
      /\ call.call.target \in Targets
  BY CallShapes, StepNames DEF CallsAreOfTheTurn, NoCall
<1>2. call' = call /\ context' = context /\ installs' = installs /\ CallScope' = CallScope
  BY DEF executionVars, CallScope
<1>3. registry \in Registries /\ registry.ready \subseteq approvals
  BY DEF ConfirmTypeOK, AllowedByOwner
<1>4. call.at \notin {<<"again", "tools">>, <<"again", "folder">>, <<"again", "session">>}
      /\ call.at \notin {"execute"} \X Checks
  BY StepNames DEF Phases, Checks
<1>5. InHand' => /\ StillActive(context.session)'
                 /\ waiter'.at = "answered" /\ waiter'.outcome = "Authorized"
  BY <1>2, <1>4 DEF InHand
<1>6. ASSUME approvals' = approvals, registry'.ready \subseteq registry.ready,
             ~(waiter'.at = "answered" /\ waiter'.outcome = "Authorized")
      PROVE  InstallsArePaidFor'
  BY <1>2, <1>3, <1>5, <1>6, StaysPaidFor
<1>7. CASE WaitLooks
  BY <1>3, <1>6, <1>7 DEF WaitLooks, Answer
<1>8. CASE WaitChecksFolder
  <2>1. approvals' = approvals /\ ~(waiter'.at = "answered" /\ waiter'.outcome = "Authorized")
    BY <1>8 DEF WaitChecksFolder, Answer
  <2>2. registry'.ready \subseteq registry.ready
    BY <1>3, <1>8, EndedRegistry DEF WaitChecksFolder, EndRoomSession, EndSession
  <2>. QED
    BY <1>6, <2>1, <2>2
\* The scope of what the waiter was given is that of the call, if the session of the
\* turn is active still.
<1>9. ASSUME waiter.at \in {"register", "waiting"}, StillActive(waiter.request.scope.session),
             StillActive(context.session)
      PROVE  waiter.request.scope = CallScope
  <2>1. waiter.request.scope \in Scopes
    BY <1>9, WaiterShapes DEF Asked
  <2>2. /\ waiter.request.scope.session.room = context.session.room
        /\ waiter.request.scope.target = call.call.target
    BY <1>9 DEF AsksForTheCall
  <2>3. waiter.request.scope.session = context.session
    BY <1>9, <2>2 DEF StillActive
  <2>. QED
    BY <2>1, <2>2, <2>3 DEF Scopes, CallScope
<1>10. CASE WaitRegisters
  <2>. DEFINE mine == waiter.request
  <2>1. waiter.at = "register" /\ mine \in Asked
    BY <1>10, WaiterShapes DEF WaitRegisters
  <2>2. /\ UNCHANGED <<sessions, approvals>>
        /\ \/ /\ ~(waiter'.at = "answered" /\ waiter'.outcome = "Authorized")
              /\ registry'.ready = registry.ready
           \/ /\ StillActive(mine.scope.session) /\ Granted(mine)
              /\ registry' = Finish(registry, mine)
    <3>1. [registry EXCEPT !.pending = @ \cup {mine}].ready = registry.ready
      BY <1>3 DEF Registries
    <3>2. \/ Answer("RoomSessionEnded") /\ UNCHANGED registry
          \/ Answer("Error") /\ UNCHANGED registry
          \/ StillActive(mine.scope.session) /\ Granted(mine) /\ registry' = Finish(registry, mine)
          \/ /\ waiter' = [at |-> "waiting", request |-> mine]
             /\ registry' = [registry EXCEPT !.pending = @ \cup {mine}]
      BY <1>10 DEF WaitRegisters
    <3>3. UNCHANGED <<sessions, approvals>>
      BY <1>10 DEF WaitRegisters
    <3>4. CASE Answer("RoomSessionEnded") \/ Answer("Error")
      BY <3>2, <3>3, <3>4 DEF Answer
    <3>5. CASE /\ waiter' = [at |-> "waiting", request |-> mine]
               /\ registry' = [registry EXCEPT !.pending = @ \cup {mine}]
      <4>1. registry'.ready = registry.ready /\ waiter'.at # "answered"
        BY <3>1, <3>5
      <4>. QED
        BY <3>3, <4>1
    <3>. QED
      BY <3>2, <3>3, <3>4, <3>5
  <2>3. CASE /\ ~(waiter'.at = "answered" /\ waiter'.outcome = "Authorized")
             /\ registry'.ready = registry.ready
    BY <1>6, <2>2, <2>3
  <2>4. CASE /\ StillActive(mine.scope.session) /\ Granted(mine)
             /\ registry' = Finish(registry, mine)
    <3>1. registry'.ready = registry.ready
      BY <1>3, <2>1, <2>4, FinishedRegistry
    <3>2. ForSession(mine.scope)
      BY <2>4 DEF Granted, AllowedByOwner, ForSession, Approved
    <3>3. ASSUME NEW scope \in Scopes, ~ForSession(scope)'
          PROVE  PaidFor(scope)'
      <4>1. ~ForSession(scope) /\ scope # mine.scope
        BY <2>2, <3>2, <3>3 DEF ForSession, Approved
      <4>2. PaidFor(scope)
        BY <4>1 DEF InstallsArePaidFor
      <4>3. /\ Approved(scope)' = Approved(scope) /\ Launched(scope)' = Launched(scope)
            /\ Ready(scope)' = Ready(scope)
        BY <1>2, <2>2, <3>1 DEF Approved, Launched, Ready
      <4>4. ~(InHand' /\ scope = CallScope')
        BY <1>2, <1>5, <1>9, <2>1, <2>2, <2>4, <4>1 DEF StillActive
      <4>5. Hand(scope)' = 0
        BY <4>4 DEF Hand
      <4>6. /\ Cardinality(Launched(scope)) \in Nat /\ Cardinality(Ready(scope)) \in Nat
            /\ Cardinality(Approved(scope)) \in Nat /\ Hand(scope) \in {0, 1}
        BY <1>3, Counted DEF InstallsArePaidFor
      <4>7. Cardinality(Launched(scope)') + Cardinality(Ready(scope)') + Hand(scope)'
              <= Cardinality(Approved(scope)')
        BY <4>2, <4>3, <4>5, <4>6 DEF PaidFor
      <4>. QED
        BY <4>7 DEF PaidFor
    <3>4. IsFiniteSet(approvals') /\ IsFiniteSet(installs')
      BY <1>2, <2>2 DEF InstallsArePaidFor
    <3>. QED
      BY <3>3, <3>4 DEF InstallsArePaidFor
  <2>. QED
    BY <2>2, <2>3, <2>4
<1>11. CASE WaitTakes
  <2>. DEFINE mine == waiter.request
              ready == {e \in registry.ready : e.id = mine.id}
  <2>1. waiter.at = "waiting" /\ mine \in Asked /\ Waiting
    BY <1>11, WaiterShapes DEF WaitTakes, Waiting
  <2>2. /\ UNCHANGED <<sessions, approvals>>
        /\ \/ ~(waiter'.at = "answered" /\ waiter'.outcome = "Authorized") /\ UNCHANGED registry
           \/ ready # {} /\ registry' = Finish([registry EXCEPT !.ready = @ \ ready], mine)
    <3>1. resolutions[mine.id] # "Authorized"
      BY <2>1 DEF Asked, ConfirmTypeOK
    <3>. QED
      BY <1>11, <3>1 DEF WaitTakes, Answer
  <2>3. CASE ~(waiter'.at = "answered" /\ waiter'.outcome = "Authorized") /\ UNCHANGED registry
    BY <1>6, <2>2, <2>3
  <2>4. CASE ready # {} /\ registry' = Finish([registry EXCEPT !.ready = @ \ ready], mine)
    <3>1. registry'.ready = registry.ready \ ready
      <4>. DEFINE rest == [registry EXCEPT !.ready = @ \ ready]
      <4>1. rest \in Registries /\ rest.ready = registry.ready \ ready
        BY <1>3 DEF Registries
      <4>2. registry' = Finish(rest, mine)
        BY <2>4
      <4>. HIDE DEF rest
      <4>. QED
        BY <2>1, <4>1, <4>2, FinishedRegistry
    <3>2. PICK entry \in registry.ready : entry.id = mine.id
      BY <2>4
    <3>3. entry.scope = mine.scope /\ StillActive(mine.scope.session)
      BY <1>3, <2>1, <3>2 DEF WaiterIsTold, RegistryIsActive
    <3>4. ready = {entry}
      BY <1>3, <3>2 DEF RequestsAreNumbered
    <3>. HIDE DEF ready
    <3>5. ASSUME NEW scope \in Scopes, ~ForSession(scope)'
          PROVE  PaidFor(scope)'
      <4>1. PaidFor(scope)
        BY <2>2, <3>5 DEF ForSession, Approved, InstallsArePaidFor
      <4>2. Approved(scope)' = Approved(scope) /\ Launched(scope)' = Launched(scope)
        BY <1>2, <2>2 DEF Approved, Launched
      <4>3. /\ IsFiniteSet(Ready(scope)) /\ Cardinality(Ready(scope)) \in Nat
            /\ Cardinality(Launched(scope)) \in Nat
            /\ Cardinality(Approved(scope)) \in Nat /\ Hand(scope) \in {0, 1}
        BY <1>3, Counted DEF InstallsArePaidFor
      <4>4. Hand(scope)' \in {0, 1} /\ (scope # mine.scope => Hand(scope)' = 0)
        <5>1. InHand' => mine.scope = CallScope'
          BY <1>2, <1>5, <1>9, <2>1, <2>2, <3>3 DEF StillActive
        <5>. QED
          BY <5>1 DEF Hand
      <4>5. Cardinality(Ready(scope)')
              = Cardinality(Ready(scope)) - (IF scope = mine.scope THEN 1 ELSE 0)
        <5>1. CASE scope = mine.scope
          <6>1. Ready(scope)' = Ready(scope) \ {entry} /\ entry \in Ready(scope)
            BY <3>1, <3>2, <3>3, <3>4, <5>1 DEF Ready
          <6>2. Cardinality(Ready(scope) \ {entry}) = Cardinality(Ready(scope)) - 1
            BY <4>3, <6>1, FS_RemoveElement
          <6>. QED
            BY <5>1, <6>1, <6>2
        <5>2. CASE scope # mine.scope
          <6>1. Ready(scope)' = Ready(scope)
            BY <3>1, <3>3, <3>4, <5>2 DEF Ready
          <6>. QED
            BY <4>3, <5>2, <6>1
        <5>. QED
          BY <5>1, <5>2
      <4>6. Cardinality(Approved(scope)') = Cardinality(Approved(scope))
            /\ Cardinality(Launched(scope)') = Cardinality(Launched(scope))
        BY <4>2
      <4>7. Cardinality(Launched(scope)') + Cardinality(Ready(scope)') + Hand(scope)'
              <= Cardinality(Approved(scope)')
        BY <4>1, <4>3, <4>4, <4>5, <4>6 DEF PaidFor
      <4>. QED
        BY <4>7 DEF PaidFor
    <3>6. IsFiniteSet(approvals') /\ IsFiniteSet(installs')
      BY <1>2, <2>2 DEF InstallsArePaidFor
    <3>. QED
      BY <3>5, <3>6 DEF InstallsArePaidFor
  <2>. QED
    BY <2>2, <2>3, <2>4
<1>12. CASE WaitTimesOut
  <2>1. approvals' = approvals /\ ~(waiter'.at = "answered" /\ waiter'.outcome = "Authorized")
    BY <1>12 DEF WaitTimesOut, Answer
  <2>2. \/ registry' = registry
        \/ waiter.request \in registry.pending /\ registry' = Resolve(waiter.request, "TimedOut")
    BY <1>12 DEF WaitTimesOut
  <2>3. registry'.ready \subseteq registry.ready
    BY <1>3, <2>2, ResolvedRegistry DEF Allows
  <2>. QED
    BY <1>6, <2>1, <2>3
<1>. QED
  BY <1>7, <1>8, <1>10, <1>11, <1>12 DEF WaitStep

\* The installation is launched with the authorization that is in hand.
LEMMA LaunchPays ==
  ASSUME CoreInv, InstallsArePaidFor, UNCHANGED confirmVars,
         call # NoCall, call.at = <<"execute", "tools">>,
         call'.at = <<"launched">>,
         installs' = installs \cup
           {[number |-> made, scope |-> [session |-> context.session, target |-> t]] :
              t \in {t \in {call.call.target} : NetworkEnabled(call.call.command)}}
  PROVE  InstallsArePaidFor'
<1>. DEFINE entry == [number |-> made, scope |-> CallScope]
<1>1. registry.ready \subseteq approvals /\ registry' = registry /\ approvals' = approvals
  BY DEF CoreInv, ConfirmInv, AllowedByOwner, confirmVars
<1>2. ~InHand'
  BY StepNames DEF InHand, Phases, Checks
<1>3. call.call.command # "PackageInstall" => installs' = installs
  BY DEF NetworkEnabled
<1>4. call.call.command = "PackageInstall" => installs' = installs \cup {entry} /\ InHand
  BY DEF NetworkEnabled, CallScope, InHand, Checks
<1>5. CASE call.call.command # "PackageInstall"
  BY <1>1, <1>2, <1>3, <1>5, StaysPaidFor
<1>6. CASE call.call.command = "PackageInstall"
  <2>1. entry.scope = CallScope
    OBVIOUS
  <2>. HIDE DEF entry
  <2>2. IsFiniteSet(approvals') /\ IsFiniteSet(installs')
    BY <1>1, <1>4, <1>6, FS_AddElement DEF InstallsArePaidFor
  <2>3. ASSUME NEW scope \in Scopes, ~ForSession(scope)'
        PROVE  PaidFor(scope)'
    <3>1. PaidFor(scope)
      BY <1>1, <2>3 DEF ForSession, Approved, InstallsArePaidFor
    <3>2. Approved(scope)' = Approved(scope) /\ Ready(scope)' = Ready(scope) /\ Hand(scope)' = 0
      BY <1>1, <1>2 DEF Approved, Ready, Hand
    <3>3. /\ IsFiniteSet(Launched(scope)) /\ Cardinality(Launched(scope)) \in Nat
          /\ Cardinality(Ready(scope)) \in Nat /\ Cardinality(Approved(scope)) \in Nat
      BY <1>1, Counted DEF InstallsArePaidFor
    <3>4. /\ Hand(scope) = IF scope = CallScope THEN 1 ELSE 0
          /\ Launched(scope)' = IF scope = CallScope THEN Launched(scope) \cup {entry}
                                                     ELSE Launched(scope)
      BY <1>4, <1>6, <2>1 DEF Hand, Launched
    <3>5. Cardinality(Launched(scope)') <= Cardinality(Launched(scope)) + Hand(scope)
          /\ Cardinality(Launched(scope)') \in Nat
      <4>1. /\ Cardinality(Launched(scope) \cup {entry}) <= Cardinality(Launched(scope)) + 1
            /\ Cardinality(Launched(scope) \cup {entry}) \in Nat
        <5>1. Cardinality(Launched(scope) \cup {entry})
                = IF entry \in Launched(scope) THEN Cardinality(Launched(scope))
                                               ELSE Cardinality(Launched(scope)) + 1
          BY <3>3, FS_AddElement
        <5>. QED
          BY <3>3, <5>1
      <4>2. CASE scope = CallScope
        <5>1. Launched(scope)' = Launched(scope) \cup {entry} /\ Hand(scope) = 1
          BY <3>4, <4>2
        <5>. QED
          BY <4>1, <5>1
      <4>3. CASE scope # CallScope
        <5>1. Cardinality(Launched(scope)') = Cardinality(Launched(scope)) /\ Hand(scope) = 0
          BY <3>4, <4>3
        <5>. QED
          BY <3>3, <5>1
      <4>. QED
        BY <4>2, <4>3
    <3>6. Hand(scope) \in {0, 1}
      BY <3>4
    <3>7. Cardinality(Ready(scope)') = Cardinality(Ready(scope))
          /\ Cardinality(Approved(scope)') = Cardinality(Approved(scope))
      BY <3>2
    <3>8. Cardinality(Launched(scope)') + Cardinality(Ready(scope)') + Hand(scope)'
            <= Cardinality(Approved(scope)')
      BY <3>1, <3>2, <3>3, <3>5, <3>6, <3>7 DEF PaidFor
    <3>. QED
      BY <3>8 DEF PaidFor
  <2>. QED
    BY <2>2, <2>3 DEF InstallsArePaidFor
<1>. QED
  BY <1>5, <1>6

\* The other steps of the call only carry an authorization on.
LEMMA CallPays ==
  ASSUME CoreInv, AsksForTheCall, InstallsArePaidFor, CallRuns
  PROVE  InstallsArePaidFor'
<1>1. turn.at = "call" /\ CallStep
  BY DEF CallRuns, At
<1>2. /\ call # NoCall /\ call.at \in CallSteps \ {<<"none">>}
      /\ registry.ready \subseteq approvals
  BY <1>1, CallShapes DEF CoreInv, CallsAreOfTheTurn, ConfirmInv, AllowedByOwner
<1>3. ASSUME approvals' = approvals, installs' = installs, registry' = registry,
             InHand' => InHand /\ CallScope' = CallScope
      PROVE  InstallsArePaidFor'
  BY <1>2, <1>3, StaysPaidFor
<1>4. ASSUME NEW at \in CallSteps \ {<<"none">>}, MoveCall(at), UNCHANGED context
      PROVE  call'.at = at /\ call'.call = call.call /\ call' # NoCall /\ CallScope' = CallScope
  BY <1>2, <1>4, CallMoves DEF CallScope, CoreInv
<1>5. ASSUME NEW phase \in Phases, CheckFolder(phase) \/ CheckSession(phase), UNCHANGED confirmVars
      PROVE  InstallsArePaidFor'
  <2>1. UNCHANGED <<context, made, installs>>
    BY <1>5 DEF CheckFolder, CheckSession
  <2>2. PICK at \in {<<"answer">>, <<phase, "session">>, <<phase, "tools">>} :
          /\ MoveCall(at)
          /\ at = <<phase, "session">> => call.at = <<phase, "folder">>
          /\ at = <<phase, "tools">> => call.at = <<phase, "session">> /\ StillActive(context.session)
    BY <1>5, StepNames DEF CheckFolder, CheckSession, AnswerCall, Checks
  <2>3. at \in CallSteps \ {<<"none">>}
    BY StepNames DEF Checks
  <2>4. call'.at = at /\ call'.call = call.call /\ call' # NoCall /\ CallScope' = CallScope
    BY <1>4, <2>1, <2>2, <2>3
  <2>5. \A session : StillActive(session)' <=> StillActive(session)
    BY <1>5 DEF StillActive, confirmVars
  <2>6. InHand' => InHand
    <3>1. CASE phase = "prepare" \/ at = <<"answer">>
      BY <2>2, <2>4, <3>1, StepNames DEF InHand, Phases, Checks
    <3>2. CASE phase \in {"again", "execute"} /\ at # <<"answer">>
      BY <1>2, <2>1, <2>2, <2>4, <2>5, <3>2, StepNames DEF InHand, Phases, Checks
    <3>. QED
      BY <3>1, <3>2 DEF Phases
  <2>. QED
    BY <1>3, <1>5, <2>1, <2>4, <2>6 DEF confirmVars
<1>6. ASSUME NEW phase \in Phases, CheckTools(phase), UNCHANGED confirmVars
      PROVE  InstallsArePaidFor'
  <2>1. call.at = <<phase, "tools">> /\ UNCHANGED <<context, made>>
    BY <1>6, ToolsChecked
  <2>2. waiter = NoWaiter /\ waiter' = waiter
    BY <1>6, <2>1, StepNames DEF CoreInv, CallsAreOfTheTurn, confirmVars, Checks
  <2>3. ASSUME installs' = installs, NEW at \in {<<"answer">>, <<"ask">>}, MoveCall(at)
        PROVE  InstallsArePaidFor'
    <3>1. call'.at = at
      BY <1>4, <2>1, <2>3, StepNames
    <3>2. ~InHand'
      BY <2>2, <3>1, StepNames DEF InHand, NoWaiter, Phases, Checks
    <3>. QED
      BY <1>3, <1>6, <2>3, <3>2 DEF confirmVars
  <2>4. ASSUME phase = "prepare", installs' = installs, MoveCall(<<"execute", "folder">>),
               Decodes(Encode(call.call, context.access)),
               Classify(call.call, context.access) # "confirm"
        PROVE  InstallsArePaidFor'
    <3>1. call.call.command # "PackageInstall"
      BY <2>4 DEF Decodes, Encode, Classify, BaselineCommands, GitCommands, NpmCommands, CargoCommands
    <3>2. call'.call = call.call
      BY <1>4, <2>1, <2>4, StepNames DEF Phases, Checks
    <3>3. ~InHand'
      BY <3>1, <3>2 DEF InHand
    <3>. QED
      BY <1>3, <1>6, <2>4, <3>3 DEF confirmVars
  <2>5. ASSUME phase = "again", installs' = installs, MoveCall(<<"execute", "folder">>)
        PROVE  InstallsArePaidFor'
    <3>1. call'.call = call.call /\ call' # NoCall /\ CallScope' = CallScope
      BY <1>4, <2>1, <2>5, StepNames DEF Phases, Checks
    <3>2. InHand' => InHand
      BY <1>2, <2>1, <2>5, <3>1 DEF InHand
    <3>. QED
      BY <1>3, <1>6, <2>5, <3>1, <3>2 DEF confirmVars
  <2>6. ASSUME phase = "execute", MoveCall(<<"launched">>),
               installs' = installs \cup
                 {[number |-> made, scope |-> [session |-> context.session, target |-> t]] :
                    t \in {t \in {call.call.target} : NetworkEnabled(call.call.command)}}
        PROVE  InstallsArePaidFor'
    <3>1. call'.at = <<"launched">>
      BY <1>4, <2>1, <2>6, StepNames
    <3>. QED
      BY <1>2, <1>6, <2>1, <2>6, <3>1, LaunchPays
  <2>. QED
    BY <1>6, <2>3, <2>4, <2>5, <2>6, ToolsChecked DEF AnswerCall
<1>7. CASE WaitStep /\ UNCHANGED <<launchVars, executionVars>>
  <2>1. call.at = <<"ask">>
    BY <1>7 DEF WaitStep, WaitLooks, WaitChecksFolder, WaitRegisters, WaitTakes, WaitTimesOut,
       Waiting, NoWaiter, CoreInv, CallsAreOfTheTurn
  <2>. QED
    BY <1>7, <2>1, AnswerPays
<1>8. CASE AskOwner
  <2>1. /\ call.at = <<"ask">> /\ waiter'.at = "look" /\ UNCHANGED executionVars
        /\ UNCHANGED <<registry, approvals>>
    BY <1>8 DEF AskOwner, Ask
  <2>2. ~InHand'
    BY <2>1, StepNames DEF InHand, executionVars, Phases, Checks
  <2>. QED
    BY <1>3, <2>1, <2>2 DEF executionVars
<1>9. CASE OwnerAnswered
  <2>1. /\ call.at = <<"ask">> /\ waiter.at = "answered" /\ UNCHANGED <<context, made, installs>>
        /\ UNCHANGED <<sessions, registry, approvals>>
        /\ \/ waiter.outcome = "Authorized" /\ MoveCall(<<"again", "folder">>)
           \/ MoveCall(<<"answer">>)
    BY <1>9 DEF OwnerAnswered, AnswerCall
  <2>2. CASE waiter.outcome = "Authorized" /\ MoveCall(<<"again", "folder">>)
    <3>1. /\ call'.at = <<"again", "folder">> /\ call'.call = call.call
          /\ CallScope' = CallScope
      BY <1>4, <2>1, <2>2, StepNames DEF Phases, Checks
    <3>2. InHand' => InHand
      BY <1>2, <2>1, <2>2, <3>1, StepNames DEF InHand, StillActive, Phases, Checks
    <3>. QED
      BY <1>3, <2>1, <3>1, <3>2
  <2>3. CASE MoveCall(<<"answer">>)
    <3>1. call'.at = <<"answer">>
      BY <1>4, <2>1, <2>3, StepNames
    <3>2. ~InHand'
      BY <3>1, StepNames DEF InHand, Phases, Checks
    <3>. QED
      BY <1>3, <2>1, <3>2
  <2>. QED
    BY <2>1, <2>2, <2>3
<1>10. CASE HostStep /\ UNCHANGED <<confirmVars, executionVars>>
  BY <1>3, <1>10 DEF InHand, CallScope, StillActive, confirmVars, executionVars
<1>11. CASE LaunchReturned /\ UNCHANGED confirmVars
  <2>1. call'.at = <<"answer">> /\ installs' = installs
    BY <1>4, <1>11, StepNames DEF LaunchReturned, AnswerCall
  <2>2. ~InHand'
    BY <2>1, StepNames DEF InHand, Phases, Checks
  <2>. QED
    BY <1>3, <1>11, <2>1, <2>2 DEF confirmVars
<1>. QED
  BY <1>1, <1>5, <1>6, <1>7, <1>8, <1>9, <1>10, <1>11 DEF CallStep, Phases

LEMMA InstallsSteps ==
  ASSUME CoreInv, AsksForTheCall, InstallsArePaidFor, [Next]_vars
  PROVE  InstallsArePaidFor'
<1>1. registry.ready \subseteq approvals
  BY DEF CoreInv, ConfirmInv, AllowedByOwner
<1>2. ASSUME UNCHANGED confirmVars, installs' = installs, InHand' => InHand /\ CallScope' = CallScope
      PROVE  InstallsArePaidFor'
  BY <1>1, <1>2, StaysPaidFor DEF confirmVars
<1>3. ASSUME UNCHANGED <<confirmVars, executionVars>>
      PROVE  InstallsArePaidFor'
  BY <1>2, <1>3 DEF InHand, CallScope, StillActive, confirmVars, executionVars
<1>4. CASE CallRuns
  BY <1>4, CallPays
<1>5. CASE AnswersCall
  BY <1>2, <1>5, AnswersCallKeeps DEF InHand
<1>6. CASE TurnStep /\ ~CallRuns /\ ~AnswersCall
  BY <1>2, <1>6, TurnMoves DEF TurnStep, InHand
<1>7. CASE CodexCallsTool
  BY <1>2, <1>7, ToolCallKeeps, StepNames DEF InHand, Phases, Checks
<1>8. CASE CommandProcesses \/ Cancel \/ CodexAccepts \/ ProviderRuns \/ UNCHANGED vars
  BY <1>3, <1>8, BesideTheTurn DEF CommandProcesses, vars
<1>9. ASSUME NEW room \in Rooms, NEW access \in Accesses,
             Begin("codex", room, access) \/ Begin("cli", room, "ReadOnly")
      PROVE  InstallsArePaidFor'
  BY <1>3, <1>9 DEF Begin
<1>10. CASE OwnerStep /\ UNCHANGED <<launchVars, executionVars, provider, turnVars>>
  <2>1. CASE \E room \in Rooms, decision \in Decisions : ResolveForRoom(room, decision)
    BY <1>10, <2>1, DecisionPays DEF CoreInv
  <2>2. CASE ~\E room \in Rooms, decision \in Decisions : ResolveForRoom(room, decision)
    <3>1. approvals' = approvals
      BY <1>10, <2>2 DEF OwnerStep, ChangeFolder, Activate, Deactivate, EnsureRoomSession,
         BeginRoomSession
    <3>2. registry \in Registries
      BY DEF CoreInv, ConfirmInv, ConfirmTypeOK
    <3>3. registry'.ready \subseteq registry.ready
      <4>1. registry' = registry \/ \E session : registry' = Ended(session)
        BY <1>10, <2>2 DEF OwnerStep, ChangeFolder, Activate, Deactivate, EnsureRoomSession,
           BeginRoomSession, EndRoomSession, EndSession
      <4>. QED
        BY <3>2, <4>1, EndedRegistry
    <3>4. waiter' = waiter /\ call' = call /\ context' = context /\ installs' = installs
      BY <1>10, OwnerStepFrame DEF executionVars
    <3>5. call # NoCall /\ StillActive(context.session)' => StillActive(context.session)
      <4>1. call # NoCall => context.session \in Sessions /\ context.session.id <= begun
        BY CallShapes DEF CoreInv, CallsAreOfTheTurn
      <4>. QED
        BY <1>10, <3>4, <4>1, SessionsDoNotReturn DEF CoreInv, StillActive
    <3>6. InHand' => InHand /\ CallScope' = CallScope
      BY <3>4, <3>5 DEF InHand, CallScope
    <3>. QED
      BY <1>1, <3>1, <3>3, <3>4, <3>6, StaysPaidFor
  <2>. QED
    BY <2>1, <2>2
<1>11. CASE \E room \in Rooms : Begin("cli", room, "ReadOnly")
  BY <1>9, <1>11 DEF Accesses
<1>. QED
  BY <1>4, <1>5, <1>6, <1>7, <1>8, <1>9, <1>10, <1>11 DEF Next, Environment

LEMMA LaunchesSteps ==
  ASSUME CoreInv, LaunchesClean, [Next]_vars
  PROVE  LaunchesClean'
<1>1. LaunchTypeOK
  BY DEF CoreInv, TypeOK
<1>2. ASSUME UNCHANGED launchVars
      PROVE  LaunchesClean'
  BY <1>2 DEF launchVars, LaunchesClean
<1>3. CASE CallRuns
  <2>1. ASSUME HostStep
        PROVE  LaunchesClean'
    BY <1>1, <2>1, LaunchCleans
  <2>2. ASSUME NEW phase \in Phases, CheckTools(phase), UNCHANGED confirmVars
        PROVE  LaunchesClean'
    <3>1. UNCHANGED launchVars \/ Launch(Encode(call.call, context.access))
      BY <2>2, ToolsChecked
    <3>2. call.at # <<"launched">>
      BY <2>2, ToolsChecked, StepNames DEF Checks
    <3>3. Fresh
      BY <3>2 DEF CoreInv, CallsAreOfTheTurn
    <3>4. CASE Launch(Encode(call.call, context.access))
      BY <3>3, <3>4 DEF Launch, LaunchesClean, Fresh
    <3>. QED
      BY <1>2, <3>1, <3>4
  <2>3. ASSUME LaunchReturned
        PROVE  LaunchesClean'
    BY <2>3 DEF LaunchReturned, Forget, LaunchesClean
  <2>. QED
    BY <1>2, <1>3, <2>1, <2>2, <2>3 DEF CallRuns, CallStep, Phases
<1>4. CASE AnswersCall
  BY <1>2, <1>4, AnswersCallKeeps
<1>5. CASE TurnStep /\ ~CallRuns /\ ~AnswersCall
  BY <1>2, <1>5, TurnMoves DEF TurnStep
<1>6. CASE CodexCallsTool
  BY <1>2, <1>6, ToolCallKeeps
<1>7. CASE CommandProcesses
  BY <1>1, <1>7, LaunchCleans DEF CommandProcesses
<1>8. CASE Environment \/ UNCHANGED vars
  BY <1>2, <1>8, BesideTheTurn DEF Environment, vars
<1>9. CASE \E at \in {"codex", "cli"}, room \in Rooms, access \in Accesses : Begin(at, room, access)
  BY <1>2, <1>9 DEF Begin
<1>. QED
  BY <1>3, <1>4, <1>5, <1>6, <1>7, <1>8, <1>9 DEF Next, Accesses

-----------------------------------------------------------------------------
(* The theorems.                                                            *)

\* Every reachable state of the turns satisfies the invariant
\* (codex_app_server.rs, command_execution_product.rs, command_confirmations.rs).
THEOREM TurnInvariant == Spec => []TurnInv
<1>1. Init => TurnInv
  <2>. SUFFICES ASSUME Init PROVE TurnInv
    OBVIOUS
  <2>1. CoreInv
    BY CoreStarts
  <2>2. /\ waiter = NoWaiter /\ call = NoCall /\ launch = "idle" /\ outcome = "none" /\ left = {}
        /\ process = [p \in Processes |-> "none"]
        /\ approvals = {} /\ installs = {} /\ registry.ready = {}
    BY DEF Init, ConfirmInit, ExecutionInit, LaunchInit
  <2>3. AsksForTheCall /\ LaunchesClean
    BY <2>2 DEF AsksForTheCall, LaunchesClean, NoWaiter
  <2>4. IsFiniteSet({}) /\ Cardinality({}) = 0
    BY FS_EmptySet
  <2>5. \A scope : /\ Approved(scope) = {} /\ Launched(scope) = {} /\ Ready(scope) = {}
                   /\ Hand(scope) = 0
    BY <2>2 DEF Approved, Launched, Ready, Hand, InHand
  <2>6. InstallsArePaidFor
    BY <2>2, <2>4, <2>5 DEF InstallsArePaidFor, PaidFor
  <2>. QED
    BY <2>1, <2>3, <2>6 DEF TurnInv
<1>2. TurnInv /\ [Next]_vars => TurnInv'
  BY CoreSteps, AsksForTheCallSteps, InstallsSteps, LaunchesSteps DEF TurnInv
<1>. QED
  BY <1>1, <1>2, PTL DEF Spec

\* Type correctness of the turns, the calls, the launches and the confirmations.
THEOREM TurnTypeCorrect == Spec => []TypeOK
<1>1. TurnInv => TypeOK
  BY DEF TurnInv, CoreInv
<1>. QED
  BY <1>1, TurnInvariant, PTL

\* A turn that is reported as not started is one that Codex does not work on
\* (codex_app_server.rs, the errors before turn/start).
THEOREM PreflightIsHonest == Spec => []NotStartedIsTrue
<1>1. TurnInv => NotStartedIsTrue
  BY DEF TurnInv, CoreInv
<1>. QED
  BY <1>1, TurnInvariant, PTL

\* The registry of confirmations holds nothing of a session that is over, whatever
\* the owner does between the two locks of the waiter (command_confirmations.rs).
THEOREM RegistryFollowsSessions == Spec => []RegistryIsOfActiveSessions
<1>1. TurnInv => RegistryIsOfActiveSessions
  <2>. SUFFICES ASSUME ConfirmInv
                PROVE  RegistryIsOfActiveSessions
    BY DEF TurnInv, CoreInv
  <2>1. \A s : s.room \in Rooms /\ StillActive(s) => s \in {sessions[r] : r \in Rooms}
    BY DEF StillActive
  <2>2. /\ \A e \in registry.pending \cup registry.ready : e.scope.session.room \in Rooms
        /\ \A e \in registry.terminal : e.session.room \in Rooms
        /\ \A scope \in registry.grants : scope.session.room \in Rooms
    BY DEF ConfirmInv, ConfirmTypeOK, Registries, Asked, Allowed, Scopes, Sessions
  <2>. QED
    BY <2>1, <2>2 DEF ConfirmInv, RegistryIsActive, RegistryIsOfActiveSessions
<1>. QED
  BY <1>1, TurnInvariant, PTL

\* What is launched with the network was allowed by the owner for that session and
\* package, and a decision to allow it once pays for one launch
\* (command_execution_product.rs, confirmation.rs).
THEOREM InstallsAreAllowed == Spec => []InstallsWereAllowed
<1>1. TurnInv => InstallsWereAllowed
  <2>. SUFFICES ASSUME TurnInv, NEW install \in installs
                PROVE  \/ ForSession(install.scope)
                       \/ Cardinality(Launched(install.scope)) <= Cardinality(Approved(install.scope))
    BY DEF InstallsWereAllowed, ForSession, Launched, Approved
  <2>1. install.scope \in Scopes
    BY DEF TurnInv, CoreInv, TypeOK, ExecutionTypeOK
  <2>2. registry.ready \subseteq approvals /\ InstallsArePaidFor
    BY DEF TurnInv, CoreInv, ConfirmInv, AllowedByOwner
  <2>3. /\ Cardinality(Launched(install.scope)) \in Nat /\ Cardinality(Ready(install.scope)) \in Nat
        /\ Cardinality(Approved(install.scope)) \in Nat /\ Hand(install.scope) \in {0, 1}
    BY <2>2, Counted DEF InstallsArePaidFor
  <2>. QED
    BY <2>1, <2>2, <2>3 DEF InstallsArePaidFor, PaidFor
<1>. QED
  BY <1>1, TurnInvariant, PTL

\* A launch that has returned without an error of its isolation leaves nothing
\* behind but a helper that is not in the Job and could not be terminated
\* (moe-windows-command-launcher windows.rs).
THEOREM LaunchesLeaveNothing == Spec => []NothingOutlivesALaunch
<1>1. TurnInv => NothingOutlivesALaunch
  <2>. SUFFICES ASSUME LaunchesClean, LaunchTypeOK
                PROVE  NothingOutlivesALaunch
    BY DEF TurnInv, CoreInv, TypeOK
  <2>. QED
    BY DEF LaunchesClean, LaunchTypeOK, NothingOutlivesALaunch, ProcessStates
<1>. QED
  BY <1>1, TurnInvariant, PTL

\* Once the owner was told that a command is allowed the waiter goes on with it,
\* also when the deadline has passed, unless the session was ended or the registry
\* is full (command_confirmations.rs, wait_for_authorization_inner).
THEOREM DecisionsHold == Spec => AcknowledgedDecisionHolds
<1>1. ASSUME TurnInv, [Next]_vars, Waiting, waiter'.at = "answered",
             \E a \in approvals : a.id = waiter.request.id
      PROVE  \/ waiter'.outcome = "Authorized"
             \/ resolutions[waiter.request.id] = "RoomSessionEnded"
             \/ TerminalFull
  <2>1. CoreInv /\ WaiterIsTold
    BY <1>1 DEF TurnInv, CoreInv, ConfirmInv
  <2>. DEFINE mine == waiter.request
  <2>2. /\ resolutions[mine.id] \in {"AuthorizationReady", "RoomSessionEnded"}
        /\ resolutions[mine.id] = "AuthorizationReady" => \E e \in registry.ready : e.id = mine.id
    BY <1>1, <2>1 DEF WaiterIsTold
  <2>3. WaitTakes \/ WaitTimesOut
    BY <1>1, <2>1, WhileAsking DEF Waiting, NoWaiter, AskOwner, OwnerAnswered, WaitStep, WaitLooks,
       WaitChecksFolder, WaitRegisters
  <2>4. CASE WaitTakes
    <3>1. CASE resolutions[mine.id] = "AuthorizationReady" /\ ~TerminalFull
      BY <2>2, <2>4, <3>1 DEF WaitTakes, Answer
    <3>. QED
      BY <2>2, <3>1
  <2>5. ~WaitTimesOut
    BY <2>2 DEF WaitTimesOut
  <2>. QED
    BY <2>3, <2>4, <2>5
<1>2. TurnInv /\ [Next]_vars
        => [(Waiting /\ waiter'.at = "answered" /\ \E a \in approvals : a.id = waiter.request.id)
              => \/ waiter'.outcome = "Authorized"
                 \/ resolutions[waiter.request.id] = "RoomSessionEnded"
                 \/ TerminalFull]_vars
  BY <1>1
<1>. QED
  BY <1>2, TurnInvariant, PTL DEF Spec, AcknowledgedDecisionHolds
================================================================================
