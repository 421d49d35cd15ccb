------------------------------ MODULE AiDispatch ------------------------------
(***************************************************************************)
(* The dispatcher (ai_dispatch.rs): concurrent calls that each ask one AI    *)
(* participant to answer one saved Room message.  A call looks for the reply  *)
(* under its stable ID, reserves the dispatch in the ledger, takes the turn   *)
(* gate of its provider, prepares the request, records ExternalStarted, runs  *)
(* the external turn, appends the reply to the Room and completes the record. *)
(* dispatch_codex, dispatch_grok, dispatch_gemini and dispatch_claude share   *)
(* this flow; they differ in the adapter errors they take for a confirmed     *)
(* failure.                                                                 *)
(*                                                                         *)
(* Room appends are atomic here: append_message and find_message share the    *)
(* Room's transaction guard, and the Room file is a store that keeps a lone   *)
(* backup, which implements DurableCell (see SnapshotStore).                 *)
(***************************************************************************)
EXTENDS AiDispatchLedger

CONSTANTS Messages,    \* saved human Room messages
          Recipients,  \* AI participants, named as in the code
          Calls,       \* concurrent dispatch commands of the frontend
          NoId,        \* the target of a call nobody has made yet
          MaxSent      \* bound: external turns counted per dispatch

ASSUME DispatchConstants ==
  /\ Ids \subseteq Messages \X Recipients
  /\ Recipients \subseteq {"codex", "grok", "gemini", "claude"}
  /\ NoId \notin Ids
  /\ MaxSent \in Nat

VARIABLES pc,        \* how far each call has come
          target,    \* the dispatch ID each call is about
          result,    \* what the last command of each call returned
          replies,   \* dispatches whose stable reply is in the Room
          exported,  \* the same in the last Room backup, which can be restored
          provider,  \* observer: what the provider made of each dispatch
          sent       \* observer: external turns delivered per dispatch

callVars == <<pc, target, result>>
roomVars == <<replies, exported>>
providerVars == <<provider, sent>>
vars == <<ledgerVars, callVars, roomVars, providerVars>>

Steps == {"idle",       \* next: Call
          "find",       \* next: FindDuplicate, FindMissing, FindFails
          "begin",      \* next: BeginReserved and the other answers of begin
          "gate",       \* next: AcquireGate
          "preflight",  \* next: PreflightPasses, PreflightFails
          "start",      \* next: StartExternal, StartFails
          "failing",    \* next: FinishFailed
          "turn",       \* next: SendTurn, RejectLocally
          "sent",       \* next: TurnReplies, TurnRefused, TurnUnknown
          "refusing",   \* next: FinishRefused
          "append",     \* next: AppendReply, AppendFails
          "complete"}   \* next: Complete

\* The command results the callers tell apart.  "Completed" also stands for the
\* duplicate append of a reply that a restore brought back during its turn.
Results == {"None", "Completed", "Duplicate", "Failed", "Unknown", "Unavailable",
            "InProgress", "PreviouslyFailed", "OutcomeUnknown", "ReplyMissing"}

\* A call that owns its ledger record and the turn gate of its provider.
GateSteps == {"preflight", "start", "failing", "turn", "sent", "refusing",
              "append", "complete"}
OwnerSteps == GateSteps \cup {"gate"}

Recipient(id) == id[2]

\* Only Codex and Grok work in the Room's workspace: a missing workspace or
\* sandbox is reported before anything is delivered.  Only Codex also reports
\* that its turn has definitely failed.
UsesWorkspace == {"codex", "grok"}
ReportsConfirmed == {"codex"}

TypeOK ==
  /\ LedgerTypeOK
  /\ pc \in [Calls -> Steps]
  /\ target \in [Calls -> Ids \cup {NoId}]
  /\ result \in [Calls -> Results]
  /\ replies \subseteq Ids
  /\ exported \subseteq Ids
  /\ provider \in [Ids -> {"never", "running", "replied", "refused"}]
  /\ sent \in [Ids -> Nat]

Init ==
  /\ LedgerInit
  /\ pc = [c \in Calls |-> "idle"]
  /\ target = [c \in Calls |-> NoId]
  /\ result = [c \in Calls |-> "None"]
  /\ replies = {}
  /\ exported = {}
  /\ provider = [id \in Ids |-> "never"]
  /\ sent = [id \in Ids |-> 0]

Goto(c, from, to) ==
  /\ pc[c] = from
  /\ pc' = [pc EXCEPT ![c] = to]
  /\ UNCHANGED <<target, result>>

\* The command returns: the gate and the cancellation registration drop.
Finish(c, from, answer) ==
  /\ pc[c] = from
  /\ pc' = [pc EXCEPT ![c] = "idle"]
  /\ result' = [result EXCEPT ![c] = answer]
  /\ UNCHANGED target

-----------------------------------------------------------------------------
(* The call looks for the reply and asks the ledger.                        *)

Call(c, id) ==
  /\ pc[c] = "idle"
  /\ pc' = [pc EXCEPT ![c] = "find"]
  /\ target' = [target EXCEPT ![c] = id]
  /\ result' = [result EXCEPT ![c] = "None"]
  /\ UNCHANGED <<ledgerVars, roomVars, providerVars>>

FindDuplicate(c) ==
  /\ Finish(c, "find", "Duplicate")
  /\ target[c] \in replies
  /\ UNCHANGED <<ledgerVars, roomVars, providerVars>>

FindMissing(c) ==
  /\ Goto(c, "find", "begin")
  /\ target[c] \notin replies
  /\ UNCHANGED <<ledgerVars, roomVars, providerVars>>

\* The Room cannot be read.
FindFails(c) ==
  /\ Finish(c, "find", "Unavailable")
  /\ UNCHANGED <<ledgerVars, roomVars, providerVars>>

BeginReserved(c) ==
  /\ Goto(c, "begin", "gate")
  /\ Reserve(target[c])
  /\ UNCHANGED <<roomVars, providerVars>>

\* There is no clock to stamp the record with, or begin() fails.
BeginFails(c) ==
  /\ Finish(c, "begin", "Unavailable")
  /\ UNCHANGED ledgerVars \/ ReserveFails(target[c])
  /\ UNCHANGED <<roomVars, providerVars>>

BeginActive(c) ==
  /\ Finish(c, "begin", "InProgress")
  /\ IsActive(target[c])
  /\ UNCHANGED <<ledgerVars, roomVars, providerVars>>

\* Fault: the ledger's state is handed to the frontend as it is.
AnswerIsState(state) == state

\* Fault: a turn that was started counts as failed once nobody owns it.
AnswerFailedUnlessCompleted(state) ==
  IF state = "Completed" THEN "ReplyMissing" ELSE "PreviouslyFailed"

AnswerOfRecord(state) ==
  CASE state \in {"Prepared", "Failed"} -> "PreviouslyFailed"
    [] state = "ExternalStarted" -> "OutcomeUnknown"
    [] OTHER -> "ReplyMissing"

BeginExisting(c) ==
  /\ Finish(c, "begin", AnswerOfRecord(records[target[c]]))
  /\ IsExisting(target[c])
  /\ UNCHANGED <<ledgerVars, roomVars, providerVars>>

-----------------------------------------------------------------------------
(* One turn per provider at a time; everything up to StartExternal is local. *)

\* Fault: a call that waits for the gate already counts as its holder.
GateFreeOfWaiters(recipient) ==
  \A c \in Calls : pc[c] \in OwnerSteps => Recipient(target[c]) # recipient

GateFree(recipient) ==
  \A c \in Calls : pc[c] \in GateSteps => Recipient(target[c]) # recipient

AcquireGate(c) ==
  /\ Goto(c, "gate", "preflight")
  /\ GateFree(Recipient(target[c]))
  /\ UNCHANGED <<ledgerVars, roomVars, providerVars>>

PreflightPasses(c) ==
  /\ Goto(c, "preflight", "start")
  /\ UNCHANGED <<ledgerVars, roomVars, providerVars>>

PreflightFails(c) ==
  /\ Goto(c, "preflight", "failing")
  /\ UNCHANGED <<ledgerVars, roomVars, providerVars>>

\* Fault: the turn starts before the ledger knows of it.
StartUnrecorded(c) ==
  /\ Goto(c, "start", "turn")
  /\ UNCHANGED <<ledgerVars, roomVars, providerVars>>

StartExternal(c) ==
  /\ Goto(c, "start", "turn")
  /\ MarkExternalStarted(target[c])
  /\ UNCHANGED <<roomVars, providerVars>>

StartFails(c) ==
  /\ Goto(c, "start", "failing")
  /\ TransitionFails(target[c], "Prepared")
  /\ UNCHANGED <<roomVars, providerVars>>

FinishFailed(c) ==
  /\ Finish(c, "failing", "Failed")
  /\ MarkFailed(target[c])
  /\ UNCHANGED <<roomVars, providerVars>>

\* The failure could not be recorded: a failed workspace check is reported as
\* Unknown, the other local failures as an error.
FinishFailedUnrecorded(c) ==
  /\ \E answer \in {"Failed", "Unknown"} :
       /\ Finish(c, "failing", answer)
       /\ answer = "Unknown" => Recipient(target[c]) \in UsesWorkspace
  /\ GiveUp(target[c], "Prepared")
  /\ UNCHANGED <<roomVars, providerVars>>

-----------------------------------------------------------------------------
(* run_text_turn: the adapter delivers the turn or finds out that it cannot. *)

SendTurn(c) ==
  /\ Goto(c, "turn", "sent")
  /\ sent[target[c]] < MaxSent
  /\ sent' = [sent EXCEPT ![target[c]] = @ + 1]
  /\ provider' = [provider EXCEPT ![target[c]] = "running"]
  /\ UNCHANGED <<ledgerVars, roomVars>>

RejectLocally(c) ==
  /\ Goto(c, "turn", "refusing")
  /\ Recipient(target[c]) \in UsesWorkspace
  /\ UNCHANGED <<ledgerVars, roomVars, providerVars>>

TurnReplies(c) ==
  /\ Goto(c, "sent", "append")
  /\ provider' = [provider EXCEPT ![target[c]] = "replied"]
  /\ UNCHANGED <<ledgerVars, roomVars, sent>>

TurnRefused(c) ==
  /\ Goto(c, "sent", "refusing")
  /\ Recipient(target[c]) \in ReportsConfirmed
  /\ provider' = [provider EXCEPT ![target[c]] = "refused"]
  /\ UNCHANGED <<ledgerVars, roomVars, sent>>

\* A timeout, a cancellation, a lost process or an unusable answer.
TurnUnknown(c) ==
  /\ Finish(c, "sent", "Unknown")
  /\ FinishUnknown(target[c])
  /\ UNCHANGED <<roomVars, providerVars>>

FinishRefused(c) ==
  /\ Finish(c, "refusing", "Failed")
  /\ MarkExternalPreflightFailed(target[c])
  /\ UNCHANGED <<roomVars, providerVars>>

FinishRefusedUnrecorded(c) ==
  /\ Finish(c, "refusing", "Unknown")
  /\ GiveUp(target[c], "ExternalStarted")
  /\ UNCHANGED <<roomVars, providerVars>>

-----------------------------------------------------------------------------
(* The reply becomes a Room message, then the record completes.             *)

AppendReply(c) ==
  /\ Goto(c, "append", "complete")
  /\ replies' = replies \cup {target[c]}
  /\ UNCHANGED <<ledgerVars, exported, providerVars>>

\* No session, no clock, an invalid draft, or a Room that cannot be saved.
AppendFails(c) ==
  /\ Finish(c, "append", "Unknown")
  /\ FinishUnknown(target[c])
  /\ UNCHANGED <<roomVars, providerVars>>

Complete(c) ==
  /\ Finish(c, "complete", "Completed")
  /\ MarkCompleted(target[c])
  /\ UNCHANGED <<roomVars, providerVars>>

CompleteUnrecorded(c) ==
  /\ Finish(c, "complete", "Completed")
  /\ GiveUp(target[c], "ExternalStarted")
  /\ UNCHANGED <<roomVars, providerVars>>

-----------------------------------------------------------------------------
(* The environment: Room backups, and the end of the process.               *)

ExportRooms ==
  /\ exported' = replies
  /\ UNCHANGED <<ledgerVars, callVars, replies, providerVars>>

\* Restoring a Room backup takes replies out of the Room; the ledger stays.
RestoreRooms ==
  /\ replies' = exported
  /\ UNCHANGED <<ledgerVars, callVars, exported, providerVars>>

\* The process ends over the ledger files pair and starts again.
StopOver(pair) ==
  /\ RestartFrom(pair)
  /\ pc' = [c \in Calls |-> "idle"]
  /\ target' = [c \in Calls |-> NoId]
  /\ result' = [c \in Calls |-> "None"]
  /\ UNCHANGED <<roomVars, providerVars>>

CrashAnywhere == StopOver(disk)

\* What the ledger operation of a call that is about to run one would write.
LedgerWrite(c) ==
  LET id == target[c]
      write(to) == [records EXCEPT ![id] = to]
  IN CASE pc[c] = "start" -> {write("ExternalStarted")}
       [] pc[c] \in {"failing", "refusing"} -> {write("Failed")}
       [] pc[c] = "complete" -> {write("Completed")}
       [] pc[c] = "begin" /\ IsNew(id) ->
            {[pruned EXCEPT ![id] = "Prepared"] :
               pruned \in {p \in Pruned(records) : ~Full(p)}}
       [] OTHER -> {}

CrashInWrite(c) ==
  \E next \in LedgerWrite(c) :
    \E pair \in Cut(KeepLast, disk, next) : StopOver(pair)

-----------------------------------------------------------------------------
CallStep(c) ==
  \/ FindDuplicate(c) \/ FindMissing(c) \/ FindFails(c)
  \/ BeginReserved(c) \/ BeginFails(c) \/ BeginActive(c) \/ BeginExisting(c)
  \/ AcquireGate(c) \/ PreflightPasses(c) \/ PreflightFails(c)
  \/ StartExternal(c) \/ StartFails(c)
  \/ FinishFailed(c) \/ FinishFailedUnrecorded(c)
  \/ SendTurn(c) \/ RejectLocally(c)
  \/ TurnReplies(c) \/ TurnRefused(c) \/ TurnUnknown(c)
  \/ FinishRefused(c) \/ FinishRefusedUnrecorded(c)
  \/ AppendReply(c) \/ AppendFails(c)
  \/ Complete(c) \/ CompleteUnrecorded(c)

Next ==
  \/ \E c \in Calls : CallStep(c) \/ CrashInWrite(c) \/ \E id \in Ids : Call(c, id)
  \/ ExportRooms \/ RestoreRooms \/ CrashAnywhere

Spec == Init /\ [][Next]_vars

\* Every thread that runs a command keeps running, and each adapter bounds its
\* turn by a timeout; no command has to be made and nothing has to crash.
FairSpec == Spec /\ \A c \in Calls : WF_vars(CallStep(c))

-----------------------------------------------------------------------------
(* At most one external turn is ever delivered for a message and recipient,   *)
(* over concurrent calls, failed writes, Room restores and restarts.          *)
AtMostOneTurn == \A id \in Ids : sent[id] <= 1

\* A delivered turn is on record: a restart at this moment would find it as
\* started or decided, so the next call cannot deliver it again.
TurnIsOnRecord ==
  \A id \in Ids :
    sent[id] > 0 =>
      Recovered(disk)[id] \in {"ExternalStarted", "Completed", "Failed"}

\* room_dispatch_unknowns: what is unresolved and has no reply in the Room.
Unknowns == Unresolved \ replies

\* A turn whose reply the user cannot see and whose outcome is open is reported
\* by room_dispatch_unknowns; a failure that is not in doubt is not.
NoTurnForgotten ==
  \A id \in Ids \ replies :
    provider[id] \in {"running", "replied"} => id \in Unknowns

\* "Failed" and "the previous AI turn is confirmed failed" are never said of a
\* turn that the provider may still answer or has answered.
FailureIsConfirmed ==
  \A c \in Calls :
    result[c] \in {"Failed", "PreviouslyFailed"} =>
      provider[target[c]] \in {"never", "refused"}

\* A call past begin owns its record, alone, in the state its next ledger
\* operation expects: no transition() of the dispatcher is ever refused for
\* ownership or state.
ExpectedRecord(step) ==
  IF step \in {"gate", "preflight", "start", "failing"}
  THEN "Prepared" ELSE "ExternalStarted"

CallOwnsRecord ==
  /\ \A c \in Calls : pc[c] \in OwnerSteps =>
       /\ target[c] \in active
       /\ records[target[c]] = ExpectedRecord(pc[c])
  /\ \A c, d \in Calls :
       pc[c] \in OwnerSteps /\ pc[d] \in OwnerSteps /\ c # d => target[c] # target[d]

\* Every owned record has a call that will release it: a dispatch is never left
\* answering "already in progress" with nobody working on it.
OwnershipIsLive ==
  \A id \in active : \E c \in Calls : pc[c] \in OwnerSteps /\ target[c] = id

\* Every command returns, or the process ends under it.
CallsReturn == \A c \in Calls : pc[c] # "idle" ~> pc[c] = "idle"

\* ADR 0027: "A deterministic reply already present in the Room is
\* authoritative": a command says that the reply is missing only when it is.
MissingReplyIsMissing ==
  [][\A c \in Calls :
       pc[c] = "begin" /\ result'[c] = "ReplyMissing" => target[c] \notin replies]_vars
=============================================================================
