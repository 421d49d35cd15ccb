------------------------------ MODULE ProviderTurn ------------------------------
(***************************************************************************)
(* A text turn of a Room run by a provider: the Codex App Server over its         *)
(* stdin and stdout, which may call command tools (codex_app_server.rs), or a     *)
(* command line that answers and exits (claude_fable.rs, grok_cli.rs,             *)
(* gemini_antigravity.rs).  codex_turn_gate lets one Codex turn run at a time.    *)
(*                                                                         *)
(* Codex begins to work on the turn at some moment after turn/start was sent,     *)
(* which the host cannot see; a reply may be late, an error, no JSON or never      *)
(* come.  The owner may press Stop at any time.  Codex's processes are not        *)
(* followed: its turn never waits for them.                                   *)
(***************************************************************************)
EXTENDS CommandExecution, ProviderProcess

CONSTANTS MaxTurns   \* bound: turns

ASSUME TurnConstants == MaxTurns \in Nat

VARIABLES turn,       \* how far the turn has come
          turns,      \* turns begun
          cancelled,  \* the cancellation flag of the turn
          accepted,   \* observer: the provider has begun to work on the turn
          result      \* what the last turn returned

turnVars == <<turn, turns, cancelled, accepted, result>>
vars == <<confirmVars, launchVars, executionVars, provider, turnVars>>

NoTurn == [at |-> "idle"]
Stages == <<"initialize", "profiles", "config", "thread", "turnStart">>
CurrentTurns == {NoTurn}
  \cup [at : {"codex", "cli", "tools", "context", "spawn", "attach"}, room : Rooms,
        workspace : Workspaces \cup {NoWorkspace}, access : Accesses]
  \cup [at : {"await"}, stage : 1..Len(Stages), room : Rooms,
        workspace : Workspaces \cup {NoWorkspace}]
  \cup [at : {"turn", "call"}, room : Rooms]
  \cup [at : {"cliAttach", "poll", "join"}]
Results == {"none", "Answered", "Cancelled", "TimedOut", "InvalidResponse", "Unavailable",
            "Rejected", "ConfirmedFailure", "ClientUpdateRequired", "PreflightFailure",
            "WorkspaceUnavailable", "WorkspaceSandboxUnavailable"}

TypeOK ==
  /\ ConfirmTypeOK /\ LaunchTypeOK /\ ExecutionTypeOK /\ ProviderTypeOK
  /\ turn \in CurrentTurns
  /\ turns \in 0..MaxTurns
  /\ cancelled \in BOOLEAN /\ accepted \in BOOLEAN
  /\ result \in Results

Init ==
  /\ ConfirmInit /\ LaunchInit /\ ExecutionInit /\ ProviderInit
  /\ turn = NoTurn /\ turns = 0
  /\ cancelled = FALSE /\ accepted = FALSE
  /\ result = "none"

\* The process of the provider does not outlive the turn: ChildGuard and
\* ProviderProcessTree are dropped on every return.
Return(r) ==
  /\ turn' = NoTurn
  /\ result' = r
  /\ context' = NoContext
  /\ call' = NoCall
  /\ TerminateTree
  /\ cancelled' = FALSE
  /\ UNCHANGED <<confirmVars, launchVars, made, installs, turns, accepted>>

MoveTurn(to) == turn' = to /\ UNCHANGED <<turns, cancelled, accepted, result>>

\* A turn is requested with the folder the Room has at that moment.
Begin(at, room, access) ==
  /\ turn = NoTurn /\ turns < MaxTurns
  /\ turns' = turns + 1
  /\ turn' = [at |-> at, room |-> room, workspace |-> folder[room], access |-> access]
  /\ cancelled' = FALSE /\ accepted' = FALSE
  /\ result' = "none"
  /\ UNCHANGED <<confirmVars, launchVars, executionVars, provider>>

\* While a call is answered nobody looks at the flag: a Stop pressed then is one
\* pressed right after.
Cancel ==
  /\ turn # NoTurn /\ turn.at # "call" /\ ~cancelled
  /\ cancelled' = TRUE
  /\ UNCHANGED <<confirmVars, launchVars, executionVars, provider, turn, turns, accepted, result>>

-----------------------------------------------------------------------------
\* run of the Codex adapter

HasWorkspace == turn.workspace \in Workspaces
At(step) == turn.at = step
Goto(step) == MoveTurn([turn EXCEPT !.at = step])

Frame == UNCHANGED <<confirmVars, launchVars, executionVars>>

\* The workspace broker needs the folder.
OpenWorkspace ==
  /\ At("codex")
  /\ \/ cancelled /\ Return("Cancelled")
     \/ ~cancelled /\ HasWorkspace /\ folder[turn.room] # turn.workspace /\ Return("WorkspaceUnavailable")
     \/ ~cancelled /\ Goto("tools") /\ Frame /\ UNCHANGED provider

\* context_for_turn reads the folder of the Room and then its session; without them
\* the command tools are left out.
FindFolder ==
  /\ At("tools")
  /\ Goto(IF HasWorkspace /\ folder[turn.room] = turn.workspace THEN "context" ELSE "spawn")
  /\ Frame /\ UNCHANGED provider

FindSession ==
  /\ At("context")
  /\ context' = ContextForTurn(turn.room, turn.workspace, turn.access)
  /\ Goto("spawn")
  /\ UNCHANGED <<confirmVars, launchVars, call, made, installs, provider>>

SpawnCodex ==
  /\ At("spawn")
  /\ \/ Return("PreflightFailure")
     \/ Goto("attach") /\ Frame /\ UNCHANGED provider

Attach(next, failure) ==
  \/ Return(failure)
  \/ MoveTurn(next) /\ Frame /\ UNCHANGED provider

AwaitStage(i) == [at |-> "await", stage |-> i, room |-> turn.room, workspace |-> turn.workspace]

AttachCodex == At("attach") /\ Attach(AwaitStage(1), "PreflightFailure")

\* codex_preflight_failure
CodexPreflightFailure(e) ==
  IF e \in {"Cancelled", "WorkspaceUnavailable", "WorkspaceSandboxUnavailable", "ClientUpdateRequired"}
  THEN e ELSE "PreflightFailure"

\* Fault: every error of the opening requests counts as not started.
AlwaysPreflight(stage, e) == CodexPreflightFailure(e)

\* Before turn/start an error means that the turn has not begun; once it was sent
\* nobody knows.
Failure(stage, e) ==
  CASE stage = "turnStart" -> e
    [] stage = "config" /\ e # "Cancelled" -> "WorkspaceSandboxUnavailable"
    [] OTHER -> CodexPreflightFailure(e)

Stage == Stages[turn.stage]

\* config/read is sent for a turn with a workspace.
NextStage == IF Stage = "profiles" /\ ~HasWorkspace THEN turn.stage + 2 ELSE turn.stage + 1

CodexAccepts ==
  /\ At("await") /\ Stage = "turnStart" /\ ~accepted
  /\ accepted' = TRUE
  /\ UNCHANGED <<confirmVars, launchVars, executionVars, provider, turn, turns, cancelled, result>>

Reply ==
  /\ At("await")
  /\ Stage = "turnStart" => accepted
  /\ IF Stage = "turnStart"
     THEN MoveTurn([at |-> "turn", room |-> turn.room])
     ELSE MoveTurn(AwaitStage(NextStage))
  /\ Frame /\ UNCHANGED provider

\* What receive ends with.  The reader of stdout stops at a line that is too long or
\* no JSON and at the end of the output; when it is gone the channel is closed.
ReaderEnds == {"Invalid", "End"}
EndsAs(event) == CASE event \in ReaderEnds -> "InvalidResponse"
                   [] event = "Timeout" -> "TimedOut"
                   [] event = "Disconnected" -> "Unavailable"
Silences == {EndsAs(event) : event \in ReaderEnds \cup {"Timeout", "Disconnected"}}

\* Codex reports an error for a turn/start that it does not accept, and for a turn
\* that it gives up; an error that it retries is no end.
ReportedFailures == {"ConfirmedFailure", "ClientUpdateRequired"}

\* What a reply may lack: a read-only profile that is allowed, the elevated sandbox,
\* the thread that was to be resumed, the identity of the turn.
NoProfile(e) == Stage = "profiles" /\ e = "Rejected"
NoSandbox(e) == Stage = "config" /\ e = "WorkspaceSandboxUnavailable"
OtherThread(e) == Stage = "thread" /\ e = "PreflightFailure"

CanEndWith(e) == \/ e \in Silences
                 \/ e = "Cancelled" /\ cancelled
                 \/ At("await") /\ (NoProfile(e) \/ NoSandbox(e) \/ OtherThread(e))
                 \/ e \in ReportedFailures /\ (At("await") /\ Stage = "turnStart" => ~accepted)

\* A request that cannot be written: of the others this is the failure anyway.
NotWritten == Stage = "config"

NoReply ==
  /\ At("await")
  /\ \/ \E e \in Results : CanEndWith(e) /\ Return(Failure(Stage, e))
     \/ NotWritten /\ Return("PreflightFailure")

\* wait_for_turn: a call is answered before the next message is looked at, and so
\* before the flag and the deadline are.
CodexCallsTool ==
  /\ At("turn") /\ ~cancelled
  /\ \E c \in OfferedCalls : ToolCall(c)
  /\ Goto("call")
  /\ UNCHANGED <<confirmVars, launchVars, provider>>

AnswersCall ==
  /\ At("call") /\ call.at = <<"answer">>
  /\ \/ /\ Goto("turn")
        /\ call' = NoCall
        /\ UNCHANGED <<confirmVars, launchVars, context, made, installs, provider>>
     \/ Return("Unavailable")

WaitForTurnFails ==
  /\ At("turn")
  /\ \E e \in Results : CanEndWith(e) /\ Return(e)

\* An image counts when Codex reports where it saved it, and has to be taken into the
\* artifact store; without one a text is needed, and a text has a greatest length.
TurnResult(text, image) ==
  IF \/ text = "none" /\ image \in {"none", "failed"}
     \/ text = "long"
     \/ image = "notStored"
  THEN "InvalidResponse" ELSE "Answered"

TurnCompletes ==
  /\ At("turn") /\ ~cancelled
  /\ \E text \in {"none", "short", "long"}, image \in {"none", "failed", "stored", "notStored"} :
       Return(TurnResult(text, image))

-----------------------------------------------------------------------------
\* run and run_bounded of the command line adapters

RunCli ==
  /\ At("cli")
  /\ \/ cancelled /\ Return("Cancelled")
     \/ Return("Unavailable")
     \/ ~cancelled /\ Spawn /\ MoveTurn([at |-> "cliAttach"]) /\ Frame

AttachCli == At("cliAttach") /\ Attach([at |-> "poll"], "Unavailable")

\* Every 25 ms: the flag, then the exit, then the deadline.
Poll ==
  /\ At("poll")
  /\ IF cancelled
     THEN Return("Cancelled")
     ELSE \/ /\ provider["root"] = "gone"
             /\ TerminateTree
             /\ Goto("join") /\ Frame
          \/ provider["root"] # "gone" /\ \E e \in {"TimedOut", "Unavailable"} : Return(e)

JoinCli ==
  /\ At("join") /\ ProviderPipesClosed
  /\ \E r \in {"Answered", "Rejected", "InvalidResponse"} : Return(r)

-----------------------------------------------------------------------------
ProviderRuns ==
  /\ \/ \E attached \in BOOLEAN :
          ProviderForks(attached) /\ attached = ~At("cliAttach")
     \/ \E p \in ProviderProcesses : ProviderEnds(p)
  /\ Frame /\ UNCHANGED turnVars

CallRuns == At("call") /\ CallStep /\ UNCHANGED <<provider, turnVars>>

TurnStep ==
  \/ OpenWorkspace \/ FindFolder \/ FindSession \/ SpawnCodex \/ AttachCodex \/ Reply \/ NoReply
  \/ AnswersCall \/ WaitForTurnFails \/ TurnCompletes
  \/ RunCli \/ AttachCli \/ Poll \/ JoinCli
  \/ CallRuns

Environment ==
  \/ OwnerStep /\ UNCHANGED <<launchVars, executionVars, provider, turnVars>>
  \/ Cancel
  \/ CodexAccepts
  \/ ProviderRuns

CommandProcesses == ProcessStep /\ UNCHANGED <<confirmVars, executionVars, provider, turnVars>>

Next ==
  \/ \E room \in Rooms, access \in Accesses : Begin("codex", room, access)
  \/ \E room \in Rooms : Begin("cli", room, "ReadOnly")
  \/ TurnStep
  \/ CodexCallsTool
  \/ CommandProcesses
  \/ Environment

Spec == Init /\ [][Next]_vars

\* Every wait of the turn has a deadline, and what was terminated goes.
FairSpec ==
  /\ Spec
  /\ WF_vars(TurnStep)
  /\ WF_vars(TerminatedGo /\ UNCHANGED <<confirmVars, executionVars, provider, turnVars>>)

-----------------------------------------------------------------------------
\* An installation runs only in the session and for the package the owner allowed,
\* and once for each time it was allowed, unless it was for the whole session: the
\* session is read when the owner is asked, not when the turn began, and checked
\* again without a lock (command_execution_product.rs:528-635).
InstallsWereAllowed ==
  \A install \in installs :
    LET given == {a \in approvals : a.scope = install.scope}
        same == {i \in installs : i.scope = install.scope}
    IN \/ \E a \in given : a.lifetime = "RoomSession"
       \/ Cardinality(same) <= Cardinality(given)

\* Nothing in the registry belongs to a session that is over: the thread that
\* registers a request looked at the session under another lock
\* (command_confirmations.rs:333-360).
RegistryIsOfActiveSessions ==
  LET active == {sessions[r] : r \in Rooms}
  IN /\ \A e \in registry.pending \cup registry.ready : e.scope.session \in active
     /\ \A e \in registry.terminal : e.session \in active
     /\ \A scope \in registry.grants : scope.session \in active

\* When the owner was told that the command is allowed, the turn goes on with it
\* even if the deadline has passed since, unless the session was ended or the
\* registry was full (command_confirmations.rs:366-407).
AcknowledgedDecisionHolds ==
  [][(Waiting /\ waiter'.at = "answered"
        /\ \E a \in approvals : a.id = waiter.request.id)
       => \/ waiter'.outcome = "Authorized"
          \/ resolutions[waiter.request.id] = "RoomSessionEnded"
          \/ TerminalFull]_vars

\* A turn that is reported as not started is one that Codex does not work on; the
\* dispatcher lets it be tried again (codex_app_server.rs:1461-1469, ai_dispatch.rs:395-440).
NotStartedIsTrue ==
  result \in {"PreflightFailure", "WorkspaceUnavailable", "WorkspaceSandboxUnavailable"}
    => ~accepted

\* Once a launch has returned, it has left neither a profile, a tool, an access
\* entry, a drive nor a process behind, unless it said so; only a helper that could
\* not be put into the Job and not be terminated stays, suspended
\* (windows.rs:242-251, 334-352).
NothingOutlivesALaunch ==
  launch = "idle" /\ outcome \notin {"EstablishFailed", "CleanupFailed"} =>
    /\ left = {}
    /\ \A p \in Processes :
         \/ process[p] \in {"none", "dying", "gone"}
         \/ p = "helper" /\ process[p] = "outside" /\ outcome = "ProcessWaitFailed"

\* A turn comes to an end whatever the owner, the provider and the commands do,
\* except that a command line which started a process before it was attached to
\* its Job is waited for (claude_fable.rs:200-262, windows.rs:301-313).
TurnReturns == (turn # NoTurn) ~> (turn = NoTurn \/ provider["early"] = "alive")
================================================================================
