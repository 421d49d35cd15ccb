---------------------------- MODULE CommandExecution ----------------------------
(***************************************************************************)
(* A command call of a turn, from the call to its answer                       *)
(* (command_execution_product.rs): the checks of the preparation, the owner's    *)
(* confirmation of an installation, the same checks again, and once more before  *)
(* the launch.  No lock is held from one check to the next, so every check is a   *)
(* step of its own.                                                          *)
(***************************************************************************)
EXTENDS CommandConfirmations, CommandToolchain, WindowsCommandLaunch

CONSTANTS NoContext,
          OfferedCalls,  \* tool calls Codex may make
          MaxCalls       \* bound: calls per history

ASSUME ExecutionConstants == OfferedCalls \subseteq ToolCalls /\ MaxCalls \in Nat

VARIABLES context,    \* DesktopCommandTurnContext of the turn, or NoContext
          call,       \* the call that is being answered, with the step it is at
          made,       \* calls made
          installs    \* observer: installations that were launched

executionVars == <<context, call, made, installs>>

NoCall == [at |-> <<"none">>]
Checks == {"folder", "session", "tools"}
CallSteps == {<<"none">>, <<"ask">>, <<"launched">>, <<"answer">>}
               \cup ({"prepare", "again", "execute"} \X Checks)

ExecutionTypeOK ==
  /\ context \in [session : Sessions, access : Accesses] \cup {NoContext}
  /\ call \in {NoCall} \cup [at : CallSteps \ {<<"none">>}, call : OfferedCalls]
  /\ made \in 0..MaxCalls
  /\ installs \subseteq [number : 1..MaxCalls, scope : Scopes]

ExecutionInit ==
  /\ context = NoContext
  /\ call = NoCall
  /\ made = 0 /\ installs = {}

\* Fault: the sessions are not looked at.
ContextWithoutSession(room, workspace, access) == [session |-> sessions[room], access |-> access]

\* context_for_turn, once it has read that the Room still has the requested folder:
\* without a session on it the turn has no command tools.
ContextForTurn(room, workspace, access) ==
  IF HasSessionOn(room, workspace)
  THEN [session |-> sessions[room], access |-> access]
  ELSE NoContext

ToolCall(c) ==
  /\ context # NoContext /\ made < MaxCalls
  /\ call' = [at |-> <<"prepare", "folder">>, call |-> c]
  /\ made' = made + 1
  /\ UNCHANGED <<context, installs>>

MoveCall(at) == call' = [call EXCEPT !.at = at]
AnswerCall == MoveCall(<<"answer">>)

\* The folder of the Room is the one of the turn, and so is its session.
CheckFolder(phase) ==
  /\ call.at = <<phase, "folder">>
  /\ IF folder[context.session.room] = context.session.key
     THEN MoveCall(<<phase, "session">>) ELSE AnswerCall
  /\ UNCHANGED <<context, made, installs>>

\* Fault: the session of the turn is not compared with that of the Room.
CheckNoSession(phase) ==
  /\ call.at = <<phase, "session">>
  /\ IF call.call.command # "GitStatus" THEN MoveCall(<<phase, "tools">>) ELSE AnswerCall
  /\ UNCHANGED <<context, made, installs>>

CheckSession(phase) ==
  /\ call.at = <<phase, "session">>
  /\ IF StillActive(context.session) /\ call.call.command # "GitStatus"
     THEN MoveCall(<<phase, "tools">>) ELSE AnswerCall
  /\ UNCHANGED <<context, made, installs>>

\* The tools were found when the desktop started, the policy takes the call and
\* one of the preparations does.
PolicyTakes ==
  ToolsFound(call.call.command) /\ CanPrepare(Encode(call.call, context.access))

Passes(phase) ==
  CASE phase = "prepare" ->
         MoveCall(IF Classify(call.call, context.access) = "confirm"
                  THEN <<"ask">> ELSE <<"execute", "folder">>)
         /\ UNCHANGED <<launchVars, installs>>
    [] phase = "again" ->
         MoveCall(<<"execute", "folder">>) /\ UNCHANGED <<launchVars, installs>>
    [] phase = "execute" ->
         /\ MoveCall(<<"launched">>)
         /\ Launch(Encode(call.call, context.access))
         /\ installs' = installs \cup
              {[number |-> made, scope |-> [session |-> context.session, target |-> t]] :
                 t \in {t \in {call.call.target} : NetworkEnabled(call.call.command)}}

\* The tools, the helper, the directory, its owner, package.json and the backend
\* are in order as well: these are files, which may fail to be at any time (the
\* search for the tools may also still be under way).
CheckTools(phase) ==
  /\ call.at = <<phase, "tools">>
  /\ \/ PolicyTakes /\ Passes(phase)
     \/ AnswerCall /\ UNCHANGED <<launchVars, installs>>
  /\ UNCHANGED <<context, made>>

\* wait_for_room_authorization is called and has returned.
AskOwner ==
  /\ call.at = <<"ask">> /\ waiter = NoWaiter
  /\ Ask(context.session.room, call.call.target)
  /\ UNCHANGED <<folder, sessions, begun, registry, resolutions, asked, activating, approvals>>
  /\ UNCHANGED executionVars

OwnerAnswered ==
  /\ call.at = <<"ask">> /\ waiter.at = "answered"
  /\ waiter' = NoWaiter
  /\ IF waiter.outcome = "Authorized" THEN MoveCall(<<"again", "folder">>) ELSE AnswerCall
  /\ UNCHANGED <<folder, sessions, begun, registry, resolutions, asked, activating, approvals>>
  /\ UNCHANGED <<context, made, installs>>

LaunchReturned ==
  /\ call.at = <<"launched">> /\ Forget
  /\ AnswerCall
  /\ UNCHANGED <<context, made, installs>>

\* The steps of the thread of the turn while it answers a call.
CallStep ==
  \/ /\ UNCHANGED confirmVars
     /\ \/ /\ UNCHANGED launchVars
           /\ \E phase \in {"prepare", "again", "execute"} : CheckFolder(phase) \/ CheckSession(phase)
        \/ \E phase \in {"prepare", "again", "execute"} : CheckTools(phase)
  \/ UNCHANGED launchVars /\ (AskOwner \/ OwnerAnswered)
  \/ WaitStep /\ UNCHANGED <<launchVars, executionVars>>
  \/ call.at = <<"launched">> /\ HostStep /\ UNCHANGED <<confirmVars, executionVars>>
  \/ LaunchReturned /\ UNCHANGED confirmVars
================================================================================
