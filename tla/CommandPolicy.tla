----------------------------- MODULE CommandPolicy -----------------------------
(***************************************************************************)
(* What a command is and who decides about it: the classification of          *)
(* moe-command-broker (lib.rs), the request that crosses to the helper          *)
(* (moe-command-helper-protocol) and the tool calls codex_app_server.rs takes.  *)
(*                                                                         *)
(* A target is the working directory and, for an installation, the package     *)
(* with its exact version.  Only the verdict on it matters: BadTargets are      *)
(* those with an absolute or parent directory, a name or a version that the     *)
(* broker refuses.                                                          *)
(***************************************************************************)
EXTENDS FiniteSets, Integers, Sequences

CONSTANTS Targets,     \* working directory with package and version
          BadTargets   \* those the broker refuses

ASSUME PolicyConstants == BadTargets \subseteq Targets

Accesses == {"ReadOnly", "ReadWrite"}

GitCommands == {"GitStatus", "GitDiff", "GitDiffStaged", "GitLog"}
NpmCommands == {"NpmBuild", "NpmTest", "NpmTypecheck"}
CargoCommands == {"CargoCheck", "CargoBuild", "CargoTest", "CargoClippy", "CargoFmtCheck"}
BaselineCommands == GitCommands \cup {"NodeRun"} \cup NpmCommands \cup CargoCommands
ActionTimeCommands == {"GitPush", "PackageInstall", "CargoFetch", "UnregisteredTool",
                       "CredentialUse", "AdministratorOperation", "DestructiveOperation"}

Tool(command) == CASE command \in GitCommands -> "Git"
                   [] command = "NodeRun" -> "Node"
                   [] command \in NpmCommands \cup {"PackageInstall"} -> "Npm"
                   [] command \in CargoCommands -> "Cargo"

WritesWorkspace(command) ==
  \/ command \in BaselineCommands \ GitCommands
  \/ command \in {"GitPush", "PackageInstall", "CargoFetch", "DestructiveOperation"}

AllowsRoomSession(command) == command \in {"GitPush", "PackageInstall", "CargoFetch"}

\* A call is a command on a target.
Calls == [command : BaselineCommands \cup ActionTimeCommands, target : Targets]

Denied(call, access) ==
  call.target \in BadTargets \/ (WritesWorkspace(call.command) /\ access # "ReadWrite")

Classify(call, access) == CASE Denied(call, access) -> "denied"
                            [] call.command \in BaselineCommands -> "baseline"
                            [] OTHER -> "confirm"

\* Only a package installation gets the internetClient capability.
NetworkEnabled(command) == command = "PackageInstall"

\* The calls the dynamic tools can express; an installation is classified once
\* more as if the workspace were writable before its context is looked at.
ToolCalls ==
  {call \in Calls : /\ call.command \in {"GitStatus", "NodeRun", "PackageInstall"} \cup NpmCommands
                    /\ call.command = "PackageInstall"
                         => Classify(call, "ReadWrite") = "confirm"}

\* append_command_dynamic_tools: what a turn is offered; nothing keeps Codex
\* from calling the others.
OfferedTools(access) ==
  {"GitStatus"} \cup
    IF access = "ReadWrite" THEN {"NodeRun", "PackageInstall"} \cup NpmCommands ELSE {}

\* The adapter offers what the broker does not deny: the two lists are kept in
\* different crates.
ASSUME OfferedToolsAreTaken ==
  \A access \in Accesses, call \in {c \in ToolCalls : c.target \notin BadTargets} :
    call.command \in OfferedTools(access) <=> ~Denied(call, access)

\* The helper decodes a request and classifies it again: what it runs is a
\* baseline command or an installation, never on a directory the broker refuses.
Encode(call, access) == [call |-> call, access |-> access]
Decodes(request) ==
  /\ request.call.command \in BaselineCommands \cup {"PackageInstall"}
  /\ Classify(request.call, request.access) # "denied"
================================================================================
