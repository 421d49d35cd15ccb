---------------------------- MODULE CommandIsolation ----------------------------
(***************************************************************************)
(* What a launch of a command is given and what both ends check before it       *)
(* runs: the preparation by the host (moe-windows-command-launcher lib.rs), the   *)
(* things its isolation consists of (windows.rs), and the checks of the command    *)
(* helper inside it (apps/command-helper, moe-windows-command-runner,            *)
(* moe-command-runner).                                                     *)
(*                                                                         *)
(* The two sides never share a value but the encoded request and the path of    *)
(* the tool: each decides by itself which tool the request may run.             *)
(***************************************************************************)
EXTENDS CommandPolicy

-----------------------------------------------------------------------------
\* The host.  Each of the three preparations decodes the request and takes only
\* its own tools; nothing prepares a launch of cargo.

Baseline(req) == Decodes(req) /\ req.call.command \in BaselineCommands
Installation(req) == Decodes(req) /\ req.call.command = "PackageInstall"

PreparesCommand(req) == Baseline(req) /\ Tool(req.call.command) \in {"Git", "Node"}
PreparesNpmScript(req) == Baseline(req) /\ Tool(req.call.command) = "Npm"
PreparesPackageInstall(req) == Installation(req)

CanPrepare(req) == PreparesCommand(req) \/ PreparesNpmScript(req) \/ PreparesPackageInstall(req)

\* npm runs from the runtime beside node.exe, and as a script of it.
NeedsRuntime(req) == PreparesNpmScript(req) \/ PreparesPackageInstall(req)
PreparedTool(req) == IF Tool(req.call.command) = "Git" THEN "git.exe" ELSE "node.exe"

Capabilities(req) == IF NetworkEnabled(req.call.command) THEN {"internetClient"} ELSE {}

-----------------------------------------------------------------------------
\* The isolation, in the order in which it is established.

ResourceOrder == <<"profile", "staged", "grant", "drive", "toolDrive", "job">>
Resources == {ResourceOrder[i] : i \in 1..6}

\* Only node.exe, with the npm runtime if there is one, is copied, and has a drive
\* of its own; git runs from where it is.
Staged(req) == PreparedTool(req) = "node.exe"
Needed(req) == IF Staged(req) THEN Resources ELSE Resources \ {"staged", "toolDrive"}

NextNeeded(req, held) ==
  LET missing == Needed(req) \ held
  IN ResourceOrder[CHOOSE i \in 1..6 : /\ ResourceOrder[i] \in missing
                                       /\ \A j \in 1..(i - 1) : ResourceOrder[j] \notin missing]

\* What is already there when a step of the establishment fails half-way: the
\* directory of the tool with part of the copy, access entries on some of the files.
Begun(resource) == {resource} \cap {"staged", "grant"}

\* What the creation of the helper may fail with: the three pipes, the derived
\* capability of an installation, the environment, the process itself.
PipeErrors == {"RequestPipeUnavailable", "OutputPipeUnavailable"}
CapabilityErrors(req) == IF Capabilities(req) = {} THEN {} ELSE {"NetworkCapabilityUnavailable"}
EnvironmentErrors == {"SystemToolUnavailable", "DriveUnavailable"}
CreationErrors(req) ==
  PipeErrors \cup CapabilityErrors(req) \cup EnvironmentErrors \cup {"ProcessLaunchFailed"}

-----------------------------------------------------------------------------
\* The helper.

\* The tool it is told to run: that of the drive of the staged tool, if there is one.
LaunchedTool(req, held) == IF "toolDrive" \in held THEN "node.exe" ELSE PreparedTool(req)

InvocationTaken(tool) == tool \in {"git.exe", "node.exe"}

InputsTaken(req, tool) ==
  CASE Tool(req.call.command) = "Git" -> tool = "git.exe"
    [] Tool(req.call.command) \in {"Node", "Npm"} -> tool = "node.exe"
    [] OTHER -> FALSE
InstallInputsTaken(tool) == tool = "node.exe"

\* npm-cli.js is looked for beside the tool, where only the staged copy has it.
NpmCliFound(req, held) == "staged" \in held /\ NeedsRuntime(req)

\* A baseline command is never given the network.
PlanTaken(req) == ~NetworkEnabled(req.call.command)

RunsBaseline(req, held) ==
  /\ Baseline(req)
  /\ InputsTaken(req, LaunchedTool(req, held))
  /\ PlanTaken(req)
  /\ Tool(req.call.command) = "Npm" => NpmCliFound(req, held)

RunsInstallation(req, held) ==
  /\ Installation(req)
  /\ InstallInputsTaken(LaunchedTool(req, held))
  /\ NpmCliFound(req, held)

HelperMayRun(req, held) ==
  /\ InvocationTaken(LaunchedTool(req, held))
  /\ RunsBaseline(req, held) \/ RunsInstallation(req, held)

\* What the host prepares and establishes, the helper accepts.
ASSUME HelperAgrees ==
  \A c \in Calls, access \in Accesses :
    LET req == Encode(c, access)
    IN CanPrepare(req) => HelperMayRun(req, Needed(req))
================================================================================
