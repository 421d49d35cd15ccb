-------------------------- MODULE WindowsCommandLaunch --------------------------
(***************************************************************************)
(* One command in its isolation: execute_windows_command_launch                *)
(* (moe-windows-command-launcher) as the host, the command helper                *)
(* (apps/command-helper, moe-windows-command-runner) and what the command        *)
(* starts as processes of one Job Object.                                    *)
(*                                                                         *)
(* The host acquires an AppContainer profile, a staged copy of the tool, an      *)
(* entry in the folder's access list, drive letters and the Job, runs the        *)
(* helper suspended into the Job, waits for it and releases everything.         *)
(***************************************************************************)
EXTENDS CommandIsolation

VARIABLES launch,     \* how far the host has come
          request,    \* the encoded request
          held,       \* what the isolation holds
          left,       \* what the launch has left behind when it returned
          process,    \* the processes of the launch
          outcome     \* what the launch has come to

launchVars == <<launch, request, held, left, process, outcome>>

Steps == {"idle", "establish", "create", "assign", "write", "resume", "wait",
          "exited", "killed", "join", "close"}

Processes == {"helper", "command", "descendant"}

\* "outside": created and not in the Job.  "dying": terminated, not gone yet.
ProcessStates == {"none", "outside", "suspended", "alive", "dying", "gone"}

NoRequest == [call |-> [command |-> "GitStatus"], access |-> "ReadOnly"]

Completions == {"Completed", "OutputLimitExceeded", "HostTimedOut"}
ExecuteErrors == PipeErrors \cup EnvironmentErrors \cup
                 {"NetworkCapabilityUnavailable", "ProcessLaunchFailed", "JobFailed", "RequestWriteFailed", "ProcessResumeFailed",
                  "ProcessWaitFailed", "ProcessExitUnavailable", "OutputReaderFailed"}
Outcomes == {"none", "EstablishFailed", "CleanupFailed"} \cup Completions \cup ExecuteErrors

LaunchTypeOK ==
  /\ launch \in Steps
  /\ request \in {NoRequest} \cup [call : Calls, access : Accesses]
  /\ held \subseteq Resources /\ left \subseteq Resources
  /\ process \in [Processes -> ProcessStates]
  /\ outcome \in Outcomes

LaunchInit ==
  /\ launch = "idle" /\ request = NoRequest
  /\ held = {} /\ left = {}
  /\ process = [p \in Processes |-> "none"]
  /\ outcome = "none"

Launch(req) ==
  /\ launch = "idle"
  /\ launch' = "establish" /\ request' = req
  /\ UNCHANGED <<held, left, process, outcome>>

\* The caller goes on with the outcome; what the launch left is not followed.
Forget ==
  /\ launch = "idle" /\ outcome # "none"
  /\ UNCHANGED launch
  /\ request' = NoRequest /\ held' = {} /\ left' = {}
  /\ process' = [p \in Processes |-> "none"]
  /\ outcome' = "none"

\* Bound: at most one release of a launch fails.
Few(resources) == {{}} \cup {{r} : r \in resources}

\* TerminateJobObject, or the last handle of the Job closed: every process in
\* the Job ends, not at once.  Assumption: TerminateJobObject on the launcher's own
\* Job succeeds (JobHandle::terminate does not look at its result).
Killed == [p \in Processes |-> IF process[p] \in {"suspended", "alive"} THEN "dying" ELSE process[p]]

-----------------------------------------------------------------------------
\* establish_with_acl_scope: one thing after the other.  When one cannot be had
\* those held are dropped, and a drop that fails is silent.

Establishing(resource) == launch = "establish" /\ NextNeeded(request, held) = resource

EstablishFails(there) ==
  /\ \E stuck \in Few(there) : left' = stuck
  /\ held' = {}
  /\ outcome' = "EstablishFailed"
  /\ launch' = "idle"

Take(resource) ==
  /\ Establishing(resource)
  /\ \/ /\ held' = held \cup {resource}
        /\ launch' = IF held' = Needed(request) THEN "create" ELSE "establish"
        /\ UNCHANGED <<left, outcome>>
     \/ EstablishFails(held \cup Begun(resource))
  /\ UNCHANGED <<request, process>>

CreateProfile == Take("profile")
StageTool == Take("staged")
GrantFolder == Take("grant")
MapDrive == Take("drive") \/ Take("toolDrive")
CreateJob == Take("job")

Establish == CreateProfile \/ StageTool \/ GrantFolder \/ MapDrive \/ CreateJob

-----------------------------------------------------------------------------
\* execute: every path goes to close, with the processes as they are then.

ToClose(result, processes) ==
  /\ launch' = "close"
  /\ outcome' = result
  /\ process' = processes

Create ==
  /\ launch = "create"
  /\ \/ /\ process' = [process EXCEPT !["helper"] = "outside"]
        /\ launch' = "assign" /\ UNCHANGED outcome
     \/ \E e \in CreationErrors(request) : ToClose(e, process)
  /\ UNCHANGED <<request, held, left>>

\* A helper that is not in the Job is terminated by itself, if that succeeds.
Assign ==
  /\ launch = "assign"
  /\ \/ /\ process' = [process EXCEPT !["helper"] = "suspended"]
        /\ launch' = "write" /\ UNCHANGED outcome
     \/ ToClose("JobFailed", [process EXCEPT !["helper"] = "dying"])
     \/ ToClose("ProcessWaitFailed", process)
  /\ UNCHANGED <<request, held, left>>

WriteRequest ==
  /\ launch = "write"
  /\ \/ launch' = "resume" /\ UNCHANGED <<process, outcome>>
     \/ ToClose("RequestWriteFailed", Killed)
  /\ UNCHANGED <<request, held, left>>

Resume ==
  /\ launch = "resume"
  /\ \/ /\ process' = [process EXCEPT !["helper"] = "alive"]
        /\ launch' = "wait" /\ UNCHANGED outcome
     \/ ToClose("ProcessResumeFailed", Killed)
  /\ UNCHANGED <<request, held, left>>

HelperGone == process["helper"] = "gone"

\* Fault: the readers are joined before what is left in the Job is terminated.
WaitEndsJoining ==
  /\ launch = "wait" /\ HelperGone
  /\ launch' = "join"
  /\ UNCHANGED <<request, held, left, process, outcome>>

\* Only the exit of the helper is waited for; what is still in the Job then is
\* terminated before the output is read to its end.
WaitEnds ==
  /\ launch = "wait" /\ HelperGone
  /\ \/ launch' = "join" /\ process' = Killed /\ UNCHANGED outcome
     \/ ToClose("ProcessExitUnavailable", process)
  /\ UNCHANGED <<request, held, left>>

HostTimesOut ==
  /\ launch = "wait" /\ ~HelperGone
  /\ launch' = "killed" /\ process' = Killed
  /\ outcome' = "HostTimedOut"
  /\ UNCHANGED <<request, held, left>>

WaitFails ==
  /\ launch = "wait"
  /\ ToClose("ProcessWaitFailed", Killed)
  /\ UNCHANGED <<request, held, left>>

\* Five seconds for the helper to go.
KilledGoes ==
  /\ launch = "killed"
  /\ \/ HelperGone /\ launch' = "join" /\ UNCHANGED <<process, outcome>>
     \/ ~HelperGone /\ ToClose("ProcessWaitFailed", process)
  /\ UNCHANGED <<request, held, left>>

\* The readers of stdout and stderr end when nobody can write any more.
PipesClosed == \A p \in Processes : process[p] \in {"none", "gone"}

JoinReaders ==
  /\ launch = "join" /\ PipesClosed
  /\ \/ \E c \in {"Completed", "OutputLimitExceeded"} :
          ToClose(IF outcome = "HostTimedOut" THEN outcome ELSE c, process)
     \/ ToClose("OutputReaderFailed", process)
  /\ UNCHANGED <<request, held, left>>

\* Fault: the outcome of the command is reported before that of the cleanup.
CloseQuietly ==
  /\ launch = "close"
  /\ \E failed \in Few(held) : left' = failed
  /\ process' = Killed
  /\ held' = {}
  /\ launch' = "idle"
  /\ UNCHANGED <<request, outcome>>

\* close tries everything; a failure outweighs what the command came to, and the
\* drop that follows tries what failed once more.
Close ==
  /\ launch = "close"
  /\ \E failed \in Few(held) :
       /\ outcome' = IF failed = {} THEN outcome ELSE "CleanupFailed"
       /\ \E stuck \in SUBSET failed :
            /\ left' = stuck
            /\ process' = IF "job" \in stuck THEN process ELSE Killed
  /\ held' = {}
  /\ launch' = "idle"
  /\ UNCHANGED request

HostStep ==
  \/ Establish
  \/ Create \/ Assign \/ WriteRequest \/ Resume
  \/ WaitEnds \/ HostTimesOut \/ WaitFails \/ KilledGoes
  \/ JoinReaders \/ Close

-----------------------------------------------------------------------------
\* The helper and what it starts.

Goes(p) == process' = [process EXCEPT ![p] = "gone"]
Alive(p) == process[p] = "alive"

\* main and execute: the request is decoded and classified again, and the tool has
\* to be the one it names.  The helper refuses, or cannot start the tool.
HelperRefuses ==
  /\ Alive("helper") /\ process["command"] = "none"
  /\ Goes("helper")
  /\ UNCHANGED <<launch, request, held, left, outcome>>

\* A process that is not in an AppContainer and a Job starts nothing; what it
\* starts is in them too, or it is terminated at once.
Contained(p) == process[p] \notin {"none", "outside"}

HelperStarts ==
  /\ Alive("helper") /\ process["command"] = "none"
  /\ HelperMayRun(request, held) /\ Contained("helper")
  /\ process' = [process EXCEPT !["command"] = "alive"]
  /\ UNCHANGED <<launch, request, held, left, outcome>>

CommandForks ==
  /\ Alive("command") /\ process["descendant"] = "none"
  /\ process' = [process EXCEPT !["descendant"] = "alive"]
  /\ UNCHANGED <<launch, request, held, left, outcome>>

\* The command ends, or is killed after 300 seconds, alone.
CommandEnds ==
  /\ Alive("command")
  /\ Goes("command")
  /\ UNCHANGED <<launch, request, held, left, outcome>>

DescendantEnds ==
  /\ Alive("descendant")
  /\ Goes("descendant")
  /\ UNCHANGED <<launch, request, held, left, outcome>>

\* run_child reads the command's output to its end before it answers; a
\* descendant may have let go of that output and still hold the helper's own.
HelperAnswers ==
  /\ Alive("helper") /\ process["command"] = "gone"
  /\ Goes("helper")
  /\ UNCHANGED <<launch, request, held, left, outcome>>

\* Windows ends the terminated processes.
TerminatedGo ==
  /\ \E p \in Processes : process[p] = "dying"
  /\ process' = [p \in Processes |-> IF process[p] = "dying" THEN "gone" ELSE process[p]]
  /\ UNCHANGED <<launch, request, held, left, outcome>>

ProcessStep ==
  \/ HelperRefuses \/ HelperStarts \/ CommandForks \/ CommandEnds \/ DescendantEnds \/ HelperAnswers
  \/ TerminatedGo
================================================================================
