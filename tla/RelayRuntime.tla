----------------------------- MODULE RelayRuntime -----------------------------
(***************************************************************************)
(* The Relay runtime of the desktop (relay_runtime.rs) with the task it runs  *)
(* in the product (relay_product.rs) and the connection service (moe-relay-    *)
(* client): one bundled account, a worker thread per connection or retry       *)
(* timer, the event pump, and the thread that starts, stops and shuts down.    *)
(*                                                                         *)
(* A generation is the number of a worker; it is only ever compared with       *)
(* others, so numbers nothing refers to any more are used again.               *)
(***************************************************************************)
EXTENDS RelayLifecycle, RelayLink, Sequences, FiniteSets

CONSTANTS Generations,   \* bound: workers and their events alive at once
          RequestIds,    \* request IDs the Relay uses
          MaxRequests,   \* RELAY_MAXIMUM_REQUESTS_PER_CONNECTION
          NoTask         \* stands for no generation

ASSUME RuntimeConstants ==
  /\ NoTask \notin Generations
  /\ MaxRequests \in Nat

VARIABLES status,     \* the account's lifecycle; Offline stands for no account
          task,       \* the generation the task owner holds, or NoTask
          worker,     \* the thread of each generation
          queue,      \* runtime events on their way to the pump
          pump,       \* the event pump and the event in its hands
          pumpStop,   \* whether the pump was cancelled
          caller,     \* the thread that uses the orchestrator's operations
          joining,    \* the generation that thread waits for, or NoTask
          service,    \* the phase RelayClientService keeps for the account
          seen,       \* request IDs registered on the current link
          reads       \* observer: Room reads per request ID of the current link

callerVars == <<pumpStop, caller, joining>>
sessionVars == <<seen, reads>>
vars == <<status, task, worker, queue, pump, callerVars, service, sessionVars>>

WorkerSteps == {"free",       \* not a thread
                "load",       \* next: Load
                "linking",    \* next: Link
                "linked",     \* next: Register
                "reporting",  \* next: ReportConnected
                "serving",    \* next: ReadFails, ReadRequest
                "answering",  \* next: Answer
                "closing",    \* next: Close
                "waiting",    \* next: Elapse (a retry timer)
                "ending",     \* next: EndWorker
                "sending",    \* next: Send
                "done"}       \* the thread can be joined

\* The steps in which a worker holds its connection.
LinkSteps == {"linked", "reporting", "serving", "answering", "closing"}

EventKinds == {"Connected", "ConnectionFailed", "UnexpectedDisconnect", "RetryElapsed"}
Events == [gen : Generations, kind : EventKinds, code : Codes \cup {"none"}]
NoEvent == [gen |-> NoTask, kind |-> "Connected", code |-> "none"]

Free == [pc |-> "free", cancelled |-> FALSE, connected |-> FALSE, code |-> "none"]

TypeOK ==
  /\ status \in Statuses
  /\ task \in Generations \cup {NoTask}
  /\ worker \in [Generations -> [pc : WorkerSteps, cancelled : BOOLEAN,
                                 connected : BOOLEAN, code : Codes \cup {"none", "elapsed"}]]
  /\ queue \in Seq(Events)
  /\ pump \in [at : {"waiting", "joining", "applying", "ended"}, event : Events \cup {NoEvent}]
  /\ pumpStop \in BOOLEAN
  /\ caller \in {"idle", "stopping", "endPump", "endTasks", "closed"}
  /\ joining \in Generations \cup {NoTask}
  /\ service \in {"Offline", "Connecting", "Connected", "Error"}
  /\ seen \subseteq RequestIds
  /\ reads \in [RequestIds -> 0..2]

NewProcess ==
  [status |-> NewLifecycle, task |-> NoTask, worker |-> [g \in Generations |-> Free],
   queue |-> <<>>, pump |-> [at |-> "waiting", event |-> NoEvent],
   pumpStop |-> FALSE, caller |-> "idle", joining |-> NoTask, service |-> "Offline",
   seen |-> {}, reads |-> [id \in RequestIds |-> 0]]

Init ==
  /\ status = NewProcess.status /\ task = NewProcess.task
  /\ worker = NewProcess.worker /\ queue = NewProcess.queue
  /\ pump = NewProcess.pump /\ pumpStop = NewProcess.pumpStop
  /\ caller = NewProcess.caller /\ joining = NewProcess.joining
  /\ service = NewProcess.service
  /\ seen = NewProcess.seen /\ reads = NewProcess.reads

InUse(g) ==
  \/ worker[g].pc # "free"
  \/ pump.event.gen = g
  \/ \E i \in 1..Len(queue) : queue[i].gen = g

Unused == {g \in Generations : ~InUse(g)}
NextGeneration == CHOOSE g \in Unused : TRUE

-----------------------------------------------------------------------------
(* The task owner: one task at a time; dropping it cancels and joins it.     *)

\* Fault: a second task replaces the first one without ending it.
SpawnAnyway(pc) ==
  /\ task' = NextGeneration
  /\ worker' = [worker EXCEPT ![NextGeneration] = [Free EXCEPT !.pc = pc]]

Spawn(pc) ==
  /\ task = NoTask
  /\ Unused # {}   \* bound: a number is left
  /\ task' = NextGeneration
  /\ worker' = [worker EXCEPT ![NextGeneration] = [Free EXCEPT !.pc = pc]]

\* A task is already there, or the thread cannot be created.
SpawnFails == UNCHANGED <<task, worker>>

\* cancel() for the worker of g: it wakes its timer and the hook cuts its link.
Cancelled(g) == [worker EXCEPT ![g].cancelled = TRUE]

\* The entry is removed and its worker told to end; the join comes later.
Remove(g) ==
  /\ task' = NoTask
  /\ worker' = Cancelled(g)

Join(g) ==
  /\ worker[g].pc = "done"
  /\ worker' = [worker EXCEPT ![g] = Free]

-----------------------------------------------------------------------------
(* The worker of a connection.                                              *)

At(g, from) == worker[g].pc = from

Go(g, to) == worker' = [worker EXCEPT ![g].pc = to]
GoWith(g, to, code) == worker' = [worker EXCEPT ![g].pc = to, ![g].code = code]

\* Everything but the worker itself, the service and the session stays.
OwnStep == UNCHANGED <<status, task, pump, callerVars>>

Load(g) ==
  /\ At(g, "load")
  /\ IF service \in {"Connecting", "Connected"}
     THEN GoWith(g, "ending", "final") /\ UNCHANGED service
     ELSE Go(g, "linking") /\ service' = "Connecting"
  /\ OwnStep /\ UNCHANGED <<queue, sessionVars>>

Link(g) ==
  /\ At(g, "linking")
  /\ \E result \in LinkResults :
       IF result = "linked"
       THEN /\ Go(g, "linked")
            /\ service' = "Connected"
            /\ seen' = {}
            /\ reads' = [id \in RequestIds |-> 0]
       ELSE /\ GoWith(g, "ending", result)
            /\ service' = "Error"
            /\ UNCHANGED sessionVars
  /\ OwnStep /\ UNCHANGED queue

\* on_cancel, then the test of report_connected.
Register(g) ==
  /\ At(g, "linked")
  /\ Go(g, IF worker[g].cancelled THEN "serving" ELSE "reporting")
  /\ OwnStep /\ UNCHANGED <<queue, service, sessionVars>>

ReportConnected(g) ==
  /\ At(g, "reporting")
  /\ worker' = [worker EXCEPT ![g].pc = "serving", ![g].connected = TRUE]
  /\ queue' = Append(queue, [gen |-> g, kind |-> "Connected", code |-> "none"])
  /\ OwnStep /\ UNCHANGED <<service, sessionVars>>

ReadFails(g) ==
  /\ At(g, "serving")
  /\ \E error \in FrameErrors :
       GoWith(g, "closing", FrameCode(error, worker[g].cancelled))
  /\ OwnStep /\ UNCHANGED <<queue, service, sessionVars>>

\* Fault: an ID that was handled before is handled again.
RegisterAnyId(ids, id) ==
  IF Cardinality(ids \cup {id}) > MaxRequests THEN "LimitReached" ELSE "Accepted"

Registration(ids, id) ==
  CASE id \in ids -> "Duplicate"
    [] id \notin ids /\ Cardinality(ids) >= MaxRequests -> "LimitReached"
    [] OTHER -> "Accepted"

\* A frame that was read before the link was cut is not served any more.
ReadRequest(g) ==
  /\ At(g, "serving")
  /\ \E request \in Requests(RequestIds) :
       LET registration == Registration(seen, request.id)
           accepted == ~worker[g].cancelled /\ registration = "Accepted"
       IN /\ CASE worker[g].cancelled -> GoWith(g, "closing", "final")
               [] registration = "LimitReached" -> GoWith(g, "closing", "retryable")
               [] OTHER -> Go(g, "answering")
          /\ seen' = IF accepted THEN seen \cup {request.id} ELSE seen
          /\ reads' = IF accepted /\ ReadsRoom(request)
                      THEN [reads EXCEPT ![request.id] = @ + 1] ELSE reads
  /\ OwnStep /\ UNCHANGED <<queue, service>>

\* The answer is written; it can be cut off, or too long for a frame.
Answer(g) ==
  /\ At(g, "answering")
  /\ \/ ~worker[g].cancelled /\ Go(g, "serving")
     \/ ~worker[g].cancelled /\ GoWith(g, "closing", "retryable")
     \/ worker[g].cancelled /\ GoWith(g, "closing", "final")
  /\ OwnStep /\ UNCHANGED <<queue, service, sessionVars>>

\* Fault: the dropped connection does not tell the service.
CloseSilently(g) ==
  /\ At(g, "closing")
  /\ Go(g, "ending")
  /\ OwnStep /\ UNCHANGED <<queue, service, sessionVars>>

\* The managed connection is dropped before the worker reports its end.
Close(g) ==
  /\ At(g, "closing")
  /\ Go(g, "ending")
  /\ service' = "Offline"
  /\ OwnStep /\ UNCHANGED <<queue, sessionVars>>

\* The retry timer fires, or the wait ends because it was cancelled.
Elapse(g) ==
  /\ At(g, "waiting")
  /\ GoWith(g, "ending", "elapsed")
  /\ OwnStep /\ UNCHANGED <<queue, service, sessionVars>>

EndWorker(g) ==
  /\ At(g, "ending")
  /\ Go(g, IF worker[g].cancelled THEN "done" ELSE "sending")
  /\ OwnStep /\ UNCHANGED <<queue, service, sessionVars>>

\* Fault: a timer reports its end like a connection.
TimerReportsLoss(w) == IF w.connected THEN "UnexpectedDisconnect" ELSE "ConnectionFailed"

TerminalKind(w) ==
  CASE w.code = "elapsed" -> "RetryElapsed"
    [] w.code # "elapsed" /\ w.connected -> "UnexpectedDisconnect"
    [] OTHER -> "ConnectionFailed"

Send(g) ==
  LET w == worker[g]
      code == IF w.code = "elapsed" THEN "none" ELSE w.code
  IN /\ At(g, "sending")
     /\ Go(g, "done")
     /\ queue' = Append(queue, [gen |-> g, kind |-> TerminalKind(w), code |-> code])
     /\ OwnStep /\ UNCHANGED <<service, sessionVars>>

WorkerStep(g) ==
  \/ Load(g) \/ Link(g) \/ Register(g) \/ ReportConnected(g)
  \/ ReadFails(g) \/ ReadRequest(g) \/ Answer(g) \/ Close(g)
  \/ Elapse(g) \/ EndWorker(g) \/ Send(g)

-----------------------------------------------------------------------------
(* The event pump.                                                         *)

Hold(at, event) == pump' = [at |-> at, event |-> event]

PumpRests == Hold(IF pumpStop THEN "ended" ELSE "waiting", NoEvent)

\* An event of a task that is not the current one is dropped; a terminal event
\* removes the current task and joins it first.
TakeEvent ==
  /\ pump.at = "waiting" /\ queue # <<>>
  /\ queue' = Tail(queue)
  /\ LET event == Head(queue)
     IN CASE event.gen # task -> UNCHANGED <<task, worker, pump>>
          [] event.gen = task /\ event.kind = "Connected" ->
               Hold("applying", event) /\ UNCHANGED <<task, worker>>
          [] OTHER -> Hold("joining", event) /\ Remove(event.gen)
  /\ UNCHANGED <<status, callerVars, service, sessionVars>>

JoinEnded ==
  /\ pump.at = "joining"
  /\ Join(pump.event.gen)
  /\ Hold("applying", pump.event)
  /\ UNCHANGED <<status, task, queue, callerVars, service, sessionVars>>

AccountsUnlocked == caller # "stopping"

\* The account is gone, or its phase does not allow the event.
ApplyRefused ==
  /\ pump.at = "applying" /\ AccountsUnlocked
  /\ status.phase # ExpectedPhase(pump.event.kind)
  /\ PumpRests
  /\ UNCHANGED <<status, task, worker, queue, callerVars, service, sessionVars>>

\* Fault: a task that could not be started leaves the account waiting for it.
KeepWaiting(after) == after

\* The status after the executor refused the lifecycle's action.
Failed(after) == RuntimeFailed(after)

ApplyEvent ==
  /\ pump.at = "applying" /\ AccountsUnlocked
  /\ status.phase = ExpectedPhase(pump.event.kind)
  /\ LET after == AfterEvent(status, pump.event.kind, pump.event.code)
         pc == IF after.phase = "RetryWaiting" THEN "waiting" ELSE "load"
     IN IF after.phase \in {"RetryWaiting", "Connecting"}
        THEN \/ Spawn(pc) /\ status' = after
             \/ SpawnFails /\ status' = Failed(after)
        ELSE status' = after /\ UNCHANGED <<task, worker>>
  /\ PumpRests
  /\ UNCHANGED <<queue, callerVars, service, sessionVars>>

\* Fault: the pump waits for the next event without a timeout.
PumpBlocks == FALSE /\ UNCHANGED vars

PumpEnds ==
  /\ pump.at = "waiting" /\ queue = <<>> /\ pumpStop
  /\ Hold("ended", NoEvent)
  /\ UNCHANGED <<status, task, worker, queue, callerVars, service, sessionVars>>

PumpStep == TakeEvent \/ JoinEnded \/ ApplyRefused \/ ApplyEvent \/ PumpEnds

-----------------------------------------------------------------------------
(* The operations of the orchestrator, called by one thread.                 *)

Start ==
  /\ caller = "idle" /\ MayStart(status)
  /\ Cardinality(Unused) >= 2   \* bound: one is left for the pump
  /\ \/ Spawn("load") /\ status' = Started
     \/ SpawnFails /\ status' = Failed(Started)
  /\ UNCHANGED <<queue, pump, callerVars, service, sessionVars>>

StopNow ==
  /\ caller = "idle"
  /\ status.phase # "Offline"
  /\ ~StopEndsTask(status) \/ task = NoTask
  /\ status' = NewLifecycle
  /\ UNCHANGED <<task, worker, queue, pump, callerVars, service, sessionVars>>

\* The executor joins the task while the orchestrator holds its accounts.
Stop ==
  /\ caller = "idle"
  /\ StopEndsTask(status) /\ task # NoTask
  /\ Remove(task)
  /\ caller' = "stopping" /\ joining' = task
  /\ UNCHANGED <<status, queue, pump, pumpStop, service, sessionVars>>

StopJoined ==
  /\ caller = "stopping"
  /\ Join(joining)
  /\ status' = NewLifecycle
  /\ caller' = "idle" /\ joining' = NoTask
  /\ UNCHANGED <<task, queue, pump, pumpStop, service, sessionVars>>

Shutdown ==
  /\ caller = "idle"
  /\ pumpStop' = TRUE
  /\ caller' = "endPump"
  /\ UNCHANGED <<status, task, worker, queue, pump, joining, service, sessionVars>>

\* Fault: the tasks are ended while the pump can still start one.
EndTasksEarly ==
  /\ caller = "endPump"
  /\ caller' = "endTasks" /\ joining' = task
  /\ IF task = NoTask THEN UNCHANGED <<task, worker>> ELSE Remove(task)
  /\ UNCHANGED <<status, queue, pump, pumpStop, service, sessionVars>>

\* The pump was joined: the tasks are taken out and cancelled.
EndTasks ==
  /\ caller = "endPump" /\ pump.at = "ended"
  /\ caller' = "endTasks" /\ joining' = task
  /\ IF task = NoTask THEN UNCHANGED <<task, worker>> ELSE Remove(task)
  /\ UNCHANGED <<status, queue, pump, pumpStop, service, sessionVars>>

CloseRuntime ==
  /\ caller = "endTasks"
  /\ IF joining = NoTask THEN UNCHANGED worker ELSE Join(joining)
  /\ status' = NewLifecycle
  /\ caller' = "closed" /\ joining' = NoTask
  /\ UNCHANGED <<task, queue, pump, pumpStop, service, sessionVars>>

\* The program is started again.
Launch ==
  /\ caller = "closed"
  /\ status' = NewProcess.status /\ task' = NewProcess.task
  /\ worker' = NewProcess.worker /\ queue' = NewProcess.queue
  /\ pump' = NewProcess.pump /\ pumpStop' = NewProcess.pumpStop
  /\ caller' = NewProcess.caller /\ joining' = NewProcess.joining
  /\ service' = NewProcess.service
  /\ seen' = NewProcess.seen /\ reads' = NewProcess.reads

\* get_relay_status while the credential store cannot be asked.
PollFails ==
  /\ caller # "closed"
  /\ service' = "Error"
  /\ UNCHANGED <<status, task, worker, queue, pump, callerVars, sessionVars>>

CallerStep == StopJoined \/ EndTasks \/ CloseRuntime

Next ==
  \/ \E g \in Generations : WorkerStep(g)
  \/ PumpStep \/ CallerStep
  \/ Start \/ StopNow \/ Stop \/ Shutdown \/ Launch \/ PollFails

Spec == Init /\ [][Next]_vars

\* Threads keep running, every network operation has a timeout (PRODUCT_IO_
\* TIMEOUT), and a timer elapses.  Nobody has to start, stop or shut down.
FairSpec ==
  /\ Spec
  /\ \A g \in Generations : WF_vars(WorkerStep(g))
  /\ WF_vars(PumpStep)
  /\ WF_vars(CallerStep)

-----------------------------------------------------------------------------
(* Two connections of the account never live at once, over restarts, retries  *)
(* and stale events.                                                        *)
OneConnection ==
  \A g, h \in Generations :
    worker[g].pc \in LinkSteps /\ worker[h].pc \in LinkSteps => g = h

\* The service calls the account busy only while a worker really holds or makes
\* the connection: a later start is never refused as already active.
ServiceFollowsLink ==
  /\ service = "Connected" => \E g \in Generations : worker[g].pc \in LinkSteps
  /\ service = "Connecting" => \E g \in Generations : worker[g].pc = "linking"

\* A request ID of one connection reads the Room at most once.
ReadsOnce == \A id \in RequestIds : reads[id] <= 1

\* A shutdown that returned leaves no thread, no task and no connection.
ShutdownLeavesNothing ==
  caller = "closed" =>
    /\ task = NoTask /\ pump.at = "ended"
    /\ \A g \in Generations : worker[g].pc = "free"

\* A started connection attempt is decided.
AttemptsEnd == status.phase = "Connecting" ~> status.phase # "Connecting"

\* A pause before a retry ends.
RetriesHappen == status.phase = "RetryWaiting" ~> status.phase # "RetryWaiting"

\* stop() and shutdown() return: neither waits for a thread that waits for it.
CallerReturns == caller # "idle" ~> caller \in {"idle", "closed"}

\* ADR 0006: an event that arrives after a stop or a new task is dropped.
StaleEventsDropped ==
  [][pump.at = "applying" /\ status' # status /\ AccountsUnlocked
     /\ caller' = caller /\ pump' # pump
       => task \in {NoTask, pump.event.gen}]_vars
=============================================================================
