-------------------------- MODULE RelayRuntime_proofs --------------------------
(***************************************************************************)
(* Theorems about the Relay runtime for any number of generations, request   *)
(* IDs and retries.  They rest on one accounting of the threads: a worker that *)
(* is a thread is the task of the owner, or the one the caller joins, or the   *)
(* one the pump joins, and only the first two can still be running.           *)
(***************************************************************************)
EXTENDS RelayRuntime, TLAPS

-----------------------------------------------------------------------------
(* The inductive invariant.                                                 *)

\* A request ID that read the Room on the current link is registered on it.
ReadsAreSeen == \A id \in RequestIds : reads[id] <= 1 /\ (reads[id] = 1 => id \in seen)

\* Every thread has somebody who will join it.
ThreadsAreHeld ==
  \A g \in Generations :
    worker[g].pc # "free" =>
      \/ g = task
      \/ g = joining
      \/ pump.at = "joining" /\ g = pump.event.gen

\* A worker that reported its end is over, also when its event is still in the
\* queue or in the hands of the pump.
EndedAreDone ==
  /\ \A i \in 1..Len(queue) :
       queue[i].kind # "Connected" => worker[queue[i].gen].pc \in {"done", "free"}
  /\ pump.at = "joining" => worker[pump.event.gen].pc \in {"done", "free"}

\* While the caller ends a task there is no other one, and no pump to start one
\* once the runtime shuts down.
CallerOwns ==
  /\ joining # NoTask => caller \in {"stopping", "endTasks"}
  /\ caller = "stopping" => joining # NoTask
  /\ caller \in {"stopping", "endTasks", "closed"} => task = NoTask
  /\ caller \in {"endTasks", "closed"} => pump.at = "ended"

\* The pump has an event of some worker while it works.
PumpHolds == pump.at \in {"joining", "applying"} => pump.event \in Events

RuntimeInv ==
  /\ TypeOK
  /\ ReadsAreSeen
  /\ ThreadsAreHeld
  /\ EndedAreDone
  /\ CallerOwns
  /\ PumpHolds
  /\ ShutdownLeavesNothing

-----------------------------------------------------------------------------
(* Types.                                                                   *)

Workers == [pc : WorkerSteps, cancelled : BOOLEAN, connected : BOOLEAN,
            code : Codes \cup {"none", "elapsed"}]

\* What the lifecycle makes of an accepted event is a status again.
LEMMA AfterEventType ==
  ASSUME NEW before \in Statuses, NEW event \in Events
  PROVE  /\ AfterEvent(before, event.kind, event.code) \in Statuses
         /\ RuntimeFailed(AfterEvent(before, event.kind, event.code)) \in Statuses
<1>1. 0 \in 0..MaxRetries
  BY RetryConstant
<1>2. AfterLoss(before, event.code) \in Statuses
  <2>1. CASE event.code = "retryable" /\ before.attempt < MaxRetries
    <3>1. before.attempt + 1 \in 0..MaxRetries
      BY <2>1, RetryConstant DEF Statuses
    <3>. QED
      BY <2>1, <3>1 DEF AfterLoss, Statuses, Phases
  <2>2. CASE ~(event.code = "retryable" /\ before.attempt < MaxRetries)
    BY <2>2 DEF AfterLoss, Statuses, Phases
  <2>. QED
    BY <2>1, <2>2
<1>3. AfterEvent(before, event.kind, event.code) \in Statuses
  <2>1. CASE event.kind = "Connected"
    BY <1>1, <2>1 DEF AfterEvent, Statuses, Phases
  <2>2. CASE event.kind = "RetryElapsed"
    BY <2>2 DEF AfterEvent, Statuses, Phases
  <2>3. CASE event.kind \notin {"Connected", "RetryElapsed"}
    BY <1>2, <2>3 DEF AfterEvent
  <2>. QED
    BY <2>1, <2>2, <2>3
<1>. QED
  BY <1>3 DEF RuntimeFailed, Statuses, Phases

\* A task that is spawned gets a number nothing refers to.
LEMMA SpawnedType ==
  ASSUME TypeOK, NEW pc \in {"load", "waiting"}, Spawn(pc)
  PROVE  /\ task' \in Generations /\ task = NoTask
         /\ worker' = [worker EXCEPT ![task'] = [Free EXCEPT !.pc = pc]]
         /\ worker' \in [Generations -> Workers]
         /\ worker[task'].pc = "free" /\ pump.event.gen # task'
         /\ \A i \in 1..Len(queue) : queue[i].gen # task'
<1>1. NextGeneration \in Unused
  BY DEF Spawn, NextGeneration
<1>2. [Free EXCEPT !.pc = pc] \in Workers
  BY DEF Free, Workers, WorkerSteps, Codes
<1>. QED
  BY <1>1, <1>2 DEF Spawn, Unused, InUse, TypeOK, Workers

\* What a new process starts from has its types.
LEMMA NewProcessType ==
  /\ NewLifecycle \in Statuses
  /\ [g \in Generations |-> Free] \in [Generations -> Workers]
  /\ <<>> \in Seq(Events)
  /\ [at |-> "waiting", event |-> NoEvent]
       \in [at : {"waiting", "joining", "applying", "ended"}, event : Events \cup {NoEvent}]
  /\ [id \in RequestIds |-> 0] \in [RequestIds -> 0..2]
<1>1. NewLifecycle \in Statuses
  BY RetryConstant DEF NewLifecycle, Statuses, Phases
<1>2. Free \in Workers
  BY DEF Free, Workers, WorkerSteps, Codes
<1>3. <<>> \in Seq(Events)
  OBVIOUS
<1>4. [at |-> "waiting", event |-> NoEvent]
        \in [at : {"waiting", "joining", "applying", "ended"}, event : Events \cup {NoEvent}]
  OBVIOUS
<1>5. [id \in RequestIds |-> 0] \in [RequestIds -> 0..2]
  OBVIOUS
<1>. QED
  BY <1>1, <1>2, <1>3, <1>4, <1>5

\* Replacing one entry of the table of workers.
LEMMA WorkerReplaced ==
  ASSUME TypeOK, NEW g, NEW w \in Workers, worker' = [worker EXCEPT ![g] = w]
  PROVE  /\ worker' \in [Generations -> Workers]
         /\ g \in Generations => worker'[g] = w
         /\ \A h \in Generations : h # g => worker'[h] = worker[h]
BY DEF TypeOK, Workers

\* A worker goes to another step, with the code it ends with, if any.
LEMMA WorkerGoes ==
  ASSUME TypeOK, NEW g \in Generations, NEW to \in WorkerSteps,
         \/ Go(g, to)
         \/ \E code \in Codes \cup {"none", "elapsed"} : GoWith(g, to, code)
  PROVE  /\ worker' \in [Generations -> Workers]
         /\ worker'[g].pc = to
         /\ \A h \in Generations : h # g => worker'[h] = worker[h]
<1>1. worker[g] \in Workers
  BY DEF TypeOK, Workers
<1>2. CASE Go(g, to)
  <2>. DEFINE w == [worker[g] EXCEPT !.pc = to]
  <2>1. w \in Workers /\ w.pc = to
    BY <1>1 DEF Workers
  <2>2. worker' = [worker EXCEPT ![g] = w]
    BY <1>2 DEF Go
  <2>. HIDE DEF w
  <2>. QED
    BY <2>1, <2>2, WorkerReplaced
<1>3. ASSUME NEW code \in Codes \cup {"none", "elapsed"}, GoWith(g, to, code)
      PROVE  /\ worker' \in [Generations -> Workers]
             /\ worker'[g].pc = to
             /\ \A h \in Generations : h # g => worker'[h] = worker[h]
  <2>. DEFINE w == [worker[g] EXCEPT !.pc = to, !.code = code]
  <2>1. w \in Workers /\ w.pc = to
    BY <1>1 DEF Workers
  <2>2. worker' = [worker EXCEPT ![g] = w]
    BY <1>3 DEF GoWith, TypeOK
  <2>. HIDE DEF w
  <2>. QED
    BY <2>1, <2>2, WorkerReplaced
<1>. QED
  BY <1>2, <1>3

\* A worker is told to end: it stays where it is.
LEMMA WorkerCancelled ==
  ASSUME TypeOK, NEW g \in Generations, worker' = Cancelled(g)
  PROVE  /\ worker' \in [Generations -> Workers]
         /\ \A h \in Generations : worker'[h].pc = worker[h].pc
<1>. DEFINE w == [worker[g] EXCEPT !.cancelled = TRUE]
<1>1. w \in Workers /\ w.pc = worker[g].pc
  BY DEF TypeOK, Workers
<1>2. worker' = [worker EXCEPT ![g] = w]
  BY DEF Cancelled
<1>. HIDE DEF w
<1>3. worker'[g].pc = worker[g].pc /\ \A h \in Generations : h # g => worker'[h] = worker[h]
  BY <1>1, <1>2, WorkerReplaced
<1>. QED
  BY <1>1, <1>2, <1>3, WorkerReplaced

\* A thread that ended is joined.
LEMMA WorkerJoined ==
  ASSUME TypeOK, NEW g \in Generations, Join(g)
  PROVE  /\ worker' \in [Generations -> Workers]
         /\ worker[g].pc = "done" /\ worker'[g].pc = "free"
         /\ \A h \in Generations : h # g => worker'[h] = worker[h]
<1>1. Free \in Workers /\ Free.pc = "free"
  BY DEF Free, Workers, WorkerSteps, Codes
<1>. QED
  BY <1>1, WorkerReplaced DEF Join

\* What is queued are events of workers.
LEMMA QueuedEvents ==
  ASSUME TypeOK
  PROVE  \A i \in 1..Len(queue) : queue[i] \in Events /\ queue[i].gen \in Generations
<1>1. \A i \in 1..Len(queue) : queue[i] \in Events
  BY DEF TypeOK
<1>. QED
  BY <1>1 DEF Events

\* A link that fails reports one of the codes.
LEMMA LinkCodes == \A result \in LinkResults : result = "linked" \/ result \in Codes
BY DEF LinkResults, LinkResult, Codes

\* What a worker's step leaves alone, and what it may say about its end.
LEMMA WorkerMoves ==
  ASSUME TypeOK, NEW g \in Generations, WorkerStep(g)
  PROVE  /\ OwnStep
         /\ worker[g].pc \notin {"free", "done"}
         /\ worker' \in [Generations -> Workers]
         /\ worker'[g].pc # "free"
         /\ \A h \in Generations \ {g} : worker'[h] = worker[h]
         /\ \/ queue' = queue
            \/ \E event \in Events :
                 /\ queue' = Append(queue, event) /\ event.gen = g
                 /\ event.kind = "Connected" \/ worker'[g].pc = "done"
<1>. DEFINE Moved == /\ worker' \in [Generations -> Workers]
                     /\ worker'[g].pc # "free"
                     /\ \A h \in Generations \ {g} : worker'[h] = worker[h]
            Alive == worker[g].pc \notin {"free", "done"}
<1>1. ASSUME NEW to \in WorkerSteps \ {"free"}, Go(g, to)
      PROVE  Moved
  BY <1>1, WorkerGoes
<1>2. ASSUME NEW to \in WorkerSteps \ {"free"},
             NEW code \in Codes \cup {"none", "elapsed"}, GoWith(g, to, code)
      PROVE  Moved
  BY <1>2, WorkerGoes
<1>. HIDE DEF Moved
<1>. USE DEF At
<1>3. CASE Load(g)
  <2>1. Moved
    BY <1>1, <1>2, <1>3 DEF Load, WorkerSteps, Codes
  <2>. QED
    BY <1>3, <2>1 DEF Load, Moved
<1>4. CASE Link(g)
  <2>1. Moved
    BY <1>1, <1>2, <1>4, LinkCodes DEF Link, WorkerSteps
  <2>. QED
    BY <1>4, <2>1 DEF Link, Moved
<1>5. CASE Register(g)
  <2>1. Moved
    BY <1>1, <1>5 DEF Register, WorkerSteps
  <2>. QED
    BY <1>5, <2>1 DEF Register, Moved
<1>6. CASE ReadFails(g)
  <2>1. Moved
    BY <1>2, <1>6 DEF ReadFails, FrameCode, WorkerSteps, Codes
  <2>. QED
    BY <1>6, <2>1 DEF ReadFails, Moved
<1>7. CASE ReadRequest(g)
  <2>1. Moved
    BY <1>1, <1>2, <1>7 DEF ReadRequest, WorkerSteps, Codes
  <2>. QED
    BY <1>7, <2>1 DEF ReadRequest, Moved
<1>8. CASE Answer(g)
  <2>1. Moved
    BY <1>1, <1>2, <1>8 DEF Answer, WorkerSteps, Codes
  <2>. QED
    BY <1>8, <2>1 DEF Answer, Moved
<1>9. CASE Close(g) \/ Elapse(g) \/ EndWorker(g)
  <2>1. Moved
    BY <1>1, <1>2, <1>9 DEF Close, Elapse, EndWorker, WorkerSteps
  <2>. QED
    BY <1>9, <2>1 DEF Close, Elapse, EndWorker, Moved
<1>10. CASE ReportConnected(g)
  <2>. DEFINE w == [worker[g] EXCEPT !.pc = "serving", !.connected = TRUE]
              event == [gen |-> g, kind |-> "Connected", code |-> "none"]
  <2>1. w \in Workers /\ w.pc = "serving"
    BY DEF TypeOK, Workers, WorkerSteps
  <2>2. worker' = [worker EXCEPT ![g] = w]
    BY <1>10 DEF ReportConnected, TypeOK
  <2>. HIDE DEF w
  <2>3. Moved
    BY <2>1, <2>2, WorkerReplaced DEF Moved
  <2>4. event \in Events /\ event.gen = g /\ event.kind = "Connected"
    BY DEF Events, EventKinds
  <2>5. OwnStep /\ Alive /\ queue' = Append(queue, event)
    BY <1>10 DEF ReportConnected
  <2>. HIDE DEF event
  <2>. QED
    BY <2>3, <2>4, <2>5 DEF Moved
<1>11. CASE Send(g)
  <2>. DEFINE code == IF worker[g].code = "elapsed" THEN "none" ELSE worker[g].code
              event == [gen |-> g, kind |-> TerminalKind(worker[g]), code |-> code]
  <2>1. Moved /\ worker'[g].pc = "done"
    <3>1. Go(g, "done") /\ "done" \in WorkerSteps
      BY <1>11 DEF Send, WorkerSteps
    <3>. QED
      BY <1>1, <3>1, WorkerGoes
  <2>2. event \in Events /\ event.gen = g
    BY DEF Events, EventKinds, TerminalKind, TypeOK
  <2>3. OwnStep /\ Alive /\ queue' = Append(queue, event)
    BY <1>11 DEF Send
  <2>. HIDE DEF event
  <2>. QED
    BY <2>1, <2>2, <2>3 DEF Moved
<1>. QED
  BY <1>3, <1>4, <1>5, <1>6, <1>7, <1>8, <1>9, <1>10, <1>11 DEF WorkerStep

\* What a worker's step does to the session of the link: a request that reads
\* the Room is one that was not registered before.
LEMMA WorkerSession ==
  ASSUME TypeOK, ReadsAreSeen, NEW g \in Generations, WorkerStep(g)
  PROVE  /\ service' \in {"Offline", "Connecting", "Connected", "Error"}
         /\ seen' \subseteq RequestIds
         /\ reads' \in [RequestIds -> 0..2]
         /\ ReadsAreSeen'
<1>. USE DEF TypeOK
<1>1. CASE ReadRequest(g)
  <2>1. PICK request \in Requests(RequestIds) :
          LET accepted == ~worker[g].cancelled
                          /\ Registration(seen, request.id) = "Accepted"
          IN /\ seen' = IF accepted THEN seen \cup {request.id} ELSE seen
             /\ reads' = IF accepted /\ ReadsRoom(request)
                         THEN [reads EXCEPT ![request.id] = @ + 1] ELSE reads
    BY <1>1 DEF ReadRequest
  <2>2. request.id \in RequestIds
    BY DEF Requests
  <2>3. CASE Registration(seen, request.id) = "Accepted"
    <3>1. request.id \notin seen
      BY <2>3 DEF Registration
    <3>2. reads[request.id] = 0
      BY <2>2, <3>1 DEF ReadsAreSeen
    <3>3. \/ reads' = reads
          \/ /\ reads' = [reads EXCEPT ![request.id] = 1]
             /\ seen' = seen \cup {request.id}
      BY <2>1, <3>2
    <3>4. seen \subseteq seen' /\ seen' \subseteq RequestIds
      BY <2>1, <2>2
    <3>. QED
      BY <1>1, <2>2, <3>3, <3>4 DEF ReadRequest, ReadsAreSeen
  <2>4. CASE Registration(seen, request.id) # "Accepted"
    BY <1>1, <2>1, <2>4 DEF ReadRequest, ReadsAreSeen
  <2>. QED
    BY <2>3, <2>4
<1>2. CASE Link(g)
  BY <1>2 DEF Link, ReadsAreSeen, sessionVars
<1>3. CASE \/ Load(g) \/ Register(g) \/ ReportConnected(g) \/ ReadFails(g)
           \/ Answer(g) \/ Close(g) \/ Elapse(g) \/ EndWorker(g) \/ Send(g)
  BY <1>3 DEF Load, Register, ReportConnected, ReadFails, Answer, Close, Elapse,
     EndWorker, Send, ReadsAreSeen, sessionVars
<1>. QED
  BY <1>1, <1>2, <1>3 DEF WorkerStep

-----------------------------------------------------------------------------
(* The accounting of the threads, step by step.                              *)

\* Every step of a worker keeps the invariant: what it may add to the queue is
\* its own, and terminal only when it is over.
LEMMA WorkerKeeps ==
  ASSUME RuntimeInv, NEW g \in Generations, WorkerStep(g)
  PROVE  RuntimeInv'
<1>. USE DEF RuntimeInv
<1>1. /\ OwnStep
      /\ worker[g].pc \notin {"free", "done"}
      /\ worker' \in [Generations -> Workers]
      /\ worker'[g].pc # "free"
      /\ \A h \in Generations \ {g} : worker'[h] = worker[h]
      /\ \/ queue' = queue
         \/ \E event \in Events :
              /\ queue' = Append(queue, event) /\ event.gen = g
              /\ event.kind = "Connected" \/ worker'[g].pc = "done"
  BY WorkerMoves
<1>2. /\ service' \in {"Offline", "Connecting", "Connected", "Error"}
      /\ seen' \subseteq RequestIds
      /\ reads' \in [RequestIds -> 0..2]
      /\ ReadsAreSeen'
  BY WorkerSession
<1>3. UNCHANGED <<status, task, pump, pumpStop, caller, joining>>
  BY <1>1 DEF OwnStep, callerVars
<1>4. queue' \in Seq(Events)
  <2>1. queue \in Seq(Events)
    BY DEF TypeOK
  <2>2. ASSUME NEW event \in Events, queue' = Append(queue, event)
        PROVE  queue' \in Seq(Events)
    BY <2>1, <2>2
  <2>. QED
    BY <1>1, <2>1, <2>2
<1>5. TypeOK'
  BY <1>1, <1>2, <1>3, <1>4 DEF TypeOK, Workers
<1>6. EndedAreDone'
  <2>1. ASSUME NEW i \in 1..Len(queue'), queue'[i].kind # "Connected"
        PROVE  worker'[queue'[i].gen].pc \in {"done", "free"}
    <3>1. CASE i \in 1..Len(queue) /\ queue'[i] = queue[i]
      <4>1. queue[i].gen \in Generations
        BY <3>1, QueuedEvents
      <4>2. worker[queue[i].gen].pc \in {"done", "free"}
        BY <2>1, <3>1 DEF EndedAreDone
      <4>. QED
        BY <1>1, <3>1, <4>1, <4>2
    <3>2. CASE queue'[i].gen = g /\ (queue'[i].kind = "Connected" \/ worker'[g].pc = "done")
      BY <2>1, <3>2
    <3>3. CASE queue' = queue
      BY <2>1, <3>1, <3>3
    <3>4. ASSUME NEW event \in Events, queue' = Append(queue, event)
          PROVE  \/ i \in 1..Len(queue) /\ queue'[i] = queue[i]
                 \/ queue'[i] = event
      BY <2>1, <3>4 DEF TypeOK
    <3>. QED
      BY <1>1, <3>1, <3>2, <3>3, <3>4
  <2>2. pump'.at = "joining" => worker'[pump'.event.gen].pc \in {"done", "free"}
    <3>. SUFFICES ASSUME pump.at = "joining"
                  PROVE  worker'[pump.event.gen].pc \in {"done", "free"}
      BY <1>3
    <3>1. pump.event.gen \in Generations /\ worker[pump.event.gen].pc \in {"done", "free"}
      BY DEF PumpHolds, EndedAreDone, Events
    <3>. QED
      BY <1>1, <3>1
  <2>. QED
    BY <2>1, <2>2 DEF EndedAreDone
<1>7. ThreadsAreHeld'
  BY <1>1, <1>3 DEF ThreadsAreHeld
<1>8. CallerOwns' /\ PumpHolds'
  BY <1>3 DEF CallerOwns, PumpHolds
<1>9. ShutdownLeavesNothing'
  BY <1>1, <1>3 DEF ShutdownLeavesNothing
<1>. QED
  BY <1>2, <1>5, <1>6, <1>7, <1>8, <1>9

\* A task that is spawned while no other is there and nobody ends one.
LEMMA SpawnKeeps ==
  ASSUME RuntimeInv, NEW pc \in {"load", "waiting"}, Spawn(pc),
         caller \notin {"stopping", "endTasks", "closed"},
         UNCHANGED <<queue, pump, caller, joining>>
  PROVE  ThreadsAreHeld' /\ EndedAreDone' /\ CallerOwns'
<1>. USE DEF RuntimeInv
<1>1. /\ task' \in Generations /\ task = NoTask
      /\ worker' = [worker EXCEPT ![task'] = [Free EXCEPT !.pc = pc]]
      /\ pump.event.gen # task'
      /\ \A i \in 1..Len(queue) : queue[i].gen # task'
  BY SpawnedType
<1>2. \A h \in Generations : h # task' => worker'[h] = worker[h]
  BY <1>1 DEF TypeOK
<1>3. ThreadsAreHeld'
  BY <1>1, <1>2, RuntimeConstants DEF ThreadsAreHeld
<1>4. EndedAreDone'
  <2>1. \A i \in 1..Len(queue) : queue[i].gen \in Generations
    BY QueuedEvents
  <2>2. pump.at = "joining" => pump.event.gen \in Generations
    BY DEF PumpHolds, Events
  <2>. QED
    BY <1>1, <1>2, <2>1, <2>2 DEF EndedAreDone
<1>5. CallerOwns'
  BY DEF CallerOwns
<1>. QED
  BY <1>3, <1>4, <1>5

\* A step that leaves the threads, the queue and the pump alone.
LEMMA QuietKeeps ==
  ASSUME RuntimeInv, UNCHANGED <<task, worker, queue, pump, caller, joining>>
  PROVE  /\ ThreadsAreHeld' /\ EndedAreDone' /\ CallerOwns' /\ PumpHolds'
         /\ ShutdownLeavesNothing'
BY DEF RuntimeInv, ThreadsAreHeld, EndedAreDone, CallerOwns, PumpHolds,
   ShutdownLeavesNothing

\* The pump takes an event: a worker whose end it reports is already over.
LEMMA TakeEventKeeps ==
  ASSUME RuntimeInv, TakeEvent
  PROVE  RuntimeInv'
<1>. USE DEF RuntimeInv
<1>. DEFINE event == Head(queue)
<1>1. /\ queue # <<>> /\ queue' = Tail(queue) /\ pump.at = "waiting"
      /\ UNCHANGED <<status, pumpStop, caller, joining, service, seen, reads>>
  BY DEF TakeEvent, callerVars, sessionVars
<1>2. /\ event \in Events /\ event.gen \in Generations
      /\ event.kind # "Connected" => worker[event.gen].pc \in {"done", "free"}
  <2>1. queue \in Seq(Events) /\ Len(queue) >= 1
    BY <1>1 DEF TypeOK
  <2>2. event = queue[1] /\ 1 \in 1..Len(queue)
    BY <2>1
  <2>. QED
    BY <2>2, QueuedEvents DEF EndedAreDone
<1>3. queue' \in Seq(Events)
  BY <1>1 DEF TypeOK
<1>4. ASSUME NEW i \in 1..Len(queue')
      PROVE  /\ queue'[i].gen \in Generations
             /\ queue'[i].kind # "Connected" => worker[queue'[i].gen].pc \in {"done", "free"}
  <2>1. i + 1 \in 1..Len(queue) /\ queue'[i] = queue[i + 1]
    BY <1>1 DEF TypeOK
  <2>. QED
    BY <2>1, QueuedEvents DEF EndedAreDone
<1>5. caller \in {"endTasks", "closed"} => FALSE
  BY <1>1 DEF CallerOwns
<1>6. CASE UNCHANGED <<task, worker, pump>>
  BY <1>1, <1>3, <1>4, <1>6 DEF TypeOK, ReadsAreSeen, ThreadsAreHeld, EndedAreDone,
     CallerOwns, PumpHolds, ShutdownLeavesNothing
<1>7. CASE Hold("applying", event) /\ UNCHANGED <<task, worker>>
  BY <1>1, <1>2, <1>3, <1>4, <1>5, <1>7 DEF Hold, TypeOK, ReadsAreSeen,
     ThreadsAreHeld, EndedAreDone, CallerOwns, PumpHolds, ShutdownLeavesNothing
<1>8. CASE Hold("joining", event) /\ Remove(event.gen) /\ event.gen = task
           /\ event.kind # "Connected"
  <2>1. /\ task' = NoTask /\ worker' \in [Generations -> Workers]
        /\ \A h \in Generations : worker'[h].pc = worker[h].pc
    BY <1>2, <1>8, WorkerCancelled DEF Remove
  <2>2. pump' = [at |-> "joining", event |-> event]
    BY <1>8 DEF Hold
  <2>3. TypeOK'
    BY <1>1, <1>2, <1>3, <2>1, <2>2 DEF TypeOK, Workers
  <2>4. ThreadsAreHeld'
    BY <1>1, <1>8, <2>1, <2>2 DEF ThreadsAreHeld
  <2>5. EndedAreDone'
    BY <1>2, <1>4, <1>8, <2>1, <2>2 DEF EndedAreDone
  <2>6. CallerOwns' /\ PumpHolds' /\ ShutdownLeavesNothing' /\ ReadsAreSeen'
    BY <1>1, <1>2, <1>5, <2>1, <2>2
    DEF CallerOwns, PumpHolds, ShutdownLeavesNothing, ReadsAreSeen
  <2>. QED
    BY <2>3, <2>4, <2>5, <2>6
<1>. QED
  <2>1. \/ UNCHANGED <<task, worker, pump>>
        \/ Hold("applying", event) /\ UNCHANGED <<task, worker>>
        \/ /\ Hold("joining", event) /\ Remove(event.gen) /\ event.gen = task
           /\ event.kind # "Connected"
    BY DEF TakeEvent
  <2>. QED
    BY <2>1, <1>6, <1>7, <1>8

\* The pump joins the worker whose end it took.
LEMMA JoinEndedKeeps ==
  ASSUME RuntimeInv, JoinEnded
  PROVE  RuntimeInv'
<1>. USE DEF RuntimeInv
<1>. DEFINE g == pump.event.gen
<1>1. /\ pump.at = "joining" /\ pump' = [at |-> "applying", event |-> pump.event]
      /\ UNCHANGED <<status, task, queue, pumpStop, caller, joining, service, seen, reads>>
  BY DEF JoinEnded, Hold, callerVars, sessionVars
<1>2. pump.event \in Events /\ g \in Generations
  BY <1>1 DEF PumpHolds, Events
<1>3. /\ worker' \in [Generations -> Workers] /\ worker'[g].pc = "free"
      /\ \A h \in Generations : h # g => worker'[h] = worker[h]
  BY <1>2, WorkerJoined DEF JoinEnded
<1>4. TypeOK' /\ ReadsAreSeen'
  BY <1>1, <1>2, <1>3 DEF TypeOK, Workers, ReadsAreSeen
<1>5. ThreadsAreHeld'
  BY <1>1, <1>3 DEF ThreadsAreHeld
<1>6. EndedAreDone'
  BY <1>1, <1>3, QueuedEvents DEF EndedAreDone
<1>7. CallerOwns' /\ PumpHolds' /\ ShutdownLeavesNothing'
  BY <1>1, <1>2 DEF CallerOwns, PumpHolds, ShutdownLeavesNothing
<1>. QED
  BY <1>4, <1>5, <1>6, <1>7

\* A step that puts the event in the pump's hands down again, leaving the threads.
LEMMA RestKeeps ==
  ASSUME RuntimeInv, PumpRests \/ Hold("ended", NoEvent),
         caller \notin {"endTasks", "closed"},
         UNCHANGED <<task, worker, queue, caller, joining>>,
         pump.at # "joining"
  PROVE  /\ ThreadsAreHeld' /\ EndedAreDone' /\ CallerOwns' /\ PumpHolds'
         /\ ShutdownLeavesNothing'
BY DEF RuntimeInv, PumpRests, Hold, ThreadsAreHeld, EndedAreDone, CallerOwns,
   PumpHolds, ShutdownLeavesNothing

\* The pump's other steps: an event is applied or refused, or the pump ends.
LEMMA ApplyKeeps ==
  ASSUME RuntimeInv, ApplyRefused \/ ApplyEvent \/ PumpEnds
  PROVE  RuntimeInv'
<1>. USE DEF RuntimeInv
<1>1. /\ pump.at \in {"applying", "waiting"}
      /\ PumpRests \/ Hold("ended", NoEvent)
      /\ UNCHANGED <<queue, pumpStop, caller, joining, service, seen, reads>>
      /\ caller \notin {"endTasks", "closed"}
  BY DEF ApplyRefused, ApplyEvent, PumpEnds, CallerOwns, callerVars, sessionVars
<1>2. pump' \in [at : {"waiting", "ended"}, event : {NoEvent}]
  BY <1>1 DEF PumpRests, Hold
<1>3. CASE UNCHANGED <<task, worker>> /\ status' \in Statuses
  <2>1. TypeOK' /\ ReadsAreSeen'
    BY <1>1, <1>2, <1>3 DEF TypeOK, ReadsAreSeen
  <2>. QED
    BY <1>1, <1>3, <2>1, RestKeeps
<1>4. ASSUME NEW pc \in {"load", "waiting"}, Spawn(pc), status' \in Statuses,
             caller # "stopping"
      PROVE  RuntimeInv'
  <2>1. /\ task' \in Generations /\ task = NoTask
        /\ worker' = [worker EXCEPT ![task'] = [Free EXCEPT !.pc = pc]]
        /\ worker' \in [Generations -> Workers]
        /\ pump.event.gen # task'
        /\ \A i \in 1..Len(queue) : queue[i].gen # task'
    BY <1>4, SpawnedType
  <2>2. \A h \in Generations : h # task' => worker'[h] = worker[h]
    BY <2>1 DEF TypeOK
  <2>3. TypeOK' /\ ReadsAreSeen'
    BY <1>1, <1>2, <1>4, <2>1 DEF TypeOK, Workers, ReadsAreSeen
  <2>4. ThreadsAreHeld'
    BY <1>1, <2>1, <2>2, RuntimeConstants DEF ThreadsAreHeld
  <2>5. EndedAreDone'
    BY <1>1, <1>2, <2>1, <2>2, QueuedEvents DEF EndedAreDone
  <2>6. CallerOwns' /\ PumpHolds' /\ ShutdownLeavesNothing'
    BY <1>1, <1>2, <1>4 DEF CallerOwns, PumpHolds, ShutdownLeavesNothing
  <2>. QED
    BY <2>3, <2>4, <2>5, <2>6
<1>5. CASE ApplyRefused \/ PumpEnds
  BY <1>3, <1>5 DEF ApplyRefused, PumpEnds, TypeOK
<1>6. CASE ApplyEvent
  <2>. DEFINE after == AfterEvent(status, pump.event.kind, pump.event.code)
  <2>1. after \in Statuses /\ Failed(after) \in Statuses
    BY <1>6, AfterEventType DEF ApplyEvent, PumpHolds, Failed, TypeOK
  <2>2. caller # "stopping"
    BY <1>6 DEF ApplyEvent, AccountsUnlocked
  <2>3. \/ \E pc \in {"load", "waiting"} : Spawn(pc) /\ status' = after
        \/ UNCHANGED <<task, worker>> /\ status' \in {after, Failed(after)}
    BY <1>6 DEF ApplyEvent, SpawnFails
  <2>. QED
    BY <1>3, <1>4, <2>1, <2>2, <2>3
<1>. QED
  BY <1>5, <1>6

\* start(): a task, or an account that failed.
LEMMA StartKeeps ==
  ASSUME RuntimeInv, Start
  PROVE  RuntimeInv'
<1>. USE DEF RuntimeInv
<1>1. /\ caller = "idle"
      /\ UNCHANGED <<queue, pump, pumpStop, caller, joining, service, seen, reads>>
  BY DEF Start, callerVars, sessionVars
<1>2. status' \in Statuses
  BY RetryConstant DEF Start, Started, Failed, RuntimeFailed, Statuses, Phases
<1>3. CASE Spawn("load")
  <2>1. task' \in Generations /\ worker' \in [Generations -> Workers]
    BY <1>3, SpawnedType
  <2>2. TypeOK' /\ ReadsAreSeen'
    BY <1>1, <1>2, <2>1 DEF TypeOK, Workers, ReadsAreSeen
  <2>3. ThreadsAreHeld' /\ EndedAreDone' /\ CallerOwns'
    BY <1>1, <1>3, SpawnKeeps
  <2>4. PumpHolds' /\ ShutdownLeavesNothing'
    BY <1>1 DEF PumpHolds, ShutdownLeavesNothing
  <2>. QED
    BY <2>2, <2>3, <2>4
<1>4. CASE SpawnFails
  <2>1. TypeOK' /\ ReadsAreSeen'
    BY <1>1, <1>2, <1>4 DEF SpawnFails, TypeOK, ReadsAreSeen
  <2>. QED
    BY <1>1, <1>4, <2>1, QuietKeeps DEF SpawnFails
<1>. QED
  BY <1>3, <1>4 DEF Start

\* The entry is taken out to be joined by the caller: the task, if any, becomes
\* the one that is joined.
LEMMA EndKeeps ==
  ASSUME RuntimeInv, task # NoTask, Remove(task), joining' = task,
         joining = NoTask, caller # "closed",
         \/ caller' = "stopping"
         \/ caller' = "endTasks" /\ pump.at = "ended",
         UNCHANGED <<status, queue, pump, pumpStop, service, seen, reads>>
  PROVE  RuntimeInv'
<1>. USE DEF RuntimeInv
<1>1. /\ task' = NoTask /\ worker' \in [Generations -> Workers]
      /\ \A h \in Generations : worker'[h].pc = worker[h].pc
  BY WorkerCancelled DEF Remove, TypeOK
<1>2. TypeOK' /\ ReadsAreSeen'
  BY <1>1 DEF TypeOK, Workers, ReadsAreSeen
<1>3. ThreadsAreHeld'
  BY <1>1 DEF ThreadsAreHeld
<1>4. EndedAreDone'
  <2>1. pump.at = "joining" => pump.event.gen \in Generations
    BY DEF PumpHolds, Events
  <2>. QED
    BY <1>1, <2>1, QueuedEvents DEF EndedAreDone
<1>5. CallerOwns' /\ PumpHolds' /\ ShutdownLeavesNothing'
  BY <1>1 DEF CallerOwns, PumpHolds, ShutdownLeavesNothing
<1>. QED
  BY <1>2, <1>3, <1>4, <1>5

\* The caller joined the task it took out.
LEMMA JoinedKeeps ==
  ASSUME RuntimeInv, joining # NoTask, Join(joining), joining' = NoTask,
         \/ caller' = "idle"
         \/ caller' = "closed" /\ pump.at = "ended",
         caller \in {"stopping", "endTasks"},
         status' = NewLifecycle,
         UNCHANGED <<task, queue, pump, pumpStop, service, seen, reads>>
  PROVE  RuntimeInv'
<1>. USE DEF RuntimeInv
<1>1. /\ joining \in Generations /\ task = NoTask
      /\ worker' \in [Generations -> Workers] /\ worker'[joining].pc = "free"
      /\ \A h \in Generations : h # joining => worker'[h] = worker[h]
  BY WorkerJoined DEF TypeOK, CallerOwns
<1>2. NewLifecycle \in Statuses
  BY RetryConstant DEF NewLifecycle, Statuses, Phases
<1>3. TypeOK' /\ ReadsAreSeen'
  BY <1>1, <1>2 DEF TypeOK, Workers, ReadsAreSeen
<1>4. ThreadsAreHeld'
  BY <1>1 DEF ThreadsAreHeld
<1>5. EndedAreDone'
  <2>1. pump.at = "joining" => pump.event.gen \in Generations
    BY DEF PumpHolds, Events
  <2>. QED
    BY <1>1, <2>1, QueuedEvents DEF EndedAreDone
<1>6. CallerOwns' /\ PumpHolds'
  BY <1>1 DEF CallerOwns, PumpHolds
<1>7. ShutdownLeavesNothing'
  <2>. SUFFICES ASSUME caller' = "closed"
                PROVE  /\ task' = NoTask /\ pump'.at = "ended"
                       /\ \A g \in Generations : worker'[g].pc = "free"
    BY DEF ShutdownLeavesNothing
  <2>1. pump.at = "ended"
    OBVIOUS
  <2>2. \A g \in Generations : g # joining => worker[g].pc = "free"
    BY <1>1, <2>1, RuntimeConstants DEF ThreadsAreHeld
  <2>. QED
    BY <1>1, <2>1, <2>2
<1>. QED
  BY <1>3, <1>4, <1>5, <1>6, <1>7

\* Every operation of the orchestrator keeps the invariant.
LEMMA CallerKeeps ==
  ASSUME RuntimeInv, CallerStep \/ StopNow \/ Stop \/ Shutdown \/ Launch \/ PollFails
  PROVE  RuntimeInv'
<1>. USE DEF RuntimeInv
<1>1. NewLifecycle \in Statuses
  BY RetryConstant DEF NewLifecycle, Statuses, Phases
<1>2. CASE StopNow \/ PollFails
  <2>1. UNCHANGED <<task, worker, queue, pump, pumpStop, caller, joining, seen, reads>>
    BY <1>2 DEF StopNow, PollFails, callerVars, sessionVars
  <2>2. TypeOK' /\ ReadsAreSeen'
    BY <1>1, <1>2, <2>1 DEF StopNow, PollFails, TypeOK, ReadsAreSeen
  <2>. QED
    BY <2>1, <2>2, QuietKeeps
<1>3. CASE Stop
  <2>1. joining = NoTask
    BY <1>3 DEF Stop, CallerOwns
  <2>. QED
    BY <1>3, <2>1, EndKeeps DEF Stop, sessionVars
<1>4. CASE StopJoined
  <2>1. joining # NoTask
    BY <1>4 DEF StopJoined, CallerOwns
  <2>. QED
    BY <1>4, <2>1, JoinedKeeps DEF StopJoined, sessionVars
<1>5. CASE Shutdown
  <2>1. UNCHANGED <<status, task, worker, queue, pump, joining, service, seen, reads>>
    BY <1>5 DEF Shutdown, sessionVars
  <2>2. /\ caller = "idle" /\ caller' = "endPump" /\ pumpStop' = TRUE
    BY <1>5 DEF Shutdown
  <2>. QED
    BY <2>1, <2>2 DEF TypeOK, ReadsAreSeen, ThreadsAreHeld, EndedAreDone,
       CallerOwns, PumpHolds, ShutdownLeavesNothing
<1>6. CASE EndTasks
  <2>1. /\ caller = "endPump" /\ pump.at = "ended" /\ caller' = "endTasks"
        /\ joining' = task /\ joining = NoTask
        /\ UNCHANGED <<status, queue, pump, pumpStop, service, seen, reads>>
    BY <1>6 DEF EndTasks, CallerOwns, sessionVars
  <2>2. CASE task # NoTask
    BY <1>6, <2>1, <2>2, EndKeeps DEF EndTasks
  <2>3. CASE task = NoTask
    <3>1. UNCHANGED <<task, worker>>
      BY <1>6, <2>3 DEF EndTasks
    <3>. QED
      BY <2>1, <2>3, <3>1 DEF TypeOK, ReadsAreSeen, ThreadsAreHeld, EndedAreDone,
         CallerOwns, PumpHolds, ShutdownLeavesNothing
  <2>. QED
    BY <2>2, <2>3
<1>7. CASE CloseRuntime
  <2>1. /\ caller = "endTasks" /\ caller' = "closed" /\ joining' = NoTask
        /\ pump.at = "ended" /\ task = NoTask /\ status' = NewLifecycle
        /\ UNCHANGED <<task, queue, pump, pumpStop, service, seen, reads>>
    BY <1>7 DEF CloseRuntime, CallerOwns, sessionVars
  <2>2. CASE joining # NoTask
    BY <1>7, <2>1, <2>2, JoinedKeeps DEF CloseRuntime
  <2>3. CASE joining = NoTask
    <3>1. worker' = worker
      BY <1>7, <2>3 DEF CloseRuntime
    <3>2. \A g \in Generations : worker[g].pc = "free"
      BY <2>1, <2>3, RuntimeConstants DEF ThreadsAreHeld
    <3>. QED
      BY <1>1, <2>1, <3>1, <3>2 DEF TypeOK, ReadsAreSeen, ThreadsAreHeld,
         EndedAreDone, CallerOwns, PumpHolds, ShutdownLeavesNothing
  <2>. QED
    BY <2>2, <2>3
<1>8. CASE Launch
  <2>1. /\ status' = NewLifecycle /\ task' = NoTask /\ queue' = <<>>
        /\ worker' = [g \in Generations |-> Free]
        /\ pump' = [at |-> "waiting", event |-> NoEvent] /\ pumpStop' = FALSE
        /\ caller' = "idle" /\ joining' = NoTask /\ service' = "Offline"
        /\ seen' = {} /\ reads' = [id \in RequestIds |-> 0]
    BY <1>8 DEF Launch, NewProcess
  <2>2. worker' \in [Generations -> Workers]
    BY <2>1, NewProcessType
  <2>3. TypeOK'
    BY <2>1, <2>2, NewProcessType DEF TypeOK, Workers
  <2>. QED
    BY <2>1, <2>3 DEF ReadsAreSeen, ThreadsAreHeld, EndedAreDone, CallerOwns,
       PumpHolds, ShutdownLeavesNothing, Free
<1>. QED
  BY <1>2, <1>3, <1>4, <1>5, <1>6, <1>7, <1>8 DEF CallerStep

\* The invariant behind the theorems.
LEMMA RuntimeInvariant == Spec => []RuntimeInv
<1>1. Init => RuntimeInv
  <2>. SUFFICES ASSUME Init PROVE RuntimeInv
    OBVIOUS
  <2>1. /\ status = NewLifecycle /\ task = NoTask /\ queue = <<>>
        /\ worker = [g \in Generations |-> Free]
        /\ pump = [at |-> "waiting", event |-> NoEvent] /\ pumpStop = FALSE
        /\ caller = "idle" /\ joining = NoTask /\ service = "Offline"
        /\ seen = {} /\ reads = [id \in RequestIds |-> 0]
    BY DEF Init, NewProcess
  <2>2. worker \in [Generations -> Workers]
    BY <2>1, NewProcessType
  <2>3. TypeOK
    BY <2>1, <2>2, NewProcessType DEF TypeOK, Workers
  <2>. QED
    BY <2>1, <2>3 DEF RuntimeInv, ReadsAreSeen, ThreadsAreHeld, EndedAreDone,
       CallerOwns, PumpHolds, ShutdownLeavesNothing, Free
<1>2. RuntimeInv /\ [Next]_vars => RuntimeInv'
  <2>1. ASSUME RuntimeInv, UNCHANGED vars
        PROVE  RuntimeInv'
    BY <2>1 DEF vars, callerVars, sessionVars, RuntimeInv, TypeOK, ReadsAreSeen,
       ThreadsAreHeld, EndedAreDone, CallerOwns, PumpHolds, ShutdownLeavesNothing
  <2>. QED
    BY <2>1, WorkerKeeps, TakeEventKeeps, JoinEndedKeeps, ApplyKeeps, StartKeeps,
       CallerKeeps DEF Next, PumpStep
<1>. QED
  BY <1>1, <1>2, PTL DEF Spec

-----------------------------------------------------------------------------
\* Types of the runtime.
THEOREM RuntimeTypeCorrect == Spec => []TypeOK
<1>1. RuntimeInv => TypeOK
  BY DEF RuntimeInv
<1>. QED
  BY <1>1, RuntimeInvariant, PTL

\* Two connections of the account never live at once: every worker that is still
\* running is the task, or the one the caller ends, and these exclude each other.
THEOREM ConnectionsDoNotOverlap == Spec => []OneConnection
<1>1. RuntimeInv => OneConnection
  <2>. SUFFICES ASSUME RuntimeInv, NEW g \in Generations, NEW h \in Generations,
                       worker[g].pc \in LinkSteps, worker[h].pc \in LinkSteps
                PROVE  g = h
    BY DEF OneConnection
  <2>1. ASSUME NEW k \in Generations, worker[k].pc \in LinkSteps
        PROVE  k = task \/ k = joining
    BY <2>1 DEF RuntimeInv, ThreadsAreHeld, EndedAreDone, LinkSteps
  <2>2. task = NoTask \/ joining = NoTask
    BY DEF RuntimeInv, CallerOwns
  <2>. QED
    BY <2>1, <2>2, RuntimeConstants
<1>. QED
  BY <1>1, RuntimeInvariant, PTL

\* A request ID of one connection reads the Room at most once.
THEOREM RequestsReadOnce == Spec => []ReadsOnce
<1>1. RuntimeInv => ReadsOnce
  BY DEF RuntimeInv, ReadsAreSeen, ReadsOnce
<1>. QED
  BY <1>1, RuntimeInvariant, PTL

\* A shutdown that returned leaves no thread, no task and no connection.
THEOREM ShutdownIsComplete == Spec => []ShutdownLeavesNothing
<1>1. RuntimeInv => ShutdownLeavesNothing
  BY DEF RuntimeInv
<1>. QED
  BY <1>1, RuntimeInvariant, PTL
-----------------------------------------------------------------------------
(* The phase of the service.                                                *)

\* A worker that makes or holds the connection is not a free number and its
\* thread has not ended: spawning, cancelling and joining leave it in its step.
LinksStay ==
  \A g \in Generations :
    worker[g].pc \in LinkSteps \cup {"linking"} => worker'[g].pc = worker[g].pc

LEMMA LinksStayFollows ==
  ASSUME ServiceFollowsLink, LinksStay, service' \in {service, "Offline", "Error"}
  PROVE  ServiceFollowsLink'
BY DEF ServiceFollowsLink, LinksStay

LEMMA OthersLeaveLinks ==
  ASSUME TypeOK, PumpHolds, CallerOwns,
         \/ worker' = worker
         \/ \E pc \in {"load", "waiting"} : Spawn(pc)
         \/ \E g \in Generations : worker' = Cancelled(g) \/ Join(g)
  PROVE  LinksStay
<1>1. CASE worker' = worker
  BY <1>1 DEF LinksStay
<1>2. ASSUME NEW pc \in {"load", "waiting"}, Spawn(pc)
      PROVE  LinksStay
  <2>1. /\ task' \in Generations /\ worker[task'].pc = "free"
        /\ worker' = [worker EXCEPT ![task'] = [Free EXCEPT !.pc = pc]]
    BY <1>2, SpawnedType
  <2>2. \A h \in Generations : h # task' => worker'[h] = worker[h]
    BY <2>1 DEF TypeOK
  <2>. QED
    BY <2>1, <2>2 DEF LinksStay, LinkSteps
<1>3. ASSUME NEW g \in Generations, worker' = Cancelled(g)
      PROVE  LinksStay
  BY <1>3, WorkerCancelled DEF LinksStay
<1>4. ASSUME NEW g \in Generations, Join(g)
      PROVE  LinksStay
  <2>1. worker[g].pc = "done" /\ \A h \in Generations : h # g => worker'[h] = worker[h]
    BY <1>4, WorkerJoined
  <2>. QED
    BY <2>1 DEF LinksStay, LinkSteps
<1>. QED
  BY <1>1, <1>2, <1>3, <1>4

\* The service is told whenever a worker starts to connect, is connected, fails
\* or drops its connection; in between the worker keeps the connection.
LEMMA WorkerFollows ==
  ASSUME TypeOK, ServiceFollowsLink, NEW g \in Generations, WorkerStep(g)
  PROVE  ServiceFollowsLink'
<1>. USE DEF At
<1>1. \A h \in Generations \ {g} : worker'[h] = worker[h]
  BY WorkerMoves
<1>2. ASSUME NEW to \in WorkerSteps, Go(g, to)
      PROVE  worker'[g].pc = to
  BY <1>2, WorkerGoes
<1>3. ASSUME NEW to \in WorkerSteps, NEW code \in Codes \cup {"none", "elapsed"},
             GoWith(g, to, code)
      PROVE  worker'[g].pc = to
  BY <1>3, WorkerGoes
<1>4. CASE Load(g)
  <2>1. CASE service \in {"Connecting", "Connected"}
    <3>1. worker[g].pc = "load" /\ service' = service
      BY <1>4, <2>1 DEF Load
    <3>. QED
      BY <1>1, <3>1 DEF ServiceFollowsLink, LinkSteps
  <2>2. CASE service \notin {"Connecting", "Connected"}
    <3>1. Go(g, "linking") /\ service' = "Connecting" /\ "linking" \in WorkerSteps
      BY <1>4, <2>2 DEF Load, WorkerSteps
    <3>. QED
      BY <1>2, <3>1 DEF ServiceFollowsLink
  <2>. QED
    BY <2>1, <2>2
<1>5. CASE Link(g)
  <2>1. CASE Go(g, "linked") /\ service' = "Connected"
    <3>1. worker'[g].pc = "linked"
      BY <1>2, <2>1 DEF WorkerSteps
    <3>. QED
      BY <2>1, <3>1 DEF ServiceFollowsLink, LinkSteps
  <2>2. CASE service' = "Error"
    BY <2>2 DEF ServiceFollowsLink
  <2>. QED
    BY <1>5, <2>1, <2>2 DEF Link
<1>6. CASE Close(g)
  BY <1>6 DEF Close, ServiceFollowsLink
<1>7. CASE Elapse(g) \/ EndWorker(g) \/ Send(g)
  <2>1. worker[g].pc \in {"waiting", "ending", "sending"} /\ service' = service
    BY <1>7 DEF Elapse, EndWorker, Send
  <2>. QED
    BY <1>1, <2>1 DEF ServiceFollowsLink, LinkSteps
<1>8. CASE \/ Register(g) \/ ReportConnected(g) \/ ReadFails(g)
           \/ ReadRequest(g) \/ Answer(g)
  <2>1. worker[g].pc \in LinkSteps /\ service' = service
    BY <1>8 DEF Register, ReportConnected, ReadFails, ReadRequest, Answer, LinkSteps
  <2>2. worker'[g].pc \in LinkSteps
    <3>1. CASE Register(g)
      BY <1>2, <3>1 DEF Register, WorkerSteps, LinkSteps
    <3>2. CASE ReportConnected(g)
      BY <3>2 DEF ReportConnected, TypeOK, LinkSteps
    <3>3. CASE ReadFails(g)
      BY <1>3, <3>3 DEF ReadFails, FrameCode, WorkerSteps, Codes, LinkSteps
    <3>4. CASE ReadRequest(g)
      BY <1>2, <1>3, <3>4 DEF ReadRequest, WorkerSteps, Codes, LinkSteps
    <3>5. CASE Answer(g)
      BY <1>2, <1>3, <3>5 DEF Answer, WorkerSteps, Codes, LinkSteps
    <3>. QED
      BY <1>8, <3>1, <3>2, <3>3, <3>4, <3>5
  <2>3. worker[g].pc # "linking"
    BY <2>1 DEF LinkSteps
  <2>. QED
    BY <1>1, <2>1, <2>2, <2>3 DEF ServiceFollowsLink
<1>. QED
  BY <1>4, <1>5, <1>6, <1>7, <1>8 DEF WorkerStep

\* The pump and the caller leave the service alone and its connection in place.
LEMMA OthersFollow ==
  ASSUME RuntimeInv, ServiceFollowsLink,
         PumpStep \/ CallerStep \/ Start \/ StopNow \/ Stop \/ Shutdown \/ PollFails
  PROVE  ServiceFollowsLink'
<1>. USE DEF RuntimeInv
<1>. DEFINE Moves == \/ worker' = worker
                     \/ \E pc \in {"load", "waiting"} : Spawn(pc)
                     \/ \E g \in Generations : worker' = Cancelled(g) \/ Join(g)
<1>1. service' \in {service, "Error"}
  BY DEF PumpStep, TakeEvent, JoinEnded, ApplyRefused, ApplyEvent, PumpEnds,
     CallerStep, StopJoined, EndTasks, CloseRuntime, Start, StopNow, Stop,
     Shutdown, PollFails
<1>. SUFFICES Moves
  BY <1>1, OthersLeaveLinks, LinksStayFollows
<1>2. CASE TakeEvent
  <2>1. Head(queue).gen \in Generations
    <3>1. queue \in Seq(Events) /\ queue # <<>>
      BY <1>2 DEF TypeOK, TakeEvent
    <3>2. Head(queue) = queue[1] /\ 1 \in 1..Len(queue)
      BY <3>1
    <3>. QED
      BY <3>2, QueuedEvents
  <2>. QED
    BY <1>2, <2>1 DEF TakeEvent, Remove
<1>3. CASE JoinEnded
  <2>1. pump.event.gen \in Generations
    BY <1>3 DEF JoinEnded, PumpHolds, Events
  <2>. QED
    BY <1>3, <2>1 DEF JoinEnded
<1>4. CASE ApplyRefused \/ PumpEnds \/ StopNow \/ Shutdown \/ PollFails
  BY <1>4 DEF ApplyRefused, PumpEnds, StopNow, Shutdown, PollFails
<1>5. CASE ApplyEvent
  BY <1>5 DEF ApplyEvent, SpawnFails
<1>6. CASE Start
  BY <1>6 DEF Start, SpawnFails
<1>7. CASE Stop \/ EndTasks
  BY <1>7 DEF Stop, EndTasks, Remove, TypeOK
<1>8. CASE StopJoined \/ CloseRuntime
  BY <1>8 DEF StopJoined, CloseRuntime, CallerOwns, TypeOK
<1>. QED
  BY <1>2, <1>3, <1>4, <1>5, <1>6, <1>7, <1>8 DEF PumpStep, CallerStep

\* The service calls the account busy only while a worker really holds or makes
\* the connection: a later start is never refused as already active.
THEOREM ServiceIsHonest == Spec => []ServiceFollowsLink
<1>1. Init => ServiceFollowsLink
  BY DEF Init, NewProcess, ServiceFollowsLink
<1>2. RuntimeInv /\ ServiceFollowsLink /\ [Next]_vars => ServiceFollowsLink'
  <2>1. ASSUME ServiceFollowsLink, UNCHANGED vars
        PROVE  ServiceFollowsLink'
    BY <2>1 DEF vars, ServiceFollowsLink
  <2>2. ASSUME Launch
        PROVE  ServiceFollowsLink'
    BY <2>2 DEF Launch, NewProcess, ServiceFollowsLink
  <2>. QED
    BY <2>1, <2>2, WorkerFollows, OthersFollow DEF Next, RuntimeInv
<1>. QED
  BY <1>1, <1>2, RuntimeInvariant, PTL DEF Spec
=============================================================================
