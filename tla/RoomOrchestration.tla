-------------------------- MODULE RoomOrchestration --------------------------
(***************************************************************************)
(* A conductor answers a Room message (room_orchestration.rs): one planning   *)
(* turn, the delegations as Room messages, one dispatch per worker, one        *)
(* synthesis turn and the final message.  operation_gate lets one call run     *)
(* at a time, so a call that waits is one that has not begun.                 *)
(*                                                                         *)
(* The workers are dispatched through AiDispatch, of which this module uses    *)
(* the promise: a dispatch delivers at most one turn, finds a reply that is    *)
(* in the Room, and answers from its ledger afterwards (fate).  The process    *)
(* may end at any step and start again over the ledgers and the Room.          *)
(***************************************************************************)
EXTENDS OrchestrationLedger, TurnCancellation

CONSTANTS Plans,      \* plans the conductor may write
          MaxTurns,   \* bound: turns counted per operation
          NoOp        \* the operation of no call

ASSUME OrchestrationConstants ==
  /\ Plans \subseteq PlanTexts
  /\ NoOp \notin Ops
  /\ MaxTurns \in Nat
  /\ OrchestratorTurns = {"plan", "synthesis"}
  /\ DispatcherTurns = {"worker"}

VARIABLES room,         \* what orchestrations saved in the Room
          fate,         \* the dispatcher's record of each delegation
          pc,           \* how far the call in the gate has come
          op,           \* the operation it is about, or NoOp
          operation,    \* its ConductorOperation with the outcomes so far
          saved,        \* how many of its delegations it has saved
          text,         \* the length of the answer it is to save
          result,       \* what it returned last
          planned,      \* observer: planning turns since the record was made
          synthesized,  \* observer: the same for synthesis turns
          answered      \* observer: operations whose final message was saved

callVars == <<pc, op, operation, saved, text, result>>
turnVars == <<planned, synthesized>>
vars == <<records, stopVars, room, fate, callVars, turnVars, answered>>

Delegations == Ops \X (1..MaxWorkers) \X Workers
Task(id) == <<"task", id>>
Reply(id) == <<"reply", id>>
Final(o) == <<"final", o>>
Messages == {Task(id) : id \in Delegations} \cup {Reply(id) : id \in Delegations}
              \cup {Final(o) : o \in Ops}

Steps == {"idle",          \* next: Call
          "find",          \* next: Refuse, FindFinal, FindNoFinal
          "begin",         \* next: Begin...
          "start",         \* next: StartPlanning
          "plan",          \* next: SendPlan
          "planning",      \* next: PlanFails, PlanArrives
          "saving",        \* next: SaveTask, Delegate
          "workers",       \* next: a step of the dispatch of a delegation
          "worker",        \* next: WorkerEnds
          "synthesize",    \* next: StartSynthesis
          "ask",           \* next: SendSynthesis
          "synthesizing",  \* next: SynthesisFails, SynthesisArrives
          "final",         \* next: SaveFinal
          "complete"}      \* next: Complete

Results == {"None", "Completed", "Duplicate", "Failed", "Unknown", "Error"}
Fates == {"none", "running", "started", "failed"}

TypeOK ==
  /\ LedgerTypeOK
  /\ StopTypeOK
  /\ room \subseteq Messages
  /\ fate \in [Delegations -> Fates]
  /\ pc \in Steps
  /\ op \in Ops \cup {NoOp}
  /\ OperationTypeOK(operation)
  /\ saved \in 0..MaxWorkers
  /\ text \in Texts
  /\ result \in Results
  /\ planned \in [Ops -> 0..MaxTurns] /\ synthesized \in [Ops -> 0..MaxTurns]
  /\ answered \subseteq Ops

Init ==
  /\ LedgerInit
  /\ StopInit
  /\ room = {} /\ fate = [id \in Delegations |-> "none"]
  /\ pc = "idle" /\ op = NoOp /\ operation = NoOperation
  /\ saved = 0 /\ text = "none" /\ result = "None"
  /\ planned = [o \in Ops |-> 0] /\ synthesized = [o \in Ops |-> 0]
  /\ answered = {}

At(from) == pc = from
Goto(to) == pc' = to /\ UNCHANGED <<op, operation, saved, text, result>>

\* The call returns: its registrations and the gate drop, and the frontend
\* enables the Stop button again.
Return(answer) ==
  /\ pc' = "idle" /\ op' = NoOp /\ operation' = NoOperation
  /\ saved' = 0 /\ text' = "none" /\ result' = answer
  /\ Drop(OrchestratorTurns)
  /\ stop' = IF stop.at = "accepted" THEN NoStop ELSE stop

RoomStays == UNCHANGED <<room, fate, answered>>
Untouched == RoomStays /\ UNCHANGED turnVars

-----------------------------------------------------------------------------
(* The call looks for the final message and for its record.                  *)

Call(o) ==
  /\ At("idle")
  /\ pc' = "find" /\ op' = o /\ result' = "None"
  /\ UNCHANGED <<records, stopVars, operation, saved, text>> /\ Untouched

\* No conductor, another mode, an unsupported conductor or source message.
Refuse ==
  /\ At("find")
  /\ Return("Error")
  /\ UNCHANGED records /\ Untouched

\* The final message is there: the record may still have to follow it.
FindFinal ==
  /\ At("find")
  /\ Final(op) \in room
  /\ Return("Duplicate")
  /\ MarkCompleted(op) \/ TransitionRefused
  /\ Untouched

\* Fault: the call goes on without looking for the final message.
FindNothing ==
  /\ At("find")
  /\ Goto("begin")
  /\ UNCHANGED <<records, stopVars>> /\ Untouched

FindNoFinal ==
  /\ At("find")
  /\ Final(op) \notin room
  /\ Goto("begin")
  /\ UNCHANGED <<records, stopVars>> /\ Untouched

BeginReserved ==
  /\ At("begin")
  /\ ReserveOperation(op)
  /\ planned' = [planned EXCEPT ![op] = 0]
  /\ synthesized' = [synthesized EXCEPT ![op] = 0]
  /\ answered' = answered \ {op}
  /\ Goto("start")
  /\ UNCHANGED <<stopVars, room, fate>>

\* No clock, a refused write, or a ledger full of undecided operations.
BeginFails ==
  /\ At("begin")
  /\ records[op] = Absent
  /\ Return("Error")
  /\ TransitionRefused /\ Untouched

\* Fault: an operation that was planning is planned again.
RestartablePlanning == {"Prepared", "Planning"}

Restartable == {"Prepared"}

BeginPrepared ==
  /\ At("begin")
  /\ Stage(op) \in Restartable
  /\ Goto("start")
  /\ UNCHANGED <<records, stopVars>> /\ Untouched

\* resume_delegating: the links of the record are dispatched again.
BeginDelegating ==
  /\ At("begin")
  /\ Stage(op) = "Delegating"
  /\ pc' = "workers"
  /\ operation' = [NoOperation EXCEPT !.stage = "Delegating", !.links = records[op].links]
  /\ UNCHANGED <<op, saved, text, result, records, stopVars>> /\ Untouched

BeginDecided ==
  /\ At("begin")
  /\ Stage(op) \in {"Completed", "Failed"}
  /\ Return(IF Stage(op) = "Failed" THEN "Failed" ELSE "Unknown")
  /\ UNCHANGED records /\ Untouched

\* mark_unknown, whose failure is ignored.
Unknown == MarkUnknown(op) \/ TransitionRefused

BeginUnknown ==
  /\ At("begin")
  /\ Stage(op) \in {"Planning", "Synthesizing", "Unknown"}
  /\ Return("Unknown")
  /\ Unknown /\ Untouched

-----------------------------------------------------------------------------
(* The planning turn.                                                       *)

StartPlanning ==
  /\ At("start")
  /\ MarkPlanning(op)
  /\ Register("plan")
  /\ Goto("plan")
  /\ UNCHANGED stop /\ Untouched

\* The Room cannot be read, or the stage is not recorded.
StartFails ==
  /\ At("start")
  /\ Return("Error")
  /\ TransitionRefused /\ Untouched

SendPlan ==
  /\ At("plan")
  /\ planned[op] < MaxTurns
  /\ planned' = [planned EXCEPT ![op] = @ + 1]
  /\ Goto("planning")
  /\ UNCHANGED <<records, stopVars, synthesized>> /\ RoomStays

\* A timeout, a cancellation, a lost process, no session, or not sent at all.
PlanFails ==
  /\ pc \in {"plan", "planning"}
  /\ Return("Unknown")
  /\ Unknown /\ Untouched

PlanRejected ==
  /\ At("planning")
  /\ \E plan \in Plans : ~PlanAccepted(plan)
  /\ Return("Failed")
  /\ MarkFailed(op) \/ TransitionRefused
  /\ Untouched

PlanAnswers ==
  /\ At("planning")
  /\ \E plan \in Plans :
       /\ PlanAccepted(plan) /\ plan.mode = "answer"
       /\ operation' = AcceptPlan(plan)
       /\ text' = plan.answer
  /\ MarkSynthesizing(op)
  /\ pc' = "final"
  /\ UNCHANGED <<op, saved, result, stopVars>> /\ Untouched

PlanDelegates ==
  /\ At("planning")
  /\ \E plan \in Plans :
       /\ PlanAccepted(plan) /\ plan.mode = "delegate"
       /\ operation' = AcceptPlan(plan)
  /\ pc' = "saving"
  /\ UNCHANGED <<op, saved, text, result, records, stopVars>> /\ Untouched

\* The answer of a direct plan, or the start of the synthesis, is not recorded.
MarkFails ==
  /\ pc \in {"planning", "synthesize"}
  /\ Return("Error")
  /\ TransitionRefused /\ Untouched

-----------------------------------------------------------------------------
(* The delegations: first as Room messages, then in the ledger.              *)

\* append_message answers Duplicate for a task that is already there.
SaveTask ==
  /\ At("saving")
  /\ saved < Len(operation.links)
  /\ saved' = saved + 1
  /\ room' = room \cup {Task(<<op, saved', operation.links[saved']>>)}
  /\ UNCHANGED <<pc, op, operation, text, result>>
  /\ UNCHANGED <<records, stopVars, fate, answered, turnVars>>

\* A task is not saved, or the delegating stage is not recorded.
SaveTaskFails ==
  /\ At("saving")
  /\ Return("Error")
  /\ TransitionRefused /\ Untouched

Delegate ==
  /\ At("saving")
  /\ saved = Len(operation.links)
  /\ MarkDelegating(op, operation.links)
  /\ Goto("workers")
  /\ UNCHANGED stopVars /\ Untouched

-----------------------------------------------------------------------------
(* dispatch_delegations: one worker after the other.                        *)

Current == Len(operation.outcomes) + 1
Link == <<op, Current, operation.links[Current]>>
HasWork == At("workers") /\ Current <= Len(operation.links)

Outcome(outcome) ==
  /\ pc' = "workers"
  /\ operation' = RecordOutcomes(operation, Append(operation.outcomes, outcome))
  /\ UNCHANGED <<op, saved, text, result>>

\* Fault: the dispatch waits until the delegation message is there.
TaskMissingWaits ==
  /\ HasWork
  /\ Task(Link) \notin room
  /\ UNCHANGED vars

\* The delegation message is not in the Room any more.
TaskMissing ==
  /\ HasWork
  /\ Task(Link) \notin room
  /\ Return("Error")
  /\ UNCHANGED records /\ Untouched

\* Fault: a dispatch whose outcome is open is reported as failed.
OutcomeOfUndelivered(id) ==
  IF Reply(id) \in room THEN "Succeeded" ELSE "Failed"

\* What the dispatcher says of a delegation it has dealt with before.
OutcomeOf(id) ==
  IF Reply(id) \in room THEN "Succeeded"
  ELSE IF fate[id] = "started" THEN "Unknown" ELSE "Failed"

WorkerKnown ==
  /\ HasWork
  /\ Task(Link) \in room
  /\ Reply(Link) \in room \/ fate[Link] # "none"
  /\ Outcome(OutcomeOf(Link))
  /\ UNCHANGED <<records, stopVars>> /\ Untouched

\* Refused before anything is delivered; the dispatcher may have no record.
WorkerRefused ==
  /\ HasWork
  /\ Task(Link) \in room /\ Reply(Link) \notin room /\ fate[Link] = "none"
  /\ \E now \in {"none", "failed"} : fate' = [fate EXCEPT ![Link] = now]
  /\ Outcome("Failed")
  /\ UNCHANGED <<records, stopVars, room, answered, turnVars>>

WorkerStarts ==
  /\ HasWork
  /\ Task(Link) \in room /\ Reply(Link) \notin room /\ fate[Link] = "none"
  /\ Register("worker")
  /\ fate' = [fate EXCEPT ![Link] = "running"]
  /\ Goto("worker")
  /\ UNCHANGED <<records, stop, room, answered, turnVars>>

WorkerReplies ==
  /\ At("worker")
  /\ Drop(DispatcherTurns)
  /\ fate' = [fate EXCEPT ![Link] = "started"]
  /\ room' = room \cup {Reply(Link)}
  /\ Outcome("Succeeded")
  /\ UNCHANGED <<records, stop, answered, turnVars>>

\* Its outcome is open, or the worker confirmed that it did nothing.
WorkerFails ==
  /\ At("worker")
  /\ Drop(DispatcherTurns)
  /\ \/ fate' = [fate EXCEPT ![Link] = "started"] /\ Outcome("Unknown")
     \/ fate' = [fate EXCEPT ![Link] = "failed"] /\ Outcome("Failed")
  /\ UNCHANGED <<records, stop, room, answered, turnVars>>

WorkersDone ==
  /\ At("workers")
  /\ Len(operation.outcomes) = Len(operation.links)
  /\ AsksForSynthesis(operation)   \* or an error, which no operation meets
  /\ Goto("synthesize")
  /\ UNCHANGED <<records, stopVars>> /\ Untouched

-----------------------------------------------------------------------------
(* The synthesis turn and the final message.                                *)

StartSynthesis ==
  /\ At("synthesize")
  /\ MarkSynthesizing(op)
  /\ Register("synthesis")
  /\ Goto("ask")
  /\ UNCHANGED stop /\ Untouched

SendSynthesis ==
  /\ At("ask")
  /\ synthesized[op] < MaxTurns
  /\ synthesized' = [synthesized EXCEPT ![op] = @ + 1]
  /\ Goto("synthesizing")
  /\ UNCHANGED <<records, stopVars, planned>> /\ RoomStays

SynthesisFails ==
  /\ pc \in {"ask", "synthesizing"}
  /\ Return("Unknown")
  /\ Unknown /\ Untouched

\* The text of a turn is not bounded by the 4 000 bytes of a Room message.
SynthesisArrives ==
  /\ At("synthesizing")
  /\ \E answer \in Texts \ {"none"} : text' = answer
  /\ pc' = "final"
  /\ UNCHANGED <<op, operation, saved, result, records, stopVars>> /\ Untouched

\* Fault: the record is completed before the message is saved.
CompleteUnsaved ==
  /\ At("final")
  /\ text = "short"
  /\ MarkCompleted(op)
  /\ Goto("complete")
  /\ UNCHANGED stopVars /\ Untouched

SaveFinal ==
  /\ At("final")
  /\ text = "short"
  /\ room' = room \cup {Final(op)}
  /\ answered' = answered \cup {op}
  /\ Goto("complete")
  /\ UNCHANGED <<records, stopVars, fate, turnVars>>

\* The answer does not fit into a Room message, or the Room cannot be saved.
FinalRefused ==
  /\ At("final")
  /\ Return("Unknown")
  /\ Unknown /\ Untouched

\* There is no clock to stamp the message or its completion with.
NoClock ==
  /\ pc \in {"final", "complete"}
  /\ Return("Error")
  /\ UNCHANGED records /\ Untouched

Complete ==
  /\ At("complete")
  /\ Return("Completed")
  /\ MarkCompleted(op) \/ TransitionRefused
  /\ Untouched

-----------------------------------------------------------------------------
(* The owner and the environment.                                           *)

Stop ==
  /\ \/ pc # "idle" /\ RequestStop
     \/ StopStep
  /\ UNCHANGED <<records, callVars>> /\ Untouched

\* A Room backup from before the orchestrations is restored.
RestoreRooms ==
  /\ room' = {}
  /\ UNCHANGED <<records, stopVars, fate, callVars, turnVars, answered>>

\* The process ends and starts again: the ledgers normalize what was in flight.
Crash ==
  /\ ReopenLedger
  /\ fate' = [id \in Delegations |-> IF fate[id] = "running" THEN "started" ELSE fate[id]]
  /\ pc' = "idle" /\ op' = NoOp /\ operation' = NoOperation
  /\ saved' = 0 /\ text' = "none" /\ result' = "None"
  /\ token' = [t \in Turns |-> "none"] /\ stop' = NoStop
  /\ UNCHANGED <<room, turnVars, answered>>

CallStep ==
  \/ Refuse \/ FindFinal \/ FindNoFinal
  \/ BeginReserved \/ BeginFails \/ BeginPrepared \/ BeginDelegating
  \/ BeginDecided \/ BeginUnknown
  \/ StartPlanning \/ StartFails \/ SendPlan \/ PlanFails
  \/ PlanRejected \/ PlanAnswers \/ PlanDelegates \/ MarkFails
  \/ SaveTask \/ SaveTaskFails \/ Delegate
  \/ TaskMissing \/ WorkerKnown \/ WorkerRefused \/ WorkerStarts
  \/ WorkerReplies \/ WorkerFails \/ WorkersDone
  \/ StartSynthesis \/ SendSynthesis \/ SynthesisFails \/ SynthesisArrives
  \/ SaveFinal \/ FinalRefused \/ NoClock \/ Complete

Next == CallStep \/ Stop \/ RestoreRooms \/ Crash \/ \E o \in Ops : Call(o)

Spec == Init /\ [][Next]_vars

\* The thread of a call keeps running and every turn has a timeout.
FairSpec == Spec /\ WF_vars(CallStep)

-----------------------------------------------------------------------------
(* As long as an operation has its record, its conductor is asked for one     *)
(* plan and one synthesis, whatever fails, crashes or is repeated.           *)
TurnsOnce == \A o \in Ops : planned[o] <= 1 /\ synthesized[o] <= 1

\* A worker is only ever at work on a delegation that the ledger names, so that
\* a restart resumes with it: a task saved for a plan that was never recorded
\* is nobody's work, and no operation has two turns of one worker.
WorkersAreOnRecord ==
  \A id \in Delegations : fate[id] = "running" =>
    LET links == records[id[1]].links
    IN /\ records[id[1]].stage = "Delegating"
       /\ id[2] \in DOMAIN links /\ links[id[2]] = id[3]
       /\ \A j \in DOMAIN links : links[j] = id[3] => j = id[2]

\* ADR 0035: the final answer is saved before the operation is complete.
CompletedIsAnswered ==
  \A o \in Ops : records[o].stage = "Completed" => o \in answered

\* The conductor never hears "failed" of a worker that may have worked, nor
\* "completed" of one that never did.
PacketIsHonest ==
  \A i \in DOMAIN operation.outcomes :
    LET now == fate[<<op, i, operation.links[i]>>]
    IN /\ operation.outcomes[i] = "Failed" => now \in {"none", "failed"}
       /\ operation.outcomes[i] # "Failed" => now = "started"

\* ADR 0035: repeating a command recovers the same records: as long as the final
\* message is in the Room no call says that the outcome is failed or unknown,
\* whatever the ledger has come to think of it.
FinalIsReported ==
  [][result' \in {"Failed", "Unknown"} /\ result' # result => Final(op) \notin room]_vars

\* Every orchestration returns, or the process ends under it.
CallReturns == pc # "idle" ~> pc = "idle"

\* The turns the program is about to run or is running.
UnfinishedTurns ==
  {t \in Turns : \/ t = "plan" /\ pc \in {"plan", "planning"}
                 \/ t = "worker" /\ pc = "worker"
                 \/ t = "synthesis" /\ pc \in {"ask", "synthesizing"}}

\* ADR 0038: a stop the owner sees accepted was signalled to an active turn; a
\* stop that finds none is reported as such.
StopReachesATurn ==
  [][stop'.at = "accepted" /\ stop.at = "orchestrator" /\ ~stop.hit =>
       \E t \in UnfinishedTurns : token'[t] = "cancelled"]_vars
=============================================================================
