----------------------- MODULE RoomOrchestration_proofs -----------------------
(***************************************************************************)
(* Theorems about orchestrations for any operations, workers and plans.  The *)
(* step of the call and the stage of its record go together; from that follow *)
(* how often the conductor is asked, who is at work for it, and what it hears. *)
(***************************************************************************)
EXTENDS RoomOrchestration, TLAPS

-----------------------------------------------------------------------------
(* The inductive invariant.                                                 *)

\* The call and the stage of its record: the stage changes in the same step.
CallIsOnRecord ==
  /\ pc = "idle" <=> op = NoOp
  /\ pc = "start" => Stage(op) = "Prepared"
  /\ pc \in {"plan", "planning", "saving"} => Stage(op) = "Planning"
  /\ pc \in {"workers", "worker", "synthesize"} => Stage(op) = "Delegating"
  /\ pc \in {"ask", "synthesizing", "final", "complete"} => Stage(op) = "Synthesizing"

Distinct(links) == \A i, j \in DOMAIN links : links[i] = links[j] => i = j

\* The delegations of the call are those of its record, each for another worker.
OperationIsOnRecord ==
  /\ pc \in {"idle", "find", "begin", "start", "plan", "planning", "saving"}
       => operation.outcomes = <<>>
  /\ pc \in {"idle", "find", "begin", "start", "plan", "planning"} => saved = 0
  /\ pc = "saving" => Distinct(operation.links) /\ saved <= Len(operation.links)
  /\ pc \in {"workers", "worker"} => operation.links = records[op].links
  /\ Len(operation.outcomes) <= Len(operation.links)
  /\ pc = "worker" => Len(operation.outcomes) < Len(operation.links)
  /\ \A o \in Ops : Stage(o) = "Delegating" => Distinct(records[o].links)

\* How often the conductor was asked can be told from the stage of the record.
TurnsAreOnRecord ==
  /\ TurnsOnce
  /\ \A o \in Ops : Stage(o) = "Prepared" => planned[o] = 0
  /\ \A o \in Ops : Stage(o) \in {"Prepared", "Planning", "Delegating"} => synthesized[o] = 0
  /\ pc = "plan" => planned[op] = 0
  /\ pc = "ask" => synthesized[op] = 0

\* Only the dispatch that the call waits for is running, and a worker whose
\* reply is in the Room was started.
FatesAreOfTheCall ==
  /\ \A id \in Delegations : fate[id] = "running" => pc = "worker" /\ id = Link
  /\ pc = "worker" => fate[Link] = "running"
  /\ \A id \in Delegations : Reply(id) \in room => fate[id] = "started"

\* A call that is past its search found no final message, and saves the only one.
FinalsAreAnswered ==
  /\ \A o \in Ops : Final(o) \in room => o \in answered
  /\ pc \notin {"idle", "find", "complete"} => Final(op) \notin room
  /\ pc = "complete" => op \in answered

OrchestrationInv ==
  /\ TypeOK
  /\ CallIsOnRecord
  /\ OperationIsOnRecord
  /\ TurnsAreOnRecord
  /\ FatesAreOfTheCall
  /\ FinalsAreAnswered
  /\ CompletedIsAnswered
  /\ PacketIsHonest

-----------------------------------------------------------------------------
(* Types.                                                                   *)

\* The delegations of a record are a sequence of workers, no longer than allowed.
LEMMA LinksAreSeqs ==
  /\ <<>> \in Links
  /\ \A links \in Links : /\ links \in Seq(Workers) /\ Len(links) \in 0..MaxWorkers
                          /\ DOMAIN links = 1..Len(links)
<1>1. <<>> \in Links
  <2>1. <<>> \in [1..0 -> Workers]
    OBVIOUS
  <2>. QED
    BY <2>1, ConductorConstants DEF Links
<1>2. ASSUME NEW links \in Links
      PROVE  /\ links \in Seq(Workers) /\ Len(links) \in 0..MaxWorkers
             /\ DOMAIN links = 1..Len(links)
  <2>1. PICK n \in 0..MaxWorkers : links \in [1..n -> Workers]
    BY DEF Links
  <2>2. n \in Nat
    BY ConductorConstants
  <2>3. links \in Seq(Workers)
    BY <2>1, <2>2
  <2>4. Len(links) = n
    BY <2>1, <2>2, <2>3
  <2>. QED
    BY <2>1, <2>3, <2>4
<1>. QED
  BY <1>1, <1>2

\* What the three kinds of messages are about tells them apart.
LEMMA MessagesDiffer ==
  /\ \A id : Task(id) \notin {Reply(i) : i \in Delegations} \cup {Final(o) : o \in Ops}
  /\ \A id : Reply(id) \notin {Task(i) : i \in Delegations} \cup {Final(o) : o \in Ops}
  /\ \A o : Final(o) \notin {Task(i) : i \in Delegations} \cup {Reply(i) : i \in Delegations}
  /\ \A i, j : Reply(i) = Reply(j) => i = j
  /\ \A o, p : Final(o) = Final(p) => o = p
BY DEF Task, Reply, Final

\* An operation goes to another stage and keeps its delegations.
LEMMA RecordMoved ==
  ASSUME LedgerTypeOK, NEW o \in Ops, NEW stage \in Stages, MoveTo(o, stage)
  PROVE  /\ LedgerTypeOK'
         /\ records'[o].stage = stage /\ records'[o].links = records[o].links
         /\ \A other \in Ops \ {o} : records'[other] = records[other]
<1>1. [records[o] EXCEPT !.stage = stage] \in [stage : Stages \cup {"Absent"}, links : Links]
  BY DEF LedgerTypeOK
<1>2. records' = [records EXCEPT ![o] = [records[o] EXCEPT !.stage = stage]]
  BY DEF MoveTo
<1>. QED
  BY <1>1, <1>2 DEF LedgerTypeOK

\* What a call returns to.
LEMMA ReturnType ==
  ASSUME TypeOK, NEW answer \in Results, Return(answer)
  PROVE  /\ pc' = "idle" /\ op' = NoOp /\ result' = answer
         /\ operation' = NoOperation /\ OperationTypeOK(NoOperation)
         /\ saved' = 0 /\ text' = "none" /\ StopTypeOK'
<1>1. OperationTypeOK(NoOperation)
  BY LinksAreSeqs DEF OperationTypeOK, NoOperation, Stages
<1>2. StopTypeOK'
  BY DEF Return, Drop, TypeOK, StopTypeOK, Tokens, NoStop
<1>. QED
  BY <1>1, <1>2 DEF Return

\* The record of the call after a return: unchanged, or decided.
Decided == \/ TransitionRefused
           \/ \E stage \in {"Completed", "Failed", "Unknown"} :
                /\ stage = "Completed" => op \in answered
                /\ MoveTo(op, stage)

\* A call that returns leaves an operation that nobody works on.
LEMMA ReturnKeeps ==
  ASSUME OrchestrationInv, pc \notin {"idle", "worker"},
         NEW answer \in Results, Return(answer), Decided, Untouched
  PROVE  OrchestrationInv'
<1>. USE DEF OrchestrationInv
<1>1. /\ pc' = "idle" /\ op' = NoOp /\ result' = answer
      /\ operation' = NoOperation /\ OperationTypeOK(NoOperation)
      /\ saved' = 0 /\ text' = "none" /\ StopTypeOK'
  BY ReturnType
<1>2. UNCHANGED <<room, fate, answered, planned, synthesized>>
  BY DEF Untouched, RoomStays, turnVars
<1>3. op \in Ops
  BY DEF TypeOK, CallIsOnRecord
<1>. DEFINE Kept ==
       /\ LedgerTypeOK'
       /\ \A o \in Ops : \/ records'[o] = records[o]
                         \/ /\ records'[o].stage \in {"Completed", "Failed", "Unknown"}
                            /\ records'[o].stage = "Completed" => o \in answered
<1>4. Kept
  <2>1. CASE TransitionRefused
    BY <2>1 DEF TransitionRefused, TypeOK, LedgerTypeOK
  <2>2. ASSUME NEW stage \in {"Completed", "Failed", "Unknown"}, MoveTo(op, stage),
               stage = "Completed" => op \in answered
        PROVE  Kept
    <3>1. stage \in Stages
      BY DEF Stages
    <3>. QED
      BY <1>3, <2>2, <3>1, RecordMoved DEF TypeOK
  <2>. QED
    BY <2>1, <2>2 DEF Decided
<1>5. TypeOK'
  <2>1. 0 \in 0..MaxWorkers /\ "idle" \in Steps /\ "none" \in Texts
    BY ConductorConstants DEF Steps, Texts
  <2>. QED
    BY <1>1, <1>2, <1>4, <2>1 DEF TypeOK
<1>6. CallIsOnRecord'
  BY <1>1 DEF CallIsOnRecord
<1>7. OperationIsOnRecord'
  BY <1>1, <1>4 DEF OperationIsOnRecord, NoOperation, Stage
<1>8. TurnsAreOnRecord'
  BY <1>1, <1>2, <1>4 DEF TurnsAreOnRecord, TurnsOnce, Stage
<1>9. FatesAreOfTheCall' /\ FinalsAreAnswered'
  BY <1>1, <1>2 DEF FatesAreOfTheCall, FinalsAreAnswered
<1>10. CompletedIsAnswered'
  BY <1>2, <1>4 DEF CompletedIsAnswered
<1>11. PacketIsHonest'
  BY <1>1 DEF PacketIsHonest, NoOperation
<1>. QED
  BY <1>5, <1>6, <1>7, <1>8, <1>9, <1>10, <1>11

-----------------------------------------------------------------------------
(* The invariant, step by step.                                             *)

\* Every way for a call to return.
LEMMA ReturnsKeep ==
  ASSUME OrchestrationInv,
         \/ Refuse \/ FindFinal \/ BeginFails \/ BeginDecided \/ BeginUnknown
         \/ StartFails \/ PlanFails \/ PlanRejected \/ MarkFails \/ SaveTaskFails
         \/ TaskMissing \/ SynthesisFails \/ FinalRefused \/ NoClock \/ Complete
  PROVE  OrchestrationInv'
<1>. DEFINE Returns == /\ pc \notin {"idle", "worker"}
                       /\ \E answer \in Results : Return(answer)
                       /\ Decided /\ Untouched
<1>. USE DEF At, Results
<1>1. MarkUnknown(op) \/ MarkFailed(op) \/ TransitionRefused => Decided
  BY DEF Decided, MarkUnknown, MarkFailed, Transition
<1>2. UNCHANGED records => Decided
  BY DEF Decided, TransitionRefused
<1>3. MarkCompleted(op) /\ op \in answered => Decided
  BY DEF Decided, MarkCompleted, Transition
<1>4. CASE \/ Refuse \/ BeginFails \/ BeginDecided \/ BeginUnknown \/ StartFails
           \/ PlanFails \/ PlanRejected \/ MarkFails
  <2>1. Returns
    BY <1>1, <1>2, <1>4 DEF Refuse, BeginFails, BeginDecided, BeginUnknown,
       StartFails, PlanFails, PlanRejected, MarkFails, Unknown
  <2>. QED
    BY <2>1, ReturnKeeps
<1>5. CASE \/ SaveTaskFails \/ TaskMissing \/ SynthesisFails \/ FinalRefused \/ NoClock
  <2>1. Returns
    BY <1>1, <1>2, <1>5 DEF SaveTaskFails, TaskMissing, HasWork, SynthesisFails,
       FinalRefused, NoClock, Unknown
  <2>. QED
    BY <2>1, ReturnKeeps
<1>6. CASE FindFinal \/ Complete
  <2>1. op \in answered
    <3>1. CASE FindFinal
      BY <3>1 DEF FindFinal, OrchestrationInv, TypeOK, CallIsOnRecord, FinalsAreAnswered
    <3>2. CASE Complete
      BY <3>2 DEF Complete, OrchestrationInv, FinalsAreAnswered
    <3>. QED
      BY <1>6, <3>1, <3>2
  <2>2. Returns
    BY <1>1, <1>3, <1>6, <2>1 DEF FindFinal, Complete
  <2>. QED
    BY <2>2, ReturnKeeps
<1>. QED
  BY <1>4, <1>5, <1>6

\* The search for the message and the record.
LEMMA SearchKeeps ==
  ASSUME OrchestrationInv,
         \/ \E o \in Ops : Call(o)
         \/ FindNoFinal \/ BeginPrepared \/ BeginDelegating
  PROVE  OrchestrationInv'
<1>. USE DEF OrchestrationInv, At, Goto
<1>1. UNCHANGED <<records, token, stop, room, fate, planned, synthesized, answered>>
  BY DEF Call, FindNoFinal, BeginPrepared, BeginDelegating, stopVars, Untouched,
     RoomStays, turnVars
<1>2. ASSUME NEW o \in Ops, Call(o)
      PROVE  OrchestrationInv'
  <2>1. /\ pc = "idle" /\ pc' = "find" /\ op' = o /\ result' = "None"
        /\ UNCHANGED <<operation, saved, text>>
    BY <1>2 DEF Call
  <2>2. TypeOK'
    BY <1>1, <2>1 DEF TypeOK, LedgerTypeOK, StopTypeOK, Steps, Results
  <2>3. CallIsOnRecord' /\ OperationIsOnRecord'
    BY <1>1, <2>1, OrchestrationConstants DEF CallIsOnRecord, OperationIsOnRecord, Stage
  <2>4. PacketIsHonest'
    BY <2>1 DEF OperationIsOnRecord, PacketIsHonest
  <2>5. FatesAreOfTheCall'
    BY <1>1, <2>1 DEF FatesAreOfTheCall
  <2>6. TurnsAreOnRecord' /\ FinalsAreAnswered' /\ CompletedIsAnswered'
    BY <1>1, <2>1 DEF TurnsAreOnRecord, TurnsOnce, FinalsAreAnswered, CompletedIsAnswered, Stage
  <2>. QED
    BY <2>2, <2>3, <2>4, <2>5, <2>6
<1>3. CASE FindNoFinal \/ BeginPrepared
  <2>1. /\ \/ pc = "find" /\ pc' = "begin" /\ Final(op) \notin room
           \/ pc = "begin" /\ pc' = "start" /\ Stage(op) = "Prepared"
        /\ UNCHANGED <<op, operation, saved, text, result>>
    BY <1>3 DEF FindNoFinal, BeginPrepared, Restartable
  <2>2. TypeOK'
    BY <1>1, <2>1 DEF TypeOK, LedgerTypeOK, StopTypeOK, Steps
  <2>3. CallIsOnRecord' /\ OperationIsOnRecord'
    BY <1>1, <2>1 DEF CallIsOnRecord, OperationIsOnRecord, Stage
  <2>. QED
    BY <1>1, <2>1, <2>2, <2>3 DEF TurnsAreOnRecord, TurnsOnce, FatesAreOfTheCall,
       FinalsAreAnswered, CompletedIsAnswered, PacketIsHonest, Stage
<1>4. CASE BeginDelegating
  <2>1. /\ pc = "begin" /\ pc' = "workers" /\ Stage(op) = "Delegating"
        /\ operation' = [stage |-> "Delegating", links |-> records[op].links, outcomes |-> <<>>]
        /\ UNCHANGED <<op, saved, text, result>>
    BY <1>4 DEF BeginDelegating, NoOperation
  <2>2. op \in Ops
    BY <2>1 DEF TypeOK, CallIsOnRecord
  <2>3. /\ records[op].links \in Links /\ Len(records[op].links) \in Nat
        /\ OperationTypeOK(operation')
    BY <2>1, <2>2, LinksAreSeqs, ConductorConstants DEF TypeOK, LedgerTypeOK,
       OperationTypeOK, Stages
  <2>4. TypeOK'
    BY <1>1, <2>1, <2>3 DEF TypeOK, LedgerTypeOK, StopTypeOK, Steps
  <2>5. CallIsOnRecord' /\ OperationIsOnRecord'
    BY <1>1, <2>1, <2>3 DEF CallIsOnRecord, OperationIsOnRecord, Stage
  <2>. QED
    BY <1>1, <2>1, <2>4, <2>5 DEF TurnsAreOnRecord, TurnsOnce, FatesAreOfTheCall,
       FinalsAreAnswered, CompletedIsAnswered, PacketIsHonest, Stage
<1>. QED
  BY <1>2, <1>3, <1>4

\* A new record: its turns are counted from here, and a pruned one says nothing.
LEMMA ReserveKeeps ==
  ASSUME OrchestrationInv, BeginReserved
  PROVE  OrchestrationInv'
<1>. USE DEF OrchestrationInv, At, Goto
<1>1. /\ pc = "begin" /\ pc' = "start" /\ op \in Ops
      /\ planned' = [planned EXCEPT ![op] = 0]
      /\ synthesized' = [synthesized EXCEPT ![op] = 0]
      /\ answered' = answered \ {op}
      /\ UNCHANGED <<op, operation, saved, text, result, token, stop, room, fate>>
  BY DEF BeginReserved, stopVars, TypeOK, CallIsOnRecord
<1>2. Record("Prepared", <<>>) \in [stage : Stages \cup {"Absent"}, links : Links]
      /\ Absent \in [stage : Stages \cup {"Absent"}, links : Links]
  BY LinksAreSeqs DEF Record, Absent, Stages
<1>3. PICK pruned \in PrunedRecords(records) :
        records' = [pruned EXCEPT ![op] = Record("Prepared", <<>>)]
  BY DEF BeginReserved, ReserveOperation
<1>4. /\ pruned \in [Ops -> [stage : Stages \cup {"Absent"}, links : Links]]
      /\ \A o \in Ops : pruned[o] \in {records[o], Absent}
  <2>1. records \in [Ops -> [stage : Stages \cup {"Absent"}, links : Links]]
    BY DEF TypeOK, LedgerTypeOK
  <2>2. pruned = records \/ \E o \in Ops : pruned = [records EXCEPT ![o] = Absent]
    BY <1>3 DEF PrunedRecords
  <2>. QED
    BY <1>2, <2>1, <2>2
<1>5. /\ LedgerTypeOK'
      /\ records'[op] = [stage |-> "Prepared", links |-> <<>>]
      /\ \A o \in Ops \ {op} : \/ records'[o] = records[o]
                               \/ records'[o] = [stage |-> "Absent", links |-> <<>>]
  BY <1>1, <1>2, <1>3, <1>4 DEF LedgerTypeOK, Record, Absent
<1>6. TypeOK'
  BY <1>1, <1>5, OrchestrationConstants DEF TypeOK, StopTypeOK, Steps
<1>7. CallIsOnRecord' /\ OperationIsOnRecord'
  BY <1>1, <1>5 DEF CallIsOnRecord, OperationIsOnRecord, Stage
<1>8. TurnsAreOnRecord'
  <2>1. planned'[op] = 0 /\ synthesized'[op] = 0
    BY <1>1 DEF TypeOK
  <2>2. \A o \in Ops \ {op} : planned'[o] = planned[o] /\ synthesized'[o] = synthesized[o]
    BY <1>1 DEF TypeOK
  <2>. QED
    BY <1>1, <1>5, <2>1, <2>2 DEF TurnsAreOnRecord, TurnsOnce, Stage
<1>9. FatesAreOfTheCall' /\ FinalsAreAnswered' /\ PacketIsHonest'
  BY <1>1, MessagesDiffer DEF FatesAreOfTheCall, FinalsAreAnswered, PacketIsHonest
<1>10. CompletedIsAnswered'
  BY <1>1, <1>5 DEF CompletedIsAnswered
<1>. QED
  BY <1>6, <1>7, <1>8, <1>9, <1>10

\* A plan that is accepted names different workers, no more than allowed.
LEMMA AcceptedPlan ==
  ASSUME NEW plan \in Plans, PlanAccepted(plan)
  PROVE  /\ OperationTypeOK(AcceptPlan(plan))
         /\ AcceptPlan(plan).outcomes = <<>>
         /\ Distinct(AcceptPlan(plan).links)
         /\ plan.answer \in Texts
<1>1. plan \in PlanTexts
  BY OrchestrationConstants
<1>2. PICK n \in 0..(MaxWorkers + 1) : plan.targets \in [1..n -> Workers \cup Others]
  BY <1>1 DEF PlanTexts
<1>3. n \in Nat
  BY ConductorConstants
<1>4. CASE plan.mode = "delegate"
  <2>1. /\ Len(plan.targets) \in 1..MaxWorkers
        /\ \A i \in DOMAIN plan.targets : plan.targets[i] \in Workers
        /\ Distinct(plan.targets)
    BY <1>4 DEF PlanAccepted, TargetsAccepted, Distinct
  <2>2. plan.targets \in Seq(Workers \cup Others)
    BY <1>2, <1>3
  <2>3. Len(plan.targets) = n
    BY <1>2, <1>3, <2>2
  <2>4. plan.targets \in [1..n -> Workers]
    BY <1>2, <2>1
  <2>5. plan.targets \in Links
    BY <2>1, <2>3, <2>4, ConductorConstants DEF Links
  <2>. QED
    BY <1>1, <1>4, <2>1, <2>5 DEF AcceptPlan, OperationTypeOK, Stages, PlanTexts
<1>5. CASE plan.mode = "answer"
  <2>1. plan.targets = <<>>
    BY <1>5 DEF PlanAccepted
  <2>. QED
    BY <1>1, <1>5, <2>1, LinksAreSeqs DEF AcceptPlan, OperationTypeOK, Stages,
       PlanTexts, Distinct
<1>. QED
  BY <1>1, <1>4, <1>5 DEF PlanTexts

\* Before a turn is sent its registration and its stage are in place.
LEMMA RegisterType ==
  ASSUME StopTypeOK, NEW t \in Turns, Register(t), UNCHANGED stop
  PROVE  StopTypeOK'
BY DEF StopTypeOK, Register, Tokens

\* The planning turn.
LEMMA PlanKeeps ==
  ASSUME OrchestrationInv, StartPlanning \/ SendPlan \/ PlanAnswers \/ PlanDelegates
  PROVE  OrchestrationInv'
<1>. USE DEF OrchestrationInv, At, Goto
<1>1. /\ op \in Ops /\ operation.outcomes = <<>> /\ saved = 0
      /\ UNCHANGED <<op, saved, result, stop, room, fate, answered>>
  BY DEF StartPlanning, SendPlan, PlanAnswers, PlanDelegates, stopVars, Untouched,
     RoomStays, TypeOK, CallIsOnRecord, OperationIsOnRecord
<1>2. pc' \notin {"idle", "find", "begin", "complete", "worker", "workers", "ask"}
      /\ pc \notin {"idle", "find", "complete", "worker"}
  BY DEF StartPlanning, SendPlan, PlanAnswers, PlanDelegates
<1>3. FatesAreOfTheCall' /\ FinalsAreAnswered'
  BY <1>1, <1>2 DEF FatesAreOfTheCall, FinalsAreAnswered
<1>4. CASE StartPlanning
  <2>1. /\ pc = "start" /\ pc' = "plan" /\ Stage(op) = "Prepared"
        /\ MoveTo(op, "Planning")
        /\ UNCHANGED <<operation, text, planned, synthesized>>
    BY <1>4 DEF StartPlanning, MarkPlanning, Transition, Untouched, turnVars, CallIsOnRecord
  <2>2. /\ LedgerTypeOK' /\ records'[op].stage = "Planning"
        /\ \A other \in Ops \ {op} : records'[other] = records[other]
    BY <1>1, <2>1, RecordMoved DEF Stages, TypeOK
  <2>3. StopTypeOK'
    BY <1>1, <1>4, RegisterType, OrchestrationConstants DEF StartPlanning, TypeOK, Turns
  <2>4. TypeOK'
    BY <1>1, <2>1, <2>2, <2>3 DEF TypeOK, Steps
  <2>5. CallIsOnRecord' /\ OperationIsOnRecord'
    BY <1>1, <2>1, <2>2 DEF CallIsOnRecord, OperationIsOnRecord, Stage
  <2>6. TurnsAreOnRecord' /\ CompletedIsAnswered' /\ PacketIsHonest'
    BY <1>1, <2>1, <2>2 DEF TurnsAreOnRecord, TurnsOnce, CompletedIsAnswered,
       PacketIsHonest, Stage
  <2>. QED
    BY <1>3, <2>4, <2>5, <2>6
<1>5. CASE SendPlan
  <2>1. /\ pc = "plan" /\ pc' = "planning" /\ Stage(op) = "Planning" /\ planned[op] = 0
        /\ planned' = [planned EXCEPT ![op] = @ + 1] /\ planned[op] < MaxTurns
        /\ UNCHANGED <<operation, text, records, token, synthesized>>
    BY <1>5 DEF SendPlan, stopVars, CallIsOnRecord, TurnsAreOnRecord
  <2>2. /\ planned' \in [Ops -> 0..MaxTurns] /\ planned'[op] = 1
        /\ \A other \in Ops \ {op} : planned'[other] = planned[other]
    BY <1>1, <2>1, OrchestrationConstants DEF TypeOK
  <2>3. TypeOK'
    BY <1>1, <2>1, <2>2 DEF TypeOK, LedgerTypeOK, StopTypeOK, Steps
  <2>4. CallIsOnRecord' /\ OperationIsOnRecord'
    BY <1>1, <2>1 DEF CallIsOnRecord, OperationIsOnRecord, Stage
  <2>5. TurnsAreOnRecord' /\ CompletedIsAnswered' /\ PacketIsHonest'
    BY <1>1, <2>1, <2>2 DEF TurnsAreOnRecord, TurnsOnce, CompletedIsAnswered,
       PacketIsHonest, Stage
  <2>. QED
    BY <1>3, <2>3, <2>4, <2>5
<1>6. CASE PlanAnswers \/ PlanDelegates
  <2>1. PICK plan \in Plans : /\ PlanAccepted(plan) /\ operation' = AcceptPlan(plan)
                              /\ text' \in {text, plan.answer}
    BY <1>6 DEF PlanAnswers, PlanDelegates
  <2>2. /\ OperationTypeOK(operation') /\ operation'.outcomes = <<>>
        /\ Distinct(operation'.links) /\ text' \in Texts
        /\ Len(operation'.links) \in Nat
    BY <2>1, AcceptedPlan, LinksAreSeqs, ConductorConstants DEF TypeOK, OperationTypeOK
  <2>3. /\ pc = "planning" /\ Stage(op) = "Planning"
        /\ UNCHANGED <<token, planned, synthesized>>
    BY <1>6 DEF PlanAnswers, PlanDelegates, stopVars, Untouched, turnVars, CallIsOnRecord
  <2>4. /\ LedgerTypeOK'
        /\ \/ pc' = "final" /\ records'[op].stage = "Synthesizing"
           \/ pc' = "saving" /\ records' = records
        /\ \A other \in Ops \ {op} : records'[other] = records[other]
    <3>1. CASE PlanAnswers
      <4>1. pc' = "final" /\ MoveTo(op, "Synthesizing")
        BY <3>1 DEF PlanAnswers, MarkSynthesizing, Transition
      <4>. QED
        BY <1>1, <4>1, RecordMoved DEF Stages, TypeOK
    <3>2. CASE PlanDelegates
      BY <3>2 DEF PlanDelegates, TypeOK, LedgerTypeOK
    <3>. QED
      BY <1>6, <3>1, <3>2
  <2>5. TypeOK'
    BY <1>1, <2>2, <2>3, <2>4 DEF TypeOK, StopTypeOK, Steps
  <2>6. CallIsOnRecord'
    BY <1>1, <2>3, <2>4 DEF CallIsOnRecord, Stage
  <2>7. OperationIsOnRecord'
    BY <1>1, <2>2, <2>3, <2>4 DEF OperationIsOnRecord, Stage
  <2>8. TurnsAreOnRecord' /\ CompletedIsAnswered' /\ PacketIsHonest'
    BY <1>1, <2>2, <2>3, <2>4 DEF TurnsAreOnRecord, TurnsOnce, CompletedIsAnswered,
       PacketIsHonest, Stage
  <2>. QED
    BY <1>3, <2>5, <2>6, <2>7, <2>8
<1>. QED
  BY <1>4, <1>5, <1>6

\* The delegations are saved in the Room, then recorded.
LEMMA DelegationKeeps ==
  ASSUME OrchestrationInv, SaveTask \/ Delegate
  PROVE  OrchestrationInv'
<1>. USE DEF OrchestrationInv, At, Goto
<1>1. /\ pc = "saving" /\ op \in Ops /\ Stage(op) = "Planning"
      /\ operation.outcomes = <<>> /\ Distinct(operation.links)
      /\ operation.links \in Links /\ Len(operation.links) \in 0..MaxWorkers
      /\ UNCHANGED <<op, operation, text, result, token, stop, fate, answered,
                     planned, synthesized>>
  BY LinksAreSeqs DEF SaveTask, Delegate, stopVars, turnVars, Untouched, RoomStays, TypeOK,
     OperationTypeOK, CallIsOnRecord, OperationIsOnRecord
<1>2. PacketIsHonest'
  BY <1>1 DEF PacketIsHonest
<1>3. CASE SaveTask
  <2>1. /\ pc' = pc /\ records' = records /\ saved < Len(operation.links)
        /\ saved' = saved + 1
        /\ room' = room \cup {Task(<<op, saved', operation.links[saved']>>)}
    BY <1>3 DEF SaveTask
  <2>2. /\ saved' \in 1..Len(operation.links) /\ saved' \in 1..MaxWorkers
        /\ saved' \in 0..MaxWorkers
    BY <1>1, <2>1, ConductorConstants DEF TypeOK
  <2>3. <<op, saved', operation.links[saved']>> \in Delegations
    BY <1>1, <2>2, LinksAreSeqs DEF Delegations
  <2>4. room' \subseteq Messages
    BY <2>1, <2>3 DEF TypeOK, Messages
  <2>5. /\ \A o \in Ops : Final(o) \in room' => Final(o) \in room
        /\ \A id \in Delegations : Reply(id) \in room' => Reply(id) \in room
    BY <2>1, <2>3, MessagesDiffer
  <2>6. TypeOK'
    BY <1>1, <2>1, <2>2, <2>4 DEF TypeOK, LedgerTypeOK, StopTypeOK
  <2>7. OperationIsOnRecord'
    BY <1>1, <2>1, <2>2 DEF OperationIsOnRecord, Stage
  <2>8. CallIsOnRecord' /\ TurnsAreOnRecord' /\ CompletedIsAnswered'
    BY <1>1, <2>1 DEF CallIsOnRecord, TurnsAreOnRecord, TurnsOnce, CompletedIsAnswered, Stage
  <2>9. FatesAreOfTheCall' /\ FinalsAreAnswered'
    BY <1>1, <2>1, <2>5 DEF FatesAreOfTheCall, FinalsAreAnswered
  <2>. QED
    BY <1>2, <2>6, <2>7, <2>8, <2>9
<1>4. CASE Delegate
  <2>1. /\ pc' = "workers" /\ UNCHANGED <<saved, room>>
        /\ records' = [records EXCEPT ![op] = [stage |-> "Delegating", links |-> operation.links]]
    BY <1>4 DEF Delegate, MarkDelegating, Record, Untouched, RoomStays
  <2>2. /\ LedgerTypeOK'
        /\ records'[op] = [stage |-> "Delegating", links |-> operation.links]
        /\ \A other \in Ops \ {op} : records'[other] = records[other]
    BY <1>1, <2>1 DEF TypeOK, LedgerTypeOK, Stages
  <2>3. TypeOK'
    BY <1>1, <2>1, <2>2 DEF TypeOK, StopTypeOK, Steps
  <2>4. CallIsOnRecord' /\ OperationIsOnRecord'
    BY <1>1, <2>1, <2>2 DEF CallIsOnRecord, OperationIsOnRecord, Stage
  <2>5. TurnsAreOnRecord' /\ CompletedIsAnswered'
    BY <1>1, <2>1, <2>2 DEF TurnsAreOnRecord, TurnsOnce, CompletedIsAnswered, Stage
  <2>6. FatesAreOfTheCall' /\ FinalsAreAnswered'
    BY <1>1, <2>1 DEF FatesAreOfTheCall, FinalsAreAnswered
  <2>. QED
    BY <1>2, <2>3, <2>4, <2>5, <2>6
<1>. QED
  BY <1>3, <1>4

\* The delegation that is dispatched next is not one whose outcome is known.
LEMMA CurrentLink ==
  ASSUME TypeOK, OperationIsOnRecord, op \in Ops, Current <= Len(operation.links)
  PROVE  /\ Link \in Delegations
         /\ Len(operation.outcomes) \in Nat /\ Len(operation.links) \in Nat
         /\ DOMAIN operation.outcomes = 1..Len(operation.outcomes)
         /\ \A i \in DOMAIN operation.outcomes :
              /\ <<op, i, operation.links[i]>> \in Delegations
              /\ <<op, i, operation.links[i]>> # Link
<1>1. /\ operation.links \in Seq(Workers) /\ Len(operation.links) \in 0..MaxWorkers
      /\ operation.outcomes \in Seq(Outcomes) /\ DOMAIN operation.links = 1..Len(operation.links)
  BY LinksAreSeqs DEF TypeOK, OperationTypeOK
<1>2. /\ Len(operation.outcomes) \in Nat /\ Current \in 1..MaxWorkers
      /\ Current \in 1..Len(operation.links)
      /\ DOMAIN operation.outcomes = 1..Len(operation.outcomes)
  BY <1>1, ConductorConstants DEF Current
<1>3. \A i \in 1..Len(operation.links) : operation.links[i] \in Workers
  BY <1>1
<1>4. Link \in Delegations
  BY <1>2, <1>3 DEF Link, Delegations
<1>5. ASSUME NEW i \in DOMAIN operation.outcomes
      PROVE  /\ <<op, i, operation.links[i]>> \in Delegations
             /\ <<op, i, operation.links[i]>> # Link
  <2>1. i \in 1..MaxWorkers /\ i \in 1..Len(operation.links) /\ i # Current
    BY <1>1, <1>2, ConductorConstants DEF OperationIsOnRecord, Current
  <2>. QED
    BY <1>3, <2>1 DEF Link, Delegations
<1>. QED
  BY <1>1, <1>2, <1>4, <1>5

\* The outcome of a dispatch is recorded with what the dispatcher knows of it.
LEMMA OutcomeKeeps ==
  ASSUME OrchestrationInv, pc \in {"workers", "worker"}, Current <= Len(operation.links),
         NEW outcome \in Outcomes, Outcome(outcome),
         UNCHANGED <<records, stop, answered, planned, synthesized>>, StopTypeOK',
         NEW now \in Fates \ {"running"}, fate' = [fate EXCEPT ![Link] = now],
         room' \in {room, room \cup {Reply(Link)}},
         Reply(Link) \in room' => now = "started",
         outcome = "Failed" => now \in {"none", "failed"},
         outcome # "Failed" => now = "started"
  PROVE  OrchestrationInv'
<1>. USE DEF OrchestrationInv
<1>. DEFINE outcomes == Append(operation.outcomes, outcome)
<1>1. op \in Ops
  BY DEF TypeOK, CallIsOnRecord
<1>2. /\ Link \in Delegations
      /\ Len(operation.outcomes) \in Nat /\ Len(operation.links) \in Nat
      /\ DOMAIN operation.outcomes = 1..Len(operation.outcomes)
      /\ \A i \in DOMAIN operation.outcomes :
           /\ <<op, i, operation.links[i]>> \in Delegations
           /\ <<op, i, operation.links[i]>> # Link
  BY <1>1, CurrentLink
<1>3. /\ outcomes \in Seq(Outcomes) /\ Len(outcomes) = Current
      /\ DOMAIN outcomes = 1..Current
      /\ \A i \in 1..Len(operation.outcomes) : outcomes[i] = operation.outcomes[i]
      /\ outcomes[Current] = outcome
  BY DEF TypeOK, OperationTypeOK, Current
<1>4. /\ pc' = "workers" /\ operation'.outcomes = outcomes
      /\ operation'.links = operation.links /\ OperationTypeOK(operation')
      /\ UNCHANGED <<op, saved, text, result>>
  <2>1. operation' = RecordOutcomes(operation, outcomes)
    BY DEF Outcome
  <2>. HIDE DEF outcomes
  <2>. QED
    BY <1>3, <2>1 DEF Outcome, RecordOutcomes, TypeOK, OperationTypeOK, Stages
<1>. HIDE DEF outcomes
<1>5. /\ fate' \in [Delegations -> Fates] /\ fate'[Link] = now
      /\ \A id \in Delegations : id # Link => fate'[id] = fate[id]
  BY <1>2 DEF TypeOK
<1>6. /\ room' \subseteq Messages
      /\ \A o \in Ops : Final(o) \in room' => Final(o) \in room
      /\ \A id \in Delegations : id # Link /\ Reply(id) \in room' => Reply(id) \in room
  BY <1>2, MessagesDiffer DEF TypeOK, Messages
<1>7. TypeOK'
  BY <1>4, <1>5, <1>6 DEF TypeOK, LedgerTypeOK, Steps
<1>8. CallIsOnRecord'
  BY <1>4 DEF CallIsOnRecord, Stage
<1>9. OperationIsOnRecord'
  BY <1>2, <1>3, <1>4 DEF OperationIsOnRecord, Stage
<1>10. TurnsAreOnRecord' /\ CompletedIsAnswered'
  BY <1>4 DEF TurnsAreOnRecord, TurnsOnce, CompletedIsAnswered, Stage
<1>11. FatesAreOfTheCall'
  BY <1>4, <1>5, <1>6 DEF FatesAreOfTheCall
<1>12. FinalsAreAnswered'
  BY <1>1, <1>4, <1>6 DEF FinalsAreAnswered
<1>13. PacketIsHonest'
  <2>. SUFFICES ASSUME NEW i \in DOMAIN outcomes
                PROVE  LET then == fate'[<<op, i, operation.links[i]>>]
                       IN /\ outcomes[i] = "Failed" => then \in {"none", "failed"}
                          /\ outcomes[i] # "Failed" => then = "started"
    BY <1>4 DEF PacketIsHonest
  <2>1. CASE i = Current
    BY <1>3, <1>5, <2>1 DEF Link
  <2>2. CASE i # Current
    <3>1. i \in DOMAIN operation.outcomes /\ outcomes[i] = operation.outcomes[i]
      BY <1>2, <1>3, <2>2 DEF Current
    <3>. QED
      BY <1>2, <1>5, <3>1 DEF PacketIsHonest
  <2>. QED
    BY <2>1, <2>2
<1>. QED
  BY <1>7, <1>8, <1>9, <1>10, <1>11, <1>12, <1>13

\* The dispatch of a delegation.
LEMMA WorkersKeep ==
  ASSUME OrchestrationInv,
         WorkerKnown \/ WorkerRefused \/ WorkerStarts \/ WorkerReplies \/ WorkerFails
  PROVE  OrchestrationInv'
<1>. USE DEF OrchestrationInv, At, HasWork
<1>1. /\ op \in Ops /\ pc \in {"workers", "worker"} /\ Current <= Len(operation.links)
      /\ UNCHANGED <<records, stop, answered, planned, synthesized>>
  <2>1. pc = "worker" => Current <= Len(operation.links)
    BY LinksAreSeqs DEF OperationIsOnRecord, Current, TypeOK, OperationTypeOK
  <2>. QED
    BY <2>1 DEF WorkerKnown, WorkerRefused, WorkerStarts, WorkerReplies, WorkerFails,
       turnVars, stopVars, Untouched, RoomStays, TypeOK, CallIsOnRecord
<1>2. Link \in Delegations
  BY <1>1, CurrentLink
<1>3. CASE WorkerKnown
  <2>1. /\ fate[Link] \in Fates \ {"running"} /\ fate' = fate /\ room' = room /\ pc = "workers"
        /\ Reply(Link) \in room \/ fate[Link] # "none"
        /\ Outcome(OutcomeOf(Link)) /\ StopTypeOK'
    BY <1>2, <1>3 DEF WorkerKnown, Untouched, RoomStays, TypeOK, FatesAreOfTheCall,
       stopVars, StopTypeOK
  <2>2. fate' = [fate EXCEPT ![Link] = fate[Link]]
    BY <1>2, <2>1 DEF TypeOK
  <2>3. /\ Reply(Link) \in room => fate[Link] = "started"
        /\ OutcomeOf(Link) = "Failed" => fate[Link] \in {"none", "failed"}
        /\ OutcomeOf(Link) # "Failed" => fate[Link] = "started"
        /\ OutcomeOf(Link) \in Outcomes
    BY <1>2, <2>1 DEF OutcomeOf, FatesAreOfTheCall, Outcomes, Fates
  <2>. QED
    BY <1>1, <2>1, <2>2, <2>3, OutcomeKeeps
<1>4. CASE WorkerRefused
  <2>1. PICK now \in {"none", "failed"} : fate' = [fate EXCEPT ![Link] = now]
    BY <1>4 DEF WorkerRefused
  <2>2. /\ room' = room /\ Reply(Link) \notin room /\ Outcome("Failed") /\ StopTypeOK'
    BY <1>4 DEF WorkerRefused, stopVars, TypeOK, StopTypeOK
  <2>. QED
    BY <1>1, <2>1, <2>2, OutcomeKeeps DEF Fates, Outcomes
<1>5. CASE WorkerReplies
  <2>1. /\ fate' = [fate EXCEPT ![Link] = "started"]
        /\ room' = room \cup {Reply(Link)} /\ Outcome("Succeeded") /\ StopTypeOK'
    BY <1>5 DEF WorkerReplies, Drop, TypeOK, StopTypeOK, Tokens
  <2>. QED
    BY <1>1, <2>1, OutcomeKeeps DEF Fates, Outcomes
<1>6. CASE WorkerFails
  <2>1. /\ \/ fate' = [fate EXCEPT ![Link] = "started"] /\ Outcome("Unknown")
           \/ fate' = [fate EXCEPT ![Link] = "failed"] /\ Outcome("Failed")
        /\ room' = room /\ pc = "worker" /\ StopTypeOK'
    BY <1>6 DEF WorkerFails, Drop, TypeOK, StopTypeOK, Tokens
  <2>2. Reply(Link) \notin room
    BY <1>2, <2>1 DEF FatesAreOfTheCall
  <2>. QED
    BY <1>1, <2>1, <2>2, OutcomeKeeps DEF Fates, Outcomes
<1>7. CASE WorkerStarts
  <2>1. /\ pc = "workers" /\ pc' = "worker" /\ Reply(Link) \notin room
        /\ fate' = [fate EXCEPT ![Link] = "running"]
        /\ UNCHANGED <<op, operation, saved, text, result, room>>
    BY <1>7 DEF WorkerStarts, Goto
  <2>2. StopTypeOK'
    BY <1>1, <1>7, RegisterType, OrchestrationConstants DEF WorkerStarts, TypeOK, Turns
  <2>3. /\ fate' \in [Delegations -> Fates] /\ fate'[Link] = "running"
        /\ \A id \in Delegations : id # Link => fate'[id] = fate[id]
    BY <1>2, <2>1 DEF TypeOK, Fates
  <2>4. Link' = Link
    BY <2>1 DEF Link, Current
  <2>5. TypeOK'
    BY <1>1, <2>1, <2>2, <2>3 DEF TypeOK, LedgerTypeOK, Steps
  <2>6. CallIsOnRecord'
    BY <1>1, <2>1 DEF CallIsOnRecord, Stage
  <2>7. OperationIsOnRecord'
    <3>1. Len(operation.outcomes) < Len(operation.links)
      BY <1>1, CurrentLink DEF Current
    <3>. QED
      BY <1>1, <2>1, <3>1 DEF OperationIsOnRecord, Stage
  <2>8. TurnsAreOnRecord' /\ CompletedIsAnswered' /\ FinalsAreAnswered'
    BY <1>1, <2>1 DEF TurnsAreOnRecord, TurnsOnce, CompletedIsAnswered,
       FinalsAreAnswered, Stage
  <2>9. FatesAreOfTheCall'
    BY <2>1, <2>3, <2>4 DEF FatesAreOfTheCall
  <2>10. PacketIsHonest'
    <3>1. \A i \in DOMAIN operation.outcomes :
            /\ <<op, i, operation.links[i]>> \in Delegations
            /\ <<op, i, operation.links[i]>> # Link
      BY <1>1, CurrentLink
    <3>. QED
      BY <2>1, <2>3, <3>1 DEF PacketIsHonest
  <2>. QED
    BY <2>5, <2>6, <2>7, <2>8, <2>9, <2>10
<1>. QED
  BY <1>3, <1>4, <1>5, <1>6, <1>7

\* The synthesis turn and the final message.
LEMMA SynthesisKeeps ==
  ASSUME OrchestrationInv,
         WorkersDone \/ StartSynthesis \/ SendSynthesis \/ SynthesisArrives \/ SaveFinal
  PROVE  OrchestrationInv'
<1>. USE DEF OrchestrationInv, At, Goto
<1>1. /\ op \in Ops
      /\ UNCHANGED <<op, operation, saved, result, stop, fate, planned>>
  BY DEF WorkersDone, StartSynthesis, SendSynthesis, SynthesisArrives, SaveFinal,
     stopVars, turnVars, Untouched, RoomStays, TypeOK, CallIsOnRecord
<1>2. pc' \notin {"idle", "find", "begin", "start", "plan", "planning", "saving",
                  "worker", "workers"}
      /\ pc \notin {"idle", "find", "worker", "complete"}
  BY DEF WorkersDone, StartSynthesis, SendSynthesis, SynthesisArrives, SaveFinal
<1>3. PacketIsHonest'
  BY <1>1 DEF PacketIsHonest
<1>4. CASE WorkersDone \/ SynthesisArrives
  <2>1. /\ \/ pc = "workers" /\ pc' = "synthesize"
           \/ pc = "synthesizing" /\ pc' = "final"
        /\ text' \in {text} \cup Texts
        /\ UNCHANGED <<records, token, room, synthesized, answered>>
    BY <1>4 DEF WorkersDone, SynthesisArrives, stopVars, turnVars, Untouched, RoomStays
  <2>2. TypeOK'
    BY <1>1, <2>1 DEF TypeOK, LedgerTypeOK, StopTypeOK, Steps
  <2>3. CallIsOnRecord' /\ OperationIsOnRecord'
    BY <1>1, <2>1 DEF CallIsOnRecord, OperationIsOnRecord, Stage
  <2>4. TurnsAreOnRecord' /\ CompletedIsAnswered'
    BY <1>1, <2>1 DEF TurnsAreOnRecord, TurnsOnce, CompletedIsAnswered, Stage
  <2>5. FatesAreOfTheCall' /\ FinalsAreAnswered'
    BY <1>1, <1>2, <2>1 DEF FatesAreOfTheCall, FinalsAreAnswered
  <2>. QED
    BY <1>3, <2>2, <2>3, <2>4, <2>5
<1>5. CASE StartSynthesis
  <2>1. /\ pc = "synthesize" /\ pc' = "ask" /\ Stage(op) = "Delegating"
        /\ MoveTo(op, "Synthesizing")
        /\ UNCHANGED <<text, room, synthesized, answered>>
    BY <1>5 DEF StartSynthesis, MarkSynthesizing, Transition, turnVars, Untouched,
       RoomStays, CallIsOnRecord
  <2>2. /\ LedgerTypeOK' /\ records'[op].stage = "Synthesizing"
        /\ \A other \in Ops \ {op} : records'[other] = records[other]
    BY <1>1, <2>1, RecordMoved DEF Stages, TypeOK
  <2>3. StopTypeOK'
    BY <1>1, <1>5, RegisterType, OrchestrationConstants DEF StartSynthesis, TypeOK, Turns
  <2>4. TypeOK'
    BY <1>1, <2>1, <2>2, <2>3 DEF TypeOK, Steps
  <2>5. CallIsOnRecord' /\ OperationIsOnRecord'
    BY <1>1, <2>1, <2>2 DEF CallIsOnRecord, OperationIsOnRecord, Stage
  <2>6. TurnsAreOnRecord' /\ CompletedIsAnswered'
    BY <1>1, <2>1, <2>2 DEF TurnsAreOnRecord, TurnsOnce, CompletedIsAnswered, Stage
  <2>7. FatesAreOfTheCall' /\ FinalsAreAnswered'
    BY <1>1, <1>2, <2>1 DEF FatesAreOfTheCall, FinalsAreAnswered
  <2>. QED
    BY <1>3, <2>4, <2>5, <2>6, <2>7
<1>6. CASE SendSynthesis
  <2>1. /\ pc = "ask" /\ pc' = "synthesizing" /\ Stage(op) = "Synthesizing"
        /\ synthesized[op] = 0 /\ synthesized[op] < MaxTurns
        /\ synthesized' = [synthesized EXCEPT ![op] = @ + 1]
        /\ UNCHANGED <<records, token, text, room, answered>>
    BY <1>6 DEF SendSynthesis, stopVars, RoomStays, CallIsOnRecord, TurnsAreOnRecord
  <2>2. /\ synthesized' \in [Ops -> 0..MaxTurns] /\ synthesized'[op] = 1
        /\ \A other \in Ops \ {op} : synthesized'[other] = synthesized[other]
    BY <1>1, <2>1, OrchestrationConstants DEF TypeOK
  <2>3. TypeOK'
    BY <1>1, <2>1, <2>2 DEF TypeOK, LedgerTypeOK, StopTypeOK, Steps
  <2>4. CallIsOnRecord' /\ OperationIsOnRecord'
    BY <1>1, <2>1 DEF CallIsOnRecord, OperationIsOnRecord, Stage
  <2>5. TurnsAreOnRecord' /\ CompletedIsAnswered'
    BY <1>1, <2>1, <2>2 DEF TurnsAreOnRecord, TurnsOnce, CompletedIsAnswered, Stage
  <2>6. FatesAreOfTheCall' /\ FinalsAreAnswered'
    BY <1>1, <1>2, <2>1 DEF FatesAreOfTheCall, FinalsAreAnswered
  <2>. QED
    BY <1>3, <2>3, <2>4, <2>5, <2>6
<1>7. CASE SaveFinal
  <2>1. /\ pc = "final" /\ pc' = "complete"
        /\ room' = room \cup {Final(op)} /\ answered' = answered \cup {op}
        /\ UNCHANGED <<records, token, text, synthesized>>
    BY <1>7 DEF SaveFinal, stopVars, turnVars
  <2>2. /\ room' \subseteq Messages
        /\ \A o \in Ops : Final(o) \in room' => Final(o) \in room \/ o = op
        /\ \A id \in Delegations : Reply(id) \in room' => Reply(id) \in room
    BY <1>1, <2>1, MessagesDiffer DEF TypeOK, Messages
  <2>3. TypeOK'
    BY <1>1, <2>1, <2>2 DEF TypeOK, LedgerTypeOK, StopTypeOK, Steps
  <2>4. CallIsOnRecord' /\ OperationIsOnRecord'
    BY <1>1, <2>1 DEF CallIsOnRecord, OperationIsOnRecord, Stage
  <2>5. TurnsAreOnRecord' /\ CompletedIsAnswered'
    BY <1>1, <2>1 DEF TurnsAreOnRecord, TurnsOnce, CompletedIsAnswered, Stage
  <2>6. FatesAreOfTheCall' /\ FinalsAreAnswered'
    BY <1>1, <1>2, <2>1, <2>2 DEF FatesAreOfTheCall, FinalsAreAnswered
  <2>. QED
    BY <1>3, <2>3, <2>4, <2>5, <2>6
<1>. QED
  BY <1>4, <1>5, <1>6, <1>7

\* The owner's stop, a restored backup, and the end of the process: what was in
\* flight is unknown afterwards.
LEMMA EnvironmentKeeps ==
  ASSUME OrchestrationInv, Stop \/ RestoreRooms \/ Crash
  PROVE  OrchestrationInv'
<1>. USE DEF OrchestrationInv
<1>1. CASE Stop
  <2>1. UNCHANGED <<records, pc, op, operation, saved, text, result, room, fate,
                    planned, synthesized, answered>>
    BY <1>1 DEF Stop, callVars, turnVars, Untouched, RoomStays
  <2>2. StopTypeOK'
    <3>1. token' = token \/ \E ts \in SUBSET Turns : CancelRoom(ts)
      BY <1>1 DEF Stop, RequestStop, StopStep, StopAtDispatcher, StopAtOrchestrator, Turns
    <3>2. token' \in [Turns -> Tokens]
      BY <3>1 DEF CancelRoom, TypeOK, StopTypeOK, Tokens
    <3>3. stop' \in [at : {"none", "dispatcher", "orchestrator", "accepted"}, hit : BOOLEAN]
      <4>1. (Live(DispatcherTurns) # {}) \in BOOLEAN
        OBVIOUS
      <4>2. CASE StopAtDispatcher
        BY <4>1, <4>2 DEF StopAtDispatcher
      <4>3. CASE RequestStop
        BY <4>3 DEF RequestStop
      <4>4. CASE StopAtOrchestrator
        <5>1. \/ stop' = [at |-> "accepted", hit |-> TRUE]
              \/ \E next \in {"dispatcher", "none"} : stop' = [at |-> next, hit |-> FALSE]
          BY <4>4, Zenon DEF StopAtOrchestrator
        <5>2. \A next \in {"dispatcher", "none", "accepted"}, hit \in BOOLEAN :
                [at |-> next, hit |-> hit]
                  \in [at : {"none", "dispatcher", "orchestrator", "accepted"}, hit : BOOLEAN]
          OBVIOUS
        <5>. QED
          BY <5>1, <5>2, Zenon
      <4>. QED
        BY <1>1, <4>2, <4>3, <4>4 DEF Stop, StopStep
    <3>. QED
      BY <3>2, <3>3 DEF StopTypeOK
  <2>3. TypeOK'
    BY <2>1, <2>2 DEF TypeOK, LedgerTypeOK
  <2>. QED
    BY <2>1, <2>3 DEF CallIsOnRecord, OperationIsOnRecord, TurnsAreOnRecord, TurnsOnce,
       FatesAreOfTheCall, FinalsAreAnswered, CompletedIsAnswered, PacketIsHonest, Stage,
       Link, Current
<1>2. CASE RestoreRooms
  <2>1. /\ room' = {}
        /\ UNCHANGED <<records, pc, op, operation, saved, text, result, token, stop, fate,
                       planned, synthesized, answered>>
    BY <1>2 DEF RestoreRooms, callVars, stopVars, turnVars
  <2>2. TypeOK'
    BY <2>1 DEF TypeOK, LedgerTypeOK, StopTypeOK
  <2>. QED
    BY <2>1, <2>2 DEF CallIsOnRecord, OperationIsOnRecord, TurnsAreOnRecord, TurnsOnce,
       FatesAreOfTheCall, FinalsAreAnswered, CompletedIsAnswered, PacketIsHonest, Stage,
       Link, Current
<1>3. CASE Crash
  <2>1. /\ records' = Normalized(records)
        /\ fate' = [id \in Delegations |-> IF fate[id] = "running" THEN "started" ELSE fate[id]]
        /\ pc' = "idle" /\ op' = NoOp /\ operation' = NoOperation
        /\ saved' = 0 /\ text' = "none" /\ result' = "None"
        /\ token' = [t \in Turns |-> "none"] /\ stop' = NoStop
        /\ UNCHANGED <<room, planned, synthesized, answered>>
    BY <1>3 DEF Crash, ReopenLedger, turnVars
  <2>2. /\ LedgerTypeOK'
        /\ \A o \in Ops : records'[o] = records[o] \/ records'[o].stage = "Unknown"
    BY <2>1 DEF Normalized, TypeOK, LedgerTypeOK, Stages
  <2>3. fate' \in [Delegations -> Fates]
    BY <2>1 DEF TypeOK, Fates
  <2>4. /\ StopTypeOK' /\ OperationTypeOK(operation') /\ saved' \in 0..MaxWorkers
        /\ pc' \in Steps /\ text' \in Texts /\ result' \in Results
    BY <2>1, LinksAreSeqs, ConductorConstants DEF StopTypeOK, NoStop, Tokens,
       OperationTypeOK, NoOperation, Stages, Steps, Texts, Results
  <2>5. TypeOK'
    BY <2>1, <2>2, <2>3, <2>4 DEF TypeOK
  <2>6. CallIsOnRecord' /\ OperationIsOnRecord'
    BY <2>1, <2>2 DEF CallIsOnRecord, OperationIsOnRecord, NoOperation, Stage
  <2>7. TurnsAreOnRecord' /\ CompletedIsAnswered'
    BY <2>1, <2>2 DEF TurnsAreOnRecord, TurnsOnce, CompletedIsAnswered, Stage
  <2>8. FatesAreOfTheCall' /\ FinalsAreAnswered' /\ PacketIsHonest'
    BY <2>1 DEF FatesAreOfTheCall, FinalsAreAnswered, PacketIsHonest, NoOperation
  <2>. QED
    BY <2>5, <2>6, <2>7, <2>8
<1>. QED
  BY <1>1, <1>2, <1>3

\* The invariant behind the theorems.
LEMMA OrchestrationInvariant == Spec => []OrchestrationInv
<1>1. Init => OrchestrationInv
  <2>. SUFFICES ASSUME Init PROVE OrchestrationInv
    OBVIOUS
  <2>1. TypeOK
    <3>1. LedgerTypeOK /\ StopTypeOK /\ OperationTypeOK(operation)
      BY LinksAreSeqs DEF Init, LedgerInit, StopInit, LedgerTypeOK, StopTypeOK, Absent,
         Record, NoStop, Tokens, OperationTypeOK, NoOperation, Stages
    <3>2. 0 \in 0..MaxWorkers /\ 0 \in 0..MaxTurns
      BY ConductorConstants, OrchestrationConstants
    <3>. QED
      BY <3>1, <3>2 DEF Init, TypeOK, Fates, Steps, Texts, Results
  <2>2. /\ pc = "idle" /\ op = NoOp /\ operation = NoOperation /\ saved = 0
        /\ room = {} /\ fate = [id \in Delegations |-> "none"]
        /\ \A o \in Ops : planned[o] = 0 /\ synthesized[o] = 0 /\ Stage(o) = "Absent"
    BY DEF Init, LedgerInit, Absent, Record, Stage
  <2>3. CallIsOnRecord /\ OperationIsOnRecord /\ PacketIsHonest
    BY <2>2 DEF CallIsOnRecord, OperationIsOnRecord, PacketIsHonest, NoOperation
  <2>4. TurnsAreOnRecord /\ FatesAreOfTheCall /\ FinalsAreAnswered /\ CompletedIsAnswered
    BY <2>2 DEF TurnsAreOnRecord, TurnsOnce, FatesAreOfTheCall, FinalsAreAnswered,
       CompletedIsAnswered, Stage
  <2>. QED
    BY <2>1, <2>3, <2>4 DEF OrchestrationInv
<1>2. OrchestrationInv /\ [Next]_vars => OrchestrationInv'
  <2>1. ASSUME OrchestrationInv, UNCHANGED vars
        PROVE  OrchestrationInv'
    BY <2>1 DEF vars, callVars, stopVars, turnVars, OrchestrationInv, TypeOK, LedgerTypeOK,
       StopTypeOK, CallIsOnRecord, OperationIsOnRecord, TurnsAreOnRecord, TurnsOnce,
       FatesAreOfTheCall, FinalsAreAnswered, CompletedIsAnswered, PacketIsHonest, Stage,
       Link, Current
  <2>. QED
    BY <2>1, ReturnsKeep, SearchKeeps, ReserveKeeps, PlanKeeps, DelegationKeeps, WorkersKeep,
       SynthesisKeeps, EnvironmentKeeps DEF Next, CallStep
<1>. QED
  BY <1>1, <1>2, PTL DEF Spec

-----------------------------------------------------------------------------
\* Types of an orchestration.
THEOREM OrchestrationTypeCorrect == Spec => []TypeOK
<1>1. OrchestrationInv => TypeOK
  BY DEF OrchestrationInv
<1>. QED
  BY <1>1, OrchestrationInvariant, PTL

\* As long as an operation has its record, its conductor is asked for one plan and
\* one synthesis: what is asked again is first looked up, and its stage forbids it.
THEOREM ConductorAskedOnce == Spec => []TurnsOnce
<1>1. OrchestrationInv => TurnsOnce
  BY DEF OrchestrationInv, TurnsAreOnRecord
<1>. QED
  BY <1>1, OrchestrationInvariant, PTL

\* A worker is only ever at work on a delegation that the ledger names.
THEOREM WorkersRecorded == Spec => []WorkersAreOnRecord
<1>1. OrchestrationInv => WorkersAreOnRecord
  <2>. SUFFICES ASSUME OrchestrationInv, NEW id \in Delegations, fate[id] = "running"
                PROVE  LET links == records[id[1]].links
                       IN /\ records[id[1]].stage = "Delegating"
                          /\ id[2] \in DOMAIN links /\ links[id[2]] = id[3]
                          /\ \A j \in DOMAIN links : links[j] = id[3] => j = id[2]
    BY DEF WorkersAreOnRecord
  <2>1. pc = "worker" /\ id = Link /\ op \in Ops
    BY DEF OrchestrationInv, FatesAreOfTheCall, CallIsOnRecord, TypeOK
  <2>2. /\ records[op].stage = "Delegating" /\ operation.links = records[op].links
        /\ Distinct(records[op].links)
    BY <2>1 DEF OrchestrationInv, CallIsOnRecord, OperationIsOnRecord, Stage
  <2>3. id[1] = op /\ id[2] = Current /\ id[3] = operation.links[Current]
    BY <2>1 DEF Link
  <2>4. Current \in DOMAIN operation.links
    BY <2>1, LinksAreSeqs DEF OrchestrationInv, OperationIsOnRecord, TypeOK,
       OperationTypeOK, Current
  <2>. QED
    BY <2>2, <2>3, <2>4 DEF Distinct
<1>. QED
  BY <1>1, OrchestrationInvariant, PTL

\* The final answer is saved before the operation is complete.
THEOREM CompletedOperationsAnswered == Spec => []CompletedIsAnswered
<1>1. OrchestrationInv => CompletedIsAnswered
  BY DEF OrchestrationInv
<1>. QED
  BY <1>1, OrchestrationInvariant, PTL

\* The conductor never hears "failed" of a worker that may have worked, nor
\* "completed" of one that never did.
THEOREM ConductorHearsTheTruth == Spec => []PacketIsHonest
<1>1. OrchestrationInv => PacketIsHonest
  BY DEF OrchestrationInv
<1>. QED
  BY <1>1, OrchestrationInvariant, PTL

\* As long as the final message is in the Room no call says that the outcome is
\* failed or unknown: only the search sees one, and it answers "duplicate".
THEOREM FinalMessagesReported == Spec => FinalIsReported
<1>1. OrchestrationInv /\ [Next]_vars =>
        (result' \in {"Failed", "Unknown"} /\ result' # result => Final(op) \notin room)
  <2>. SUFFICES ASSUME OrchestrationInv, [Next]_vars, result' \in {"Failed", "Unknown"},
                       result' # result
                PROVE  Final(op) \notin room
    OBVIOUS
  <2>1. \/ PlanRejected \/ BeginDecided \/ BeginUnknown \/ PlanFails
        \/ SynthesisFails \/ FinalRefused
    <3>. USE DEF Return, Goto, Outcome, Untouched
    <3>1. ~UNCHANGED vars /\ ~Stop /\ ~RestoreRooms
      BY DEF vars, callVars, Stop, RestoreRooms
    <3>2. ~Crash /\ \A o \in Ops : ~Call(o)
      BY DEF Crash, Call
    <3>3. ~(Refuse \/ FindFinal \/ FindNoFinal \/ BeginReserved \/ BeginFails
            \/ BeginPrepared \/ BeginDelegating \/ StartPlanning \/ StartFails \/ SendPlan)
      BY DEF Refuse, FindFinal, FindNoFinal, BeginReserved, BeginFails, BeginPrepared,
         BeginDelegating, StartPlanning, StartFails, SendPlan
    <3>4. ~(PlanAnswers \/ PlanDelegates \/ MarkFails \/ SaveTask \/ SaveTaskFails
            \/ Delegate \/ TaskMissing \/ WorkerKnown \/ WorkerRefused \/ WorkerStarts
            \/ WorkerReplies \/ WorkerFails)
      BY DEF PlanAnswers, PlanDelegates, MarkFails, SaveTask, SaveTaskFails, Delegate,
         TaskMissing, WorkerKnown, WorkerRefused, WorkerStarts, WorkerReplies, WorkerFails
    <3>5. ~(WorkersDone \/ StartSynthesis \/ SendSynthesis \/ SynthesisArrives
            \/ SaveFinal \/ NoClock \/ Complete)
      BY DEF WorkersDone, StartSynthesis, SendSynthesis, SynthesisArrives, SaveFinal,
         NoClock, Complete
    <3>. QED
      BY <3>1, <3>2, <3>3, <3>4, <3>5 DEF Next, CallStep
  <2>2. pc \notin {"idle", "find", "complete"}
    BY <2>1 DEF PlanRejected, BeginDecided, BeginUnknown, PlanFails, SynthesisFails,
       FinalRefused, At
  <2>. QED
    BY <2>2 DEF OrchestrationInv, FinalsAreAnswered
<1>. QED
  BY <1>1, OrchestrationInvariant, PTL DEF Spec, FinalIsReported
=============================================================================
