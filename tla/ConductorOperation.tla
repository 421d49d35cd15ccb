-------------------------- MODULE ConductorOperation --------------------------
(***************************************************************************)
(* The core of an orchestration (moe-core conductor.rs): what a conductor's   *)
(* plan must look like before anyone acts on it, and the operation object     *)
(* that one call fills with the outcomes of the workers.  IDs are derived     *)
(* from the source message, the conductor, the worker and its position, so    *)
(* here the tuples <<operation, position, worker>> are the IDs.               *)
(***************************************************************************)
EXTENDS Naturals, Sequences, FiniteSets

CONSTANTS Workers,     \* AI members of the Room that can receive a delegation
          Others,      \* everybody else a plan may name: owner, conductor,
                       \* humans, AIs nobody supports, strangers
          MaxWorkers   \* MAXIMUM_WORKERS

ASSUME ConductorConstants ==
  /\ Workers \cap Others = {}
  /\ MaxWorkers \in Nat \ {0}

\* Answers and tasks by their length: an answer of up to 100 000 bytes is valid
\* in a plan, a Room message takes 4 000.
Texts == {"none", "short", "long"}

\* A plan as the conductor wrote it: whether it is the envelope of version 1,
\* its mode, its answer, the workers it names and whether every task is bounded.
PlanTexts ==
  [envelope : BOOLEAN, mode : {"answer", "delegate"}, answer : Texts,
   targets : UNION {[1..n -> Workers \cup Others] : n \in 0..(MaxWorkers + 1)},
   bounded : BOOLEAN]

\* Fault: anybody can be named.
TargetsOfAnyone(plan) ==
  /\ plan.bounded
  /\ \A i, j \in DOMAIN plan.targets : plan.targets[i] = plan.targets[j] => i = j

\* validate_delegations
TargetsAccepted(plan) ==
  /\ plan.bounded
  /\ \A i \in DOMAIN plan.targets : plan.targets[i] \in Workers
  /\ \A i, j \in DOMAIN plan.targets : plan.targets[i] = plan.targets[j] => i = j

\* parse_conductor_plan_v1 returns Ok.
PlanAccepted(plan) ==
  /\ plan.envelope
  /\ \/ plan.mode = "answer" /\ plan.answer # "none" /\ plan.targets = <<>>
     \/ /\ plan.mode = "delegate" /\ plan.answer = "none"
        /\ Len(plan.targets) \in 1..MaxWorkers
        /\ TargetsAccepted(plan)

-----------------------------------------------------------------------------
(* The operation of one call.                                               *)

Stages == {"Prepared", "Planning", "Delegating", "Synthesizing", "Completed",
           "Failed", "Unknown"}
Outcomes == {"Succeeded", "Failed", "Unknown"}
Links == UNION {[1..n -> Workers] : n \in 0..MaxWorkers}

NoOperation == [stage |-> "Prepared", links |-> <<>>, outcomes |-> <<>>]

OperationTypeOK(operation) ==
  operation \in [stage : Stages, links : Links, outcomes : Seq(Outcomes)]

\* begin_planning and accept_plan
AcceptPlan(plan) ==
  [stage |-> IF plan.mode = "answer" THEN "Synthesizing" ELSE "Delegating",
   links |-> plan.targets, outcomes |-> <<>>]

\* record_worker_outcome, for the outcomes in the order of the delegations
RecordOutcomes(operation, outcomes) ==
  [operation EXCEPT
     !.outcomes = outcomes,
     !.stage = IF Len(outcomes) = Len(operation.links) THEN "Synthesizing" ELSE @]

\* next_action is RequestSynthesis
AsksForSynthesis(operation) == operation.stage = "Synthesizing"
=============================================================================
