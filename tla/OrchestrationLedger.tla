------------------------- MODULE OrchestrationLedger -------------------------
(***************************************************************************)
(* The ledger of orchestrations (room_orchestration_ledger.rs): one record    *)
(* per source message and conductor.  Every operation persists the new        *)
(* records before it takes them over, and persist() is the one of             *)
(* SnapshotFiles that keeps a lone backup: a write that is refused or cut     *)
(* short leaves the old records or the new ones (DurableCell).  So the         *)
(* records in memory are the ones a restart would find, and one variable      *)
(* stands for both.                                                         *)
(***************************************************************************)
EXTENDS ConductorOperation

CONSTANTS Ops,         \* operation IDs, one per source message
          MaxRecords   \* MAXIMUM_RECORDS

ASSUME OrchestrationLedgerConstants ==
  /\ IsFiniteSet(Ops)
  /\ MaxRecords \in Nat \ {0}

VARIABLE records

Record(stage, links) == [stage |-> stage, links |-> links]
Absent == Record("Absent", <<>>)

LedgerTypeOK ==
  records \in [Ops -> [stage : Stages \cup {"Absent"}, links : Links]]

LedgerInit == records = [op \in Ops |-> Absent]

Recorded(recs) == {op \in Ops : recs[op] # Absent}
LedgerFull(recs) == Cardinality(Recorded(recs)) >= MaxRecords

Stage(op) == records[op].stage

\* prune_terminal_record: any of the terminal records may be the oldest.
PrunedRecords(recs) ==
  LET victims == {op \in Ops : recs[op].stage \in {"Completed", "Failed"}}
  IN IF LedgerFull(recs) /\ victims # {}
     THEN {[recs EXCEPT ![op] = Absent] : op \in victims}
     ELSE {recs}

\* begin() for an operation that has no record
ReserveOperation(op) ==
  /\ records[op] = Absent
  /\ \E pruned \in PrunedRecords(records) :
       /\ ~LedgerFull(pruned)
       /\ records' = [pruned EXCEPT ![op] = Record("Prepared", <<>>)]

MoveTo(op, stage) == records' = [records EXCEPT ![op].stage = stage]

\* transition() returns Ok: an operation that is already there stays there.
Transition(op, from, to) ==
  /\ Stage(op) \in from \cup {to}
  /\ MoveTo(op, to)

\* transition() returns Err: the stage is not an expected one, there is no
\* clock, or the write is refused.
TransitionRefused == UNCHANGED records

MarkPlanning(op) == Transition(op, {"Prepared"}, "Planning")

\* Fault: the delegations are not kept.
MarkDelegatingBare(op, links) ==
  /\ Stage(op) = "Planning"
  /\ records' = [records EXCEPT ![op] = Record("Delegating", <<>>)]

MarkDelegating(op, links) ==
  /\ Stage(op) = "Planning"
  /\ records' = [records EXCEPT ![op] = Record("Delegating", links)]

MarkSynthesizing(op) == Transition(op, {"Planning", "Delegating"}, "Synthesizing")
MarkCompleted(op) == Transition(op, {"Synthesizing"}, "Completed")
MarkFailed(op) ==
  Transition(op, {"Prepared", "Planning", "Delegating", "Synthesizing"}, "Failed")
MarkUnknown(op) == Transition(op, {"Planning", "Synthesizing"}, "Unknown")

\* load(): what was in flight when the process ended is unknown, and persisted so.
Normalized(recs) ==
  [op \in Ops |-> IF recs[op].stage \in {"Planning", "Synthesizing"}
                  THEN [recs[op] EXCEPT !.stage = "Unknown"]
                  ELSE recs[op]]

ReopenLedger == records' = Normalized(records)
=============================================================================
