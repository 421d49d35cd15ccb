------------------------ MODULE MC_RoomOrchestration ------------------------
(* A small instance of RoomOrchestration for TLC. *)
EXTENDS RoomOrchestration

Plan(mode, answer, targets) ==
  [envelope |-> TRUE, mode |-> mode, answer |-> answer, targets |-> targets, bounded |-> TRUE]

SomePlans ==
  {Plan("answer", "short", <<>>), Plan("answer", "long", <<>>),
   Plan("delegate", "none", <<"w1", "w2">>),
   Plan("delegate", "none", <<"w1", "w1">>), Plan("delegate", "none", <<"w1", "owner">>)}

OnePlan == {Plan("delegate", "none", <<"w1">>)}
=============================================================================
