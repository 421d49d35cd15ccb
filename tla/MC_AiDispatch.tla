---------------------------- MODULE MC_AiDispatch ----------------------------
(* Small instances of AiDispatch for TLC. *)
EXTENDS AiDispatch, TLC

CONSTANTS m1, m2

OneId == {<<m1, "codex">>}
TwoMessages == {<<m1, "codex">>, <<m2, "codex">>}
ThreeDispatches == {<<m1, "codex">>, <<m2, "codex">>, <<m1, "claude">>}

\* The calls are alike; used where only invariants are checked.
CallSymmetry == Permutations(Calls)
=============================================================================
