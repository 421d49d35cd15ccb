----------------------------- MODULE DurableCell -----------------------------
(***************************************************************************)
(* What a store promises its callers: one value that survives a crash.      *)
(* A write replaces the value as a whole or not at all, whether it           *)
(* succeeds, is refused, or the process dies under it.                       *)
(***************************************************************************)
CONSTANTS Values,   \* what can be stored
          Empty     \* the value of a store nobody has written yet

VARIABLES cell,     \* the value a start of the program would read
          writing   \* the value being written, or the cell's when there is none

Init == cell = Empty /\ writing = Empty

Submit(v) == writing = cell /\ writing' = v /\ UNCHANGED cell

Commit == cell' = writing /\ UNCHANGED writing

Abandon == writing' = cell /\ UNCHANGED cell

Next == Commit \/ Abandon \/ \E v \in Values : Submit(v)

Spec == Init /\ [][Next]_<<cell, writing>>
=============================================================================
