--------------------------- MODULE TurnCancellation ---------------------------
(***************************************************************************)
(* The owner's Stop (turn_cancellation.rs): the dispatcher and the            *)
(* orchestrator each keep a table of registered turns with a cancellation     *)
(* flag; a stop request looks at one table and then at the other, up to 21    *)
(* times, until some flag was raised.                                       *)
(***************************************************************************)
EXTENDS Naturals

CONSTANTS DispatcherTurns,     \* turns the dispatcher may register
          OrchestratorTurns    \* turns the orchestrator may register

Turns == DispatcherTurns \cup OrchestratorTurns

VARIABLES token,   \* the registration of each turn
          stop     \* the stop request

stopVars == <<token, stop>>

Tokens == {"none", "live", "cancelled"}
NoStop == [at |-> "none", hit |-> FALSE]

StopTypeOK ==
  /\ token \in [Turns -> Tokens]
  /\ stop \in [at : {"none", "dispatcher", "orchestrator", "accepted"}, hit : BOOLEAN]

StopInit ==
  /\ token = [t \in Turns |-> "none"]
  /\ stop = NoStop

Register(t) ==
  /\ token[t] = "none"
  /\ token' = [token EXCEPT ![t] = "live"]

\* RegisteredTurn is dropped.
Drop(ts) == token' = [t \in Turns |-> IF t \in ts THEN "none" ELSE token[t]]

Live(ts) == {t \in ts : token[t] = "live"}

\* cancel_room
CancelRoom(ts) ==
  token' = [t \in Turns |-> IF t \in Live(ts) THEN "cancelled" ELSE token[t]]

\* The owner presses Stop; once a stop was accepted the button stays disabled.
RequestStop ==
  /\ stop = NoStop
  /\ stop' = [at |-> "dispatcher", hit |-> FALSE]
  /\ UNCHANGED token

StopAtDispatcher ==
  /\ stop.at = "dispatcher"
  /\ CancelRoom(DispatcherTurns)
  /\ stop' = [at |-> "orchestrator", hit |-> Live(DispatcherTurns) # {}]

\* Accepted as soon as a flag was raised; otherwise it sleeps and starts over,
\* and answers that nothing was found after the last attempt.
StopAtOrchestrator ==
  /\ stop.at = "orchestrator"
  /\ CancelRoom(OrchestratorTurns)
  /\ IF stop.hit \/ Live(OrchestratorTurns) # {}
     THEN stop' = [at |-> "accepted", hit |-> TRUE]
     ELSE \E next \in {"dispatcher", "none"} : stop' = [at |-> next, hit |-> FALSE]

StopStep == StopAtDispatcher \/ StopAtOrchestrator
=============================================================================
