---------------------------- MODULE RelayLifecycle ----------------------------
(***************************************************************************)
(* The transport-independent state machine of one Relay account              *)
(* (moe-relay-client/src/lifecycle.rs), as operators on its status.  The      *)
(* error code shown to the user is left out; whether it allows a retry stays. *)
(***************************************************************************)
EXTENDS Naturals

CONSTANT MaxRetries    \* the number of RELAY_RETRY_DELAYS_MS

ASSUME RetryConstant == MaxRetries \in Nat

Phases == {"Offline", "Connecting", "Connected", "RetryWaiting", "Error"}

Statuses == [phase : Phases, attempt : 0..MaxRetries]

\* What a lost or refused connection reports, as far as retries care:
\* RelayUnavailable and Protocol are retried, every other code is final.
Codes == {"retryable", "final"}

NewLifecycle == [phase |-> "Offline", attempt |-> 0]

MayStart(status) == status.phase \in {"Offline", "Error"}

Started == [phase |-> "Connecting", attempt |-> 0]

\* The phase each runtime event is accepted in; in another one the transition
\* is refused and the status stays what it was.
ExpectedPhase(kind) ==
  CASE kind \in {"Connected", "ConnectionFailed"} -> "Connecting"
    [] kind = "UnexpectedDisconnect" -> "Connected"
    [] kind = "RetryElapsed" -> "RetryWaiting"

\* Fault: the table of delays has no end.
LossRetriedForever(status, code) ==
  IF code = "retryable"
  THEN [phase |-> "RetryWaiting", attempt |-> status.attempt + 1]
  ELSE [status EXCEPT !.phase = "Error"]

AfterLoss(status, code) ==
  IF code = "retryable" /\ status.attempt < MaxRetries
  THEN [phase |-> "RetryWaiting", attempt |-> status.attempt + 1]
  ELSE [status EXCEPT !.phase = "Error"]

\* The status after an event that was accepted.
AfterEvent(status, kind, code) ==
  CASE kind = "Connected" -> [phase |-> "Connected", attempt |-> 0]
    [] kind = "RetryElapsed" -> [status EXCEPT !.phase = "Connecting"]
    [] OTHER -> AfterLoss(status, code)

RuntimeFailed(status) == [status EXCEPT !.phase = "Error"]

\* The executor action of stop(): only a live connection or timer is stopped.
StopEndsTask(status) == status.phase \in {"Connecting", "Connected", "RetryWaiting"}
=============================================================================
