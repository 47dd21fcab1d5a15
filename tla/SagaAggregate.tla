---------------------------- MODULE SagaAggregate ----------------------------
(***************************************************************************)
(* The saga aggregate (internal/domain/saga) and how the orchestrator      *)
(* rebuilds it from a payment's events (rebuildSagaFromEvents).            *)
(*                                                                         *)
(* Every event type that moves a saga has one target state, whatever the   *)
(* state it finds: the move is refused when CanTransitionTo forbids it.    *)
(* So a log can be rebuilt when each of its moves is allowed from the      *)
(* target of the move before it, and the saga is then in the target of     *)
(* the last one.  CanRebuild and StateOf say this; SagaLoop is the code's  *)
(* loop, and module Aggregates checks that the two agree.                  *)
(***************************************************************************)
EXTENDS Events, Sequences, FiniteSetsExt, SequencesExt

SagaStates ==
  {"INITIALIZED", "VALIDATING_BALANCE", "SENDING_TO_GATEWAY",
   "SENT_TO_GATEWAY", "AWAITING_RESPONSE", "COMPLETED", "FAILED"}

TerminalStates == {"COMPLETED", "FAILED"}

(* Mutant: a failed saga may be completed after all. *)
ValidTransitionsReopened ==
  [INITIALIZED        |-> {"VALIDATING_BALANCE", "SENDING_TO_GATEWAY"},
   VALIDATING_BALANCE |-> {"COMPLETED", "FAILED"},
   SENDING_TO_GATEWAY |-> {"SENT_TO_GATEWAY"},
   SENT_TO_GATEWAY    |-> {"AWAITING_RESPONSE"},
   AWAITING_RESPONSE  |-> {"COMPLETED", "FAILED"},
   COMPLETED          |-> {},
   FAILED             |-> {"COMPLETED"}]

ValidTransitions ==
  [INITIALIZED        |-> {"VALIDATING_BALANCE", "SENDING_TO_GATEWAY"},
   VALIDATING_BALANCE |-> {"COMPLETED", "FAILED"},
   SENDING_TO_GATEWAY |-> {"SENT_TO_GATEWAY"},
   SENT_TO_GATEWAY    |-> {"AWAITING_RESPONSE"},
   AWAITING_RESPONSE  |-> {"COMPLETED", "FAILED"},
   COMPLETED          |-> {},
   FAILED             |-> {}]

CanTransitionTo(s, target) == target \in ValidTransitions[s]

(* The state ApplyEvent moves to; event types not listed move nothing.     *)
Target ==
  [WalletPaymentRequested   |-> "VALIDATING_BALANCE",
   ExternalPaymentRequested |-> "SENDING_TO_GATEWAY",
   FundsDebited             |-> "COMPLETED",
   FundsInsufficient        |-> "FAILED",
   PaymentSentToGateway     |-> "SENT_TO_GATEWAY",
   PaymentGatewayResponse   |-> "AWAITING_RESPONSE",
   WalletPaymentCompleted   |-> "COMPLETED",
   ExternalPaymentCompleted |-> "COMPLETED",
   WalletPaymentFailed      |-> "FAILED",
   ExternalPaymentFailed    |-> "FAILED"]

MovingTypes == DOMAIN Target

RequestTypes == {"WalletPaymentRequested", "ExternalPaymentRequested"}

----
(* The code's loop over the log: NewSaga, then ApplyEvent on each event,   *)
(* stopping at the first refused move.                                     *)
NewSaga == [state |-> "INITIALIZED", version |-> 0, refused |-> FALSE]

(* Mutant: a refused event is skipped instead of ending the rebuild. *)
ApplyEventSkipping(s, e) ==
  IF e.type \in MovingTypes /\ CanTransitionTo(s.state, Target[e.type])
  THEN [s EXCEPT !.state = Target[e.type], !.version = @ + 1]
  ELSE s

ApplyEvent(s, e) ==
  IF s.refused \/ e.type \notin MovingTypes THEN s
  ELSE IF CanTransitionTo(s.state, Target[e.type])
       THEN [s EXCEPT !.state = Target[e.type], !.version = @ + 1]
       ELSE [s EXCEPT !.refused = TRUE]

SagaLoop(log) == FoldLeft(ApplyEvent, NewSaga, log)

(* The request that gives the saga its type and its user: the first one.   *)
Requests(log) == {i \in DOMAIN log : log[i].type \in RequestTypes}

HasOwner(log) ==
  /\ Requests(log) # {}
  /\ log[Min(Requests(log))].user # NoUser

----
(* The same without the loop. *)
Moves(log) == {i \in DOMAIN log : log[i].type \in MovingTypes}

(* The state before event n of the log is applied. *)
StateBefore(log, n) ==
  LET earlier == {i \in Moves(log) : i < n}
  IN  IF earlier = {} THEN "INITIALIZED" ELSE Target[log[Max(earlier)].type]

MovesAllowed(log) ==
  \A i \in Moves(log) : CanTransitionTo(StateBefore(log, i), Target[log[i].type])

CanRebuild(log) == HasOwner(log) /\ MovesAllowed(log)

StateOf(log) == StateBefore(log, Len(log) + 1)

(* What GetPaymentStatus answers for a log: 404 when it cannot be rebuilt. *)
PaymentStatus(log) == IF CanRebuild(log) THEN StateOf(log) ELSE "NOT_FOUND"

=============================================================================
