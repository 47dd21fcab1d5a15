---------------------------- MODULE Orchestrator ----------------------------
(***************************************************************************)
(* The saga orchestrator (internal/application/saga, http/saga_handler):   *)
(* its HTTP calls create payments, its consumer turns the answers of the   *)
(* wallet and of the external payment service into the event that ends     *)
(* the saga.  It keeps no state between messages: each time it rebuilds    *)
(* the saga from the payment's log, and the saga's refusal of a move is    *)
(* all that protects it from a repeated or late answer.                    *)
(***************************************************************************)
EXTENDS ServiceRuntime, SagaAggregate

ASSUME OrchestratorAssumption == Orchestrator \in Groups

(* The types ProcessEvent has a case for.  PaymentSentToGateway does not   *)
(* decode: its handler returns an error at once, and no effect is lost, for*)
(* even where the type assertion succeeds nothing is saved.                *)
ProcessedTypes ==
  {"FundsDebited", "FundsInsufficient", "PaymentSentToGateway", "PaymentGatewayResponse"}

HandledTypes == ProcessedTypes \cap DecodedTypes

----
(* The HTTP call that creates payment p, up to the save of its request.    *)
CreateWalletPayment(p, u, a) ==
  /\ At(p, "idle")
  /\ Build(p, NewWalletPaymentRequested(p, u, a))

CreateExternalPayment(p, u, a) ==
  /\ At(p, "idle")
  /\ Build(p, NewExternalPaymentRequested(p, u, a))

(* Mutant: any answer of the wallet completes the payment. *)
ConclusionHopeful(m, u) ==
  IF m.success THEN NewWalletPaymentCompleted(m.payment, u, m.amount)
  ELSE NewExternalPaymentFailed(m.payment, u, 0)

(* The event that ends the saga of answer m, whose owner is u.             *)
Conclusion(m, u) ==
  CASE m.type = "FundsDebited" -> NewWalletPaymentCompleted(m.payment, u, m.amount)
    [] m.type = "FundsInsufficient" -> NewWalletPaymentFailed(m.payment, u, m.amount)
    [] OTHER -> IF m.success THEN NewExternalPaymentCompleted(m.payment, u, 0)
                ELSE NewExternalPaymentFailed(m.payment, u, 0)

(* Mutant: the saga is rebuilt, but the answer's move is not tried on it. *)
AcceptsUntried(m, log) ==
  /\ m.type \in WalletTypes =>
       \E i \in DOMAIN log : log[i].type = "WalletPaymentRequested"
  /\ CanRebuild(log)

(* Whether the handler of answer m gets past its checks: a wallet answer   *)
(* needs a wallet request in the log, the log must rebuild, and the saga   *)
(* must allow the move the answer makes.                                   *)
Accepts(m, log) ==
  /\ m.type \in WalletTypes =>
       \E i \in DOMAIN log : log[i].type = "WalletPaymentRequested"
  /\ CanRebuild(log)
  /\ CanTransitionTo(StateOf(log), Target[m.type])

SagaReceive == Receive(Orchestrator, HandledTypes)

SagaIgnore == Ignore(Orchestrator, HandledTypes)

(* handleFundsDebited, handleFundsInsufficient, handlePaymentGatewayResponse *)
HandleAnswer ==
  /\ At(Orchestrator, "handle")
  /\ LET m == InHand(Orchestrator)
         log == LoadEvents(m.payment)
     IN  IF Accepts(m, log)
         THEN Build(Orchestrator, Conclusion(m, log[Min(Requests(log))].user))
         ELSE Refuse(Orchestrator)

SagaActors == {Orchestrator} \cup Payments

SagaStep ==
  \/ SagaReceive
  \/ SagaIgnore
  \/ HandleAnswer
  \/ \E a \in SagaActors : Save(a) \/ StoreFails(a) \/ Publish(a)
  \/ CommitMessage(Orchestrator)
  \/ Crash(Orchestrator)

=============================================================================
