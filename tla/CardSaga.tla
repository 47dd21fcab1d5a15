------------------------------ MODULE CardSaga ------------------------------
(***************************************************************************)
(* A card payment from end to end: the orchestrator and the external       *)
(* payment service over the events table and the topic they share.         *)
(*                                                                         *)
(*   client       --POST-->  orchestrator  --ExternalPaymentRequested-->   *)
(*   external     --PaymentSentToGateway, later PaymentGatewayResponse-->  *)
(*           or   --ExternalPaymentFailed-->                               *)
(*   orchestrator --ExternalPaymentCompleted / ExternalPaymentFailed-->    *)
(*                                                                         *)
(* The last line is what the orchestrator's handler is written for; module *)
(* Orchestrator has it, and the runs show that it is never reached.        *)
(***************************************************************************)
EXTENDS ExternalPaymentService, Orchestrator, PartitionHelper

cardVars == <<runtimeVars, externalVars>>

CardInit == RuntimeInit /\ ExternalInit

CreateCardPayment ==
  \E p \in Payments, u \in Users, a \in Amounts : CreateExternalPayment(p, u, a)

CardNext ==
  \/ (CreateCardPayment \/ SagaStep) /\ UNCHANGED externalVars
  \/ ExternalStep

CardSpec == CardInit /\ [][CardNext]_cardVars

----
(* The cap and the jitter on top of it.                                    *)
LongestDelay == MaxDelay + MaxDelay \div 10

CardTypeOK ==
  /\ RuntimeTypeOK
  /\ attempt \in 0..MaxAttempts
  /\ answer \in GatewayAnswers \cup {NoAnswer}
  /\ delay \in InitialDelay..LongestDelay
  /\ requests \in [Payments -> Nat]
  /\ charged \in [Payments -> Nat]
  /\ \A p \in Payments : charged[p] <= requests[p]
  /\ deadLetters \in Seq(Event)
  /\ Len(deadLetters) <= MaxEvents

CountIn(log, type) == Cardinality({i \in DOMAIN log : log[i].type = type})

Recorded(p, type) == \E i \in DOMAIN store[p] : store[p][i].type = type

CardStatus(p) == PaymentStatus(store[p])

(* What the log of a payment says of its outcome, whether or not a saga    *)
(* can be rebuilt from it.                                                 *)
Outcome(p) ==
  IF Recorded(p, "ExternalPaymentFailed") THEN "FAILED"
  ELSE IF Recorded(p, "ExternalPaymentCompleted") THEN "COMPLETED"
  ELSE IF Recorded(p, "ExternalPaymentRequested") THEN "PENDING"
  ELSE "NOT_FOUND"

Lifecycle ==
  INSTANCE PaymentLifecycle WITH
    InProgress <- "PENDING",
    status <- [p \in Payments |-> Outcome(p)],
    taken <- charged

DeliveredOnce == {"crash", "duplicate"} \cap FaultKinds = {}

----
(* The consumers as in WalletSaga; a webhook, once started, runs on by     *)
(* itself.                                                                 *)
SagaConsumer ==
  /\ \/ SagaReceive \/ SagaIgnore \/ HandleAnswer
     \/ Save(Orchestrator) \/ Publish(Orchestrator) \/ CommitMessage(Orchestrator)
  /\ UNCHANGED externalVars

ExternalConsumer ==
  \/ ExternalReceive \/ ExternalIgnore \/ ProcessPayment
  \/ ExternalSave \/ PublishSent \/ PublishOther \/ ExternalCommit

Fairness ==
  /\ WF_cardVars(SagaConsumer)
  /\ WF_cardVars(ExternalConsumer)
  /\ \A h \in Webhooks : WF_cardVars(WebhookSave(h) \/ WebhookPublish(h))

FairCardSpec == CardSpec /\ Fairness

----
(* As long as no request is delivered twice, a card is charged at most     *)
(* once, never for a payment recorded as failed, and a payment is given    *)
(* one outcome, whatever inserts, publications and commits fail.           *)
ImplementsLifecycle == Lifecycle!LifecycleSpec

(* The retry loop asks the gateway at most MaxAttempts times for one       *)
(* delivery of a request, however many of the events between the attempts  *)
(* cannot be saved or published.                                           *)
AttemptsBounded ==
  DeliveredOnce => \A p \in Payments : requests[p] <= MaxAttempts

(* How many pauses the loop has made; InitialDelay doubled k times, and    *)
(* doubled and lengthened by a tenth k times.                              *)
PausesMade == IF At(External, "handle") THEN attempt ELSE attempt - 1

Doubled[k \in 0..MaxAttempts] == IF k = 0 THEN InitialDelay ELSE 2 * Doubled[k - 1]

Lengthened[k \in 0..MaxAttempts] ==
  IF k = 0 THEN InitialDelay ELSE (22 * Lengthened[k - 1]) \div 10

(* The pauses follow the policy, whichever of the events between them fail:*)
(* the one after k earlier pauses is at least InitialDelay doubled k times *)
(* or the cap.  The jitter of each is doubled with it, and yet the pause   *)
(* is never more than a tenth longer for each time it was lengthened, and  *)
(* always less than a tenth longer than the cap.                           *)
PausesFollowPolicy ==
  At(External, "handle") \/ op[External].event.type \in {"PaymentGatewayTimeout", "PaymentRetryRequested"} =>
    /\ delay >= Doubled[PausesMade] \/ delay >= MaxDelay
    /\ delay <= Lengthened[PausesMade]
    /\ delay < LongestDelay

(* The service gives a payment up only after all its attempts: a dead      *)
(* letter is of a payment for which the gateway was asked that often,      *)
(* whatever could not be saved or published between the attempts.          *)
DeadLettersWereTried ==
  \A i \in DOMAIN deadLetters : requests[deadLetters[i].payment] >= MaxAttempts

(* A payment's log never runs ahead of the gateway: it holds no more       *)
(* PaymentSentToGateway than the gateway accepted, and up to any point no  *)
(* more responses than payments sent, although responses are saved by      *)
(* goroutines that race with the handler of a repeated request.            *)
LogFollowsGateway ==
  \A p \in Payments :
    /\ CountIn(store[p], "PaymentSentToGateway") <= charged[p]
    /\ \A n \in DOMAIN store[p] :
         LET log == SubSeq(store[p], 1, n)
         IN  CountIn(log, "PaymentGatewayResponse") <= CountIn(log, "PaymentSentToGateway")

(* At-least-once: unless the events table failed, a card request whose     *)
(* offset is committed has been taken to an outcome in its log: sent to    *)
(* the gateway or failed.  No crash in the retry loop loses it.            *)
CommittedAreTaken ==
  "store" \notin FaultKinds =>
    \A p \in Partitions : \A i \in 1..committed[External][p] :
      LET m == topic[p][i]
      IN  m.type = "ExternalPaymentRequested" =>
            Recorded(m.payment, "PaymentSentToGateway")
              \/ Recorded(m.payment, "ExternalPaymentFailed")

(* The same of a card payment, whose events are keyed by the payment:      *)
(* Publish refuses none of them and computes one partition for all, which  *)
(* the writer then ignores.                                                *)
PaymentEventsTogether ==
  \A e, f \in Outgoing :
    e.payment = f.payment => GetPartition(e) = GetPartition(f) /\ GetPartition(e) # Refused

(* A card request on the topic is in the end sent to the gateway or        *)
(* failed: the retry loop ends, and a crash in it is made up for.          *)
RequestsReachGateway ==
  \A p \in Payments :
    (\E e \in Published : e.payment = p /\ e.type = "ExternalPaymentRequested")
      ~> (Recorded(p, "PaymentSentToGateway") \/ Recorded(p, "ExternalPaymentFailed"))

(* Where no publication fails, a PaymentSentToGateway on the topic is      *)
(* answered in the log, whatever is delivered again or fails to commit,    *)
(* unless a webhook has died with its process before it saved its          *)
(* response.  Only that far: a payment that is recorded as sent and not    *)
(* published, because the process died in between or Publish returned an   *)
(* error, has no webhook, and may have none for ever.  For all of these    *)
(* docs/architecture-desing/05-error-handling-saga.md, line 86, promises a *)
(* recovery ("Esperar webhook o timeout") that the code does not have.     *)
Responses ==
  UNION {{<<p, i>> : i \in {j \in DOMAIN store[p] :
                              store[p][j].type = "PaymentGatewayResponse"}} : p \in Payments}

WebhookDied == Cardinality({h \in Webhooks : At(h, "done")}) > Cardinality(Responses)

StartedWebhooksAnswer ==
  "loss" \notin FaultKinds =>
    \A p \in Payments :
      (\E e \in Published : e.payment = p /\ e.type = "PaymentSentToGateway")
        ~> (Recorded(p, "PaymentGatewayResponse") \/ WebhookDied)

(* docs/architecture-desing/01-system-architecture.md, external payment:   *)
(* the orchestrator consumes the response and publishes                    *)
(* ExternalPaymentCompleted.                                               *)
AcceptedPaymentsComplete ==
  \A p \in Payments :
    (\E e \in Published : e.payment = p /\ e.type = "PaymentGatewayResponse")
      ~> (CardStatus(p) = "COMPLETED")

(* docs/architecture-desing/05-error-handling-saga.md, after the last      *)
(* retry: the saga is FAILED.                                              *)
FailedPaymentsReadFailed ==
  \A p \in Payments :
    Recorded(p, "ExternalPaymentFailed") => CardStatus(p) = "FAILED"

=============================================================================
