----------------------- MODULE ExternalPaymentService -----------------------
(***************************************************************************)
(* The external payment service (internal/application/externalpayment):    *)
(* its consumer takes a card payment to the gateway and tries again, up to *)
(* MaxAttempts times, when the gateway does not answer in time.  All this  *)
(* happens in one call of the handler: each failed attempt saves and       *)
(* publishes a timeout event and a retry event, and when one of those      *)
(* cannot be saved or published the loop only logs it and goes on.         *)
(* Between two attempts the handler sleeps, each time longer.  The model   *)
(* has no clock: it keeps the length of the next pause, and any number of  *)
(* steps of others may fall into it.                                       *)
(*                                                                         *)
(* An accepted payment is answered by a goroutine of its own, the webhook: *)
(* it starts when PaymentSentToGateway has been published and outlives the *)
(* handler and the commit of the request.                                  *)
(***************************************************************************)
EXTENDS ServiceRuntime, DeadLetterQueue

CONSTANTS
  MaxAttempts,       \* RetryPolicy.MaxAttempts
  InitialDelay,      \* RetryPolicy.InitialDelay, in any unit of time
  MaxDelay,          \* RetryPolicy.MaxDelay
  GatewayAnswers     \* what the gateway may do in a run:
                     \*   "SUCCESS"  it accepts the payment
                     \*   "timeout"  the call ends with DeadlineExceeded
                     \*   "error"    the call returns any other error

ASSUME ExternalAssumption ==
  /\ External \in Groups
  /\ MaxAttempts \in Nat \ {0}
  /\ InitialDelay \in Nat /\ MaxDelay \in Nat
  /\ 5 <= InitialDelay /\ InitialDelay <= MaxDelay /\ 10 <= MaxDelay
       \* rand.Intn panics when a tenth of the delay is less than one unit
  /\ GatewayAnswers \subseteq {"SUCCESS", "timeout", "error"}

VARIABLES
  attempt,     \* attempts made for the request in hand
  answer,      \* what the last of them met with
  delay,       \* how long the next pause is
  requests,    \* the gateway: payment -> how many calls it has seen
  charged      \* the gateway: payment -> how many of them it accepted

(* deadLetters is the service's own queue, to which nothing subscribes.    *)
externalVars == <<attempt, answer, delay, requests, charged, deadLetters>>

NoAnswer == "none"

ExternalInit ==
  /\ attempt = 0
  /\ answer = NoAnswer
  /\ requests = [p \in Payments |-> 0]
  /\ charged = [p \in Payments |-> 0]
  /\ delay = InitialDelay
  /\ QueueInit

----
ExternalReceive ==
  /\ Receive(External, {"ExternalPaymentRequested"})
  /\ attempt' = 0
  /\ answer' = NoAnswer
  /\ delay' = InitialDelay
  /\ UNCHANGED <<requests, charged, deadLetters>>

ExternalIgnore ==
  /\ Ignore(External, {"ExternalPaymentRequested"})
  /\ UNCHANGED externalVars

(* The event an attempt leads to: handleSuccess, publishTimeoutEvent,      *)
(* handlePermanentFailure.                                                 *)
Consequence(a, r) ==
  CASE a = "SUCCESS" -> NewPaymentSentToGateway(r.payment, r.user)
    [] a = "timeout" -> NewPaymentGatewayTimeout(r.payment, r.user)
    [] a = "error" -> NewExternalPaymentFailed(r.payment, r.user, r.amount)

(* One attempt.  The gateway charges the card when it accepts, and at no   *)
(* other time; nothing tells it that it has seen the payment before.       *)
ProcessPayment ==
  /\ At(External, "handle")
  /\ attempt' = attempt + 1
  /\ LET r == InHand(External)
     IN  \E a \in GatewayAnswers :
           /\ answer' = a
           /\ requests' = [requests EXCEPT ![r.payment] = @ + 1]
           /\ charged' = [charged EXCEPT ![r.payment] = IF a = "SUCCESS" THEN @ + 1 ELSE @]
           /\ Build(External, Consequence(a, r))
  /\ UNCHANGED <<delay, deadLetters>>

(* Mutants: one attempt too many, or too few; a request given up without a *)
(* word.                                                                   *)
AfterOnceMore(e) ==
  CASE e.type = "PaymentGatewayTimeout" ->
         [at |-> "save",
          event |-> IF attempt <= MaxAttempts
                    THEN NewPaymentRetryRequested(e.payment, e.user)
                    ELSE NewExternalPaymentFailed(e.payment, e.user, InHand(External).amount)]
    [] e.type = "PaymentRetryRequested" -> [at |-> "handle", event |-> NoEvent]
    [] OTHER -> [at |-> "commit", event |-> NoEvent]

AfterOnceLess(e) ==
  CASE e.type = "PaymentGatewayTimeout" ->
         [at |-> "save",
          event |-> IF attempt + 1 < MaxAttempts
                    THEN NewPaymentRetryRequested(e.payment, e.user)
                    ELSE NewExternalPaymentFailed(e.payment, e.user, InHand(External).amount)]
    [] e.type = "PaymentRetryRequested" -> [at |-> "handle", event |-> NoEvent]
    [] OTHER -> [at |-> "commit", event |-> NoEvent]

AfterSilently(e) ==
  CASE e.type = "PaymentGatewayTimeout" ->
         IF attempt < MaxAttempts
         THEN [at |-> "save", event |-> NewPaymentRetryRequested(e.payment, e.user)]
         ELSE [at |-> "commit", event |-> NoEvent]
    [] e.type = "PaymentRetryRequested" -> [at |-> "handle", event |-> NoEvent]
    [] OTHER -> [at |-> "commit", event |-> NoEvent]

(* Where the handler goes when it is through with event e, well or not.    *)
After(e) ==
  CASE e.type = "PaymentGatewayTimeout" ->
         [at |-> "save",
          event |-> IF attempt < MaxAttempts
                    THEN NewPaymentRetryRequested(e.payment, e.user)
                    ELSE NewExternalPaymentFailed(e.payment, e.user, InHand(External).amount)]
    [] e.type = "PaymentRetryRequested" -> [at |-> "handle", event |-> NoEvent]
    [] OTHER -> [at |-> "commit", event |-> NoEvent]

(* Mutant: the cap is forgotten. *)
NextDelaysUncapped(d) == {2 * d + j : j \in 0..((2 * d) \div 10 - 1)}

(* The pause after the next: twice as long, capped, and then lengthened by *)
(* up to a tenth, so that it may exceed the cap.                           *)
NextDelays(d) ==
  LET capped == IF 2 * d > MaxDelay THEN MaxDelay ELSE 2 * d
  IN  {capped + jitter : jitter \in 0..(capped \div 10 - 1)}

(* When the handler is through with a retry event, well or not, it sleeps. *)
PauseAfter(e) ==
  IF e.type = "PaymentRetryRequested" THEN delay' \in NextDelays(delay) ELSE UNCHANGED delay

ExternalSave == Save(External) /\ UNCHANGED externalVars

ExternalStoreFails ==
  /\ At(External, "save")
  /\ Fault("store")
  /\ op' = [op EXCEPT ![External] = After(op[External].event)]
  /\ PauseAfter(op[External].event)
  /\ UNCHANGED <<store, busVars, attempt, answer, requests, charged, deadLetters>>

(* Mutant: no webhook is started. *)
PublishSentUnanswered ==
  /\ At(External, "publish")
  /\ LET e == op[External].event
     IN  /\ e.type = "PaymentSentToGateway"
         /\ Send(e)
         /\ op' = [op EXCEPT ![External] = After(e)]
  /\ UNCHANGED <<store, externalVars>>

(* The write to the topic returned no error.  A payment sent to the        *)
(* gateway gets its webhook; a payment given up after the last attempt     *)
(* goes to the dead letter queue, a permanent failure does not.            *)
PublishSent ==
  /\ At(External, "publish")
  /\ LET e == op[External].event
     IN  /\ e.type = "PaymentSentToGateway"
         /\ Send(e)
         /\ \E h \in Webhooks :
              /\ At(h, "idle")
              /\ op' = [op EXCEPT ![External] = After(e),
                                  ![h] = [at |-> "save",
                                          event |-> NewPaymentGatewayResponse(e.payment, e.user, TRUE)]]
  /\ UNCHANGED <<store, externalVars>>

PublishOther ==
  /\ At(External, "publish")
  /\ LET e == op[External].event
     IN  /\ e.type # "PaymentSentToGateway"
         /\ Send(e)
         /\ op' = [op EXCEPT ![External] = After(e)]
         /\ PauseAfter(e)
         /\ IF e.type = "ExternalPaymentFailed" /\ answer = "timeout"
            THEN Enqueue(e) ELSE UNCHANGED deadLetters
  /\ UNCHANGED <<store, attempt, answer, requests, charged>>

(* Mutant: a payment whose publication failed is tried again. *)
PublishFailsRetrying ==
  /\ At(External, "publish")
  /\ SendFails(op[External].event)
  /\ Goto(External, "handle", NoEvent)
  /\ UNCHANGED <<store, externalVars>>

(* It returned an error: no webhook and no dead letter, though the event   *)
(* may be on the topic.  The loop goes on if it was a timeout's or a       *)
(* retry's.                                                                *)
ExternalPublishFails ==
  /\ At(External, "publish")
  /\ SendFails(op[External].event)
  /\ op' = [op EXCEPT ![External] = After(op[External].event)]
  /\ PauseAfter(op[External].event)
  /\ UNCHANGED <<store, attempt, answer, requests, charged, deadLetters>>

ExternalCommit == CommitMessage(External) /\ UNCHANGED externalVars

(* simulateWebhookResponse: saves, then publishes; an error ends it.       *)
WebhookSave(h) == Save(h) /\ UNCHANGED externalVars

WebhookStoreFails(h) == StoreFails(h) /\ UNCHANGED externalVars

WebhookPublish(h) == Publish(h) /\ UNCHANGED externalVars

(* The gateway remembers; the retry loop and the dead letters are memory.  *)
ExternalCrash ==
  /\ Crash(External)
  /\ attempt' = 0
  /\ answer' = NoAnswer
  /\ delay' = InitialDelay
  /\ deadLetters' = <<>>
  /\ UNCHANGED <<requests, charged>>

ExternalStep ==
  \/ ExternalReceive
  \/ ExternalIgnore
  \/ ProcessPayment
  \/ ExternalSave
  \/ ExternalStoreFails
  \/ PublishSent
  \/ PublishOther
  \/ ExternalPublishFails
  \/ ExternalCommit
  \/ \E h \in Webhooks : WebhookSave(h) \/ WebhookStoreFails(h) \/ WebhookPublish(h)
  \/ ExternalCrash

=============================================================================
