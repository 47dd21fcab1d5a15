---------------------------- MODULE CardSagaProofs ----------------------------
(***************************************************************************)
(* A card payment from end to end, for every number of payments,           *)
(* partitions, webhooks, attempts and faults.                              *)
(*                                                                         *)
(* CardInv makes the type invariant inductive.  What a dead letter says of *)
(* the gateway is an effect of the whole retry loop, so it follows the     *)
(* loop: the gateway has seen the payment in hand at least as often as the *)
(* loop has counted, and the event on its way is that payment's.  PauseOK  *)
(* adds what the loop has waited.                                          *)
(*                                                                         *)
(* TakenInv follows a request from its offset to the call of the gateway.  *)
(*                                                                         *)
(* FlowInv says who writes which events, and that they are saved before    *)
(* they are published; so the orchestrator never accepts a response, and   *)
(* no card payment completes.  LogsBacked counts, on top of it, what is in *)
(* a payment's log and on its way there against the answers of the         *)
(* gateway.  OnceInv, where no process crashes and no message is written   *)
(* twice, adds that a payment is asked for once; with it the saga          *)
(* implements the abstract payment.                                        *)
(***************************************************************************)
EXTENDS CardSaga, OrchestratorProofs, FiniteSetTheorems

(* A publication to the dead letter queue leaves in it no letters but those*)
(* that were there and the new one.                                        *)
LEMMA EnqueueAdds ==
  ASSUME NEW S, deadLetters \in Seq(S), Len(deadLetters) <= MaxEvents, NEW x \in S,
         Enqueue(x)
  PROVE  /\ deadLetters' \in Seq(S)
         /\ Len(deadLetters') <= MaxEvents
         /\ \A i \in DOMAIN deadLetters' :
              deadLetters'[i] = x \/ \E j \in DOMAIN deadLetters : deadLetters'[i] = deadLetters[j]
<1>1. PICK n \in Nat : n = Len(deadLetters) /\ n <= MaxEvents /\ DOMAIN deadLetters = 1..n
  BY LenProperties
<1>2. PICK kept : kept = MakeRoom(deadLetters)
  OBVIOUS
<1>3. PICK d \in 0..n : /\ kept \in Seq(S) /\ Len(kept) = n - d /\ Len(kept) < MaxEvents
                        /\ \A i \in 1..(n - d) : kept[i] = deadLetters[d + i]
  <2>1. CASE n >= MaxEvents
    <3>1. kept = SubSeq(deadLetters, Discarded + 1, n)
      BY <1>1, <1>2, <2>1 DEF MakeRoom
    <3>2. PICK b \in 1..n : b = Discarded
      BY <1>1, <2>1, QueueAssumption
    <3>3. kept \in Seq(S) /\ Len(kept) = n - b
      BY <1>1, <3>1, <3>2, SubSeqProperties
    <3>4. \A i \in 1..(n - b) : kept[i] = deadLetters[b + i]
      BY <1>1, <3>1, <3>2, <3>3, SubSeqProperties
    <3>5. n - b < MaxEvents /\ b \in 0..n
      BY <1>1, <3>2, QueueAssumption
    <3> QED BY <3>3, <3>4, <3>5
  <2>2. CASE ~(n >= MaxEvents)
    <3>1. kept = deadLetters
      BY <1>1, <1>2, <2>2 DEF MakeRoom
    <3>2. n < MaxEvents /\ n - 0 = n /\ 0 \in 0..n
      BY <1>1, <2>2, QueueAssumption
    <3> QED BY <1>1, <3>1, <3>2
  <2> QED BY <2>1, <2>2
<1>4. /\ deadLetters' \in Seq(S) /\ Len(deadLetters') = (n - d) + 1
      /\ \A i \in 1..(n - d) : deadLetters'[i] = kept[i]
      /\ deadLetters'[(n - d) + 1] = x
  <2>1. deadLetters' = Append(kept, x)
    BY <1>2 DEF Enqueue
  <2> QED BY <1>3, <2>1, AppendProperties
<1>5. DOMAIN deadLetters' = 1..((n - d) + 1)
  BY <1>4, LenProperties
<1>6. ASSUME NEW i \in DOMAIN deadLetters'
      PROVE  deadLetters'[i] = x \/ \E j \in DOMAIN deadLetters : deadLetters'[i] = deadLetters[j]
  <2>1. CASE i = (n - d) + 1
    BY <1>4, <2>1
  <2>2. CASE i # (n - d) + 1
    <3>1. i \in 1..(n - d)
      BY <1>5, <2>2
    <3>2. d + i \in DOMAIN deadLetters /\ deadLetters'[i] = deadLetters[d + i]
      BY <1>1, <1>3, <1>4, <3>1
    <3> QED BY <3>2
  <2> QED BY <2>1, <2>2
<1>7. Len(deadLetters') <= MaxEvents
  BY <1>1, <1>3, <1>4, QueueAssumption
<1> QED BY <1>4, <1>6, <1>7


GatewayOK ==
  /\ requests \in [Payments -> Nat]
  /\ charged \in [Payments -> Nat]
  /\ \A p \in Payments : charged[p] <= requests[p]

DeadOK ==
  /\ deadLetters \in Seq(Event)
  /\ Len(deadLetters) <= MaxEvents
  /\ \A i \in DOMAIN deadLetters :
       /\ deadLetters[i].payment \in Payments
       /\ requests[deadLetters[i].payment] >= MaxAttempts

CounterOK ==
  /\ attempt \in 0..MaxAttempts
  /\ answer \in GatewayAnswers \cup {NoAnswer}

(* The event on its way, e, and the request in hand, r.                    *)
EventOnItsWay(e, r) ==
  /\ e.payment = r.payment
  /\ e.type = "PaymentRetryRequested" => attempt < MaxAttempts
  /\ e.type = "ExternalPaymentFailed" /\ answer = "timeout" => attempt = MaxAttempts

LoopOK ==
  LET r == InHand(External)
  IN  /\ ~At(External, "idle") => r.type = "ExternalPaymentRequested"
      /\ At(External, "handle") => attempt < MaxAttempts /\ attempt <= requests[r.payment]
      /\ At(External, "save") \/ At(External, "publish") =>
           EventOnItsWay(op[External].event, r) /\ attempt <= requests[r.payment]

CardInv == SagaInv /\ CounterOK /\ GatewayOK /\ DeadOK /\ LoopOK

LEMMA CardInitInv == CardInit => CardInv
<1> SUFFICES ASSUME CardInit PROVE CardInv
  OBVIOUS
<1>1. RuntimeInv /\ \A g \in Groups : At(g, "idle")
  BY RuntimeInitInv DEF CardInit, RuntimeInit, At, Actors
<1>2. SagaInv
  BY <1>1, OrchestratorAssumption DEF SagaInv, HandIsAnswer
<1>3. LoopOK
  BY <1>1, ExternalAssumption DEF LoopOK, At
<1>4. CounterOK /\ GatewayOK
  BY ExternalAssumption DEF CardInit, ExternalInit, CounterOK, GatewayOK, NoAnswer
<1>5. deadLetters \in Seq(Event) /\ DOMAIN deadLetters = {} /\ Len(deadLetters) <= MaxEvents
  BY EmptySeq, QueueAssumption DEF CardInit, ExternalInit, QueueInit
<1>6. DeadOK
  BY <1>5 DEF DeadOK
<1> QED BY <1>2, <1>3, <1>4, <1>6 DEF CardInv

----
(* The request in hand is of a payment.                                    *)
LEMMA RequestInHand ==
  ASSUME CardInv, ~At(External, "idle")
  PROVE  /\ InHand(External) \in Event
         /\ InHand(External).type = "ExternalPaymentRequested"
         /\ InHand(External).payment \in Payments
<1>1. InHand(External) \in Event /\ InHand(External).type = "ExternalPaymentRequested"
  BY ExternalAssumption, InHandIsEvent DEF CardInv, SagaInv, LoopOK
<1> QED BY <1>1 DEF Event

(* The events of the service.                                              *)
LEMMA ServiceEvents ==
  ASSUME NEW p \in Payments, NEW u \in Users, NEW n \in Nat
  PROVE  /\ NewPaymentSentToGateway(p, u) \in Event
         /\ NewPaymentGatewayTimeout(p, u) \in Event
         /\ NewPaymentRetryRequested(p, u) \in Event
         /\ NewPaymentGatewayResponse(p, u, TRUE) \in Event
         /\ NewExternalPaymentFailed(p, u, n) \in Event
<1>1. /\ NewPaymentSentToGateway(p, u) \in Event
      /\ NewPaymentGatewayTimeout(p, u) \in Event
      /\ NewPaymentRetryRequested(p, u) \in Event
  BY DEF NewPaymentSentToGateway, NewPaymentGatewayTimeout, NewPaymentRetryRequested,
         NewBaseEvent, NewBalanceEvent, Event, EventTypes
<1>2. NewPaymentGatewayResponse(p, u, TRUE) \in Event
  BY DEF NewPaymentGatewayResponse, NewVerdictEvent, Event, EventTypes
<1>3. NewExternalPaymentFailed(p, u, n) \in Event
  BY DEF NewExternalPaymentFailed, NewVerdictEvent, Event, EventTypes
<1> QED BY <1>1, <1>2, <1>3

(* What the loop looks at in them.                                         *)
LEMMA ServiceFields ==
  ASSUME NEW p, NEW u, NEW n
  PROVE  /\ NewPaymentSentToGateway(p, u).type = "PaymentSentToGateway"
         /\ NewPaymentSentToGateway(p, u).payment = p
         /\ NewPaymentGatewayTimeout(p, u).type = "PaymentGatewayTimeout"
         /\ NewPaymentGatewayTimeout(p, u).payment = p
         /\ NewPaymentRetryRequested(p, u).type = "PaymentRetryRequested"
         /\ NewPaymentRetryRequested(p, u).payment = p
         /\ NewExternalPaymentFailed(p, u, n).type = "ExternalPaymentFailed"
         /\ NewExternalPaymentFailed(p, u, n).payment = p
BY DEF NewPaymentSentToGateway, NewPaymentGatewayTimeout, NewPaymentRetryRequested,
       NewExternalPaymentFailed, NewBaseEvent, NewBalanceEvent, NewVerdictEvent

LEMMA ConsequenceIsEvent ==
  ASSUME NEW r \in Event, r.payment \in Payments, NEW a \in GatewayAnswers
  PROVE  /\ Consequence(a, r) \in Event
         /\ Consequence(a, r).payment = r.payment
         /\ Consequence(a, r).type # "PaymentRetryRequested"
         /\ a = "timeout" => Consequence(a, r).type # "ExternalPaymentFailed"
<1>1. r.user \in Users /\ r.amount \in Nat
  BY DEF Event
<1>2. CASE a = "SUCCESS"
  <2> DEFINE f == NewPaymentSentToGateway(r.payment, r.user)
  <2>1. Consequence(a, r) = f
    BY <1>2 DEF Consequence
  <2>2. f \in Event
    BY <1>1, ServiceEvents
  <2>3. f.payment = r.payment /\ f.type = "PaymentSentToGateway"
    BY ServiceFields
  <2> HIDE DEF f
  <2> QED BY <1>2, <2>1, <2>2, <2>3
<1>3. CASE a = "timeout"
  <2> DEFINE f == NewPaymentGatewayTimeout(r.payment, r.user)
  <2>1. Consequence(a, r) = f
    BY <1>3 DEF Consequence
  <2>2. f \in Event
    BY <1>1, ServiceEvents
  <2>3. f.payment = r.payment /\ f.type = "PaymentGatewayTimeout"
    BY ServiceFields
  <2> HIDE DEF f
  <2> QED BY <1>3, <2>1, <2>2, <2>3
<1>4. CASE a = "error"
  <2> DEFINE f == NewExternalPaymentFailed(r.payment, r.user, r.amount)
  <2>1. Consequence(a, r) = f
    BY <1>4 DEF Consequence
  <2>2. f \in Event
    BY <1>1, ServiceEvents
  <2>3. f.payment = r.payment /\ f.type = "ExternalPaymentFailed"
    BY ServiceFields
  <2> HIDE DEF f
  <2> QED BY <1>4, <2>1, <2>2, <2>3
<1> QED BY <1>2, <1>3, <1>4, ExternalAssumption

(* Where the loop goes from an event that is on its way.                   *)
LEMMA AfterIsSound ==
  ASSUME CounterOK, NEW r \in Event, r.payment \in Payments, r = InHand(External),
         NEW e \in Event, EventOnItsWay(e, r)
  PROVE  /\ After(e) \in [at: Steps, event: Event \cup {NoEvent}]
         /\ After(e).at \in {"save", "handle", "commit"}
         /\ After(e).at = "handle" => attempt < MaxAttempts
         /\ After(e).at = "save" => After(e).event \in Event /\ EventOnItsWay(After(e).event, r)
<1>1. e.user \in Users /\ e.payment \in Payments /\ r.amount \in Nat
  BY DEF Event, EventOnItsWay
<1>2. CASE e.type = "PaymentGatewayTimeout" /\ attempt < MaxAttempts
  <2> DEFINE f == NewPaymentRetryRequested(e.payment, e.user)
  <2>1. After(e) = [at |-> "save", event |-> f]
    BY <1>2 DEF After
  <2>2. f \in Event
    BY <1>1, ServiceEvents
  <2>3. f.type = "PaymentRetryRequested" /\ f.payment = e.payment
    BY ServiceFields
  <2> HIDE DEF f
  <2>4. EventOnItsWay(f, r)
    BY <1>2, <2>3 DEF EventOnItsWay
  <2> QED BY <2>1, <2>2, <2>4 DEF Steps
<1>3. CASE e.type = "PaymentGatewayTimeout" /\ ~(attempt < MaxAttempts)
  <2> DEFINE f == NewExternalPaymentFailed(e.payment, e.user, r.amount)
  <2>1. After(e) = [at |-> "save", event |-> f]
    BY <1>3 DEF After
  <2>2. f \in Event
    BY <1>1, ServiceEvents
  <2>3. EventOnItsWay(f, r)
    <3>1. attempt = MaxAttempts
      BY <1>3, ExternalAssumption DEF CounterOK
    <3>2. f.type = "ExternalPaymentFailed" /\ f.payment = e.payment
      BY ServiceFields
    <3> QED BY <3>1, <3>2 DEF EventOnItsWay
  <2> HIDE DEF f
  <2> QED BY <2>1, <2>2, <2>3 DEF Steps
<1>4. CASE e.type = "PaymentRetryRequested"
  BY <1>4 DEF After, Steps, EventOnItsWay
<1>5. CASE e.type \notin {"PaymentGatewayTimeout", "PaymentRetryRequested"}
  BY <1>5 DEF After, Steps
<1> QED BY <1>2, <1>3, <1>4, <1>5

----
(* Steps that leave the service's loop and its consumer alone.             *)
LEMMA ElsewhereKeepsInv ==
  ASSUME CardInv, SagaInv', UNCHANGED externalVars,
         HandKept(External), op'[External] = op[External]
  PROVE  CardInv'
<1>1. /\ UNCHANGED <<attempt, answer, requests, charged, deadLetters>>
      /\ op'[External] = op[External]
  BY DEF externalVars
<1>2. CounterOK' /\ GatewayOK' /\ DeadOK'
  BY <1>1 DEF CardInv, CounterOK, GatewayOK, DeadOK
<1>3. ~At(External, "idle") => InHand(External)' = InHand(External)
  BY HandSame, ExternalAssumption DEF CardInv, SagaInv
<1>4. LoopOK'
  BY <1>1, <1>3 DEF CardInv, LoopOK, At, EventOnItsWay
<1> QED BY <1>2, <1>4 DEF CardInv

(* The service's own steps leave the orchestrator's consumer alone.        *)
LEMMA SagaKept ==
  ASSUME CardInv, RuntimeInv', HandKept(Orchestrator)
  PROVE  SagaInv'
BY SagaHandKept DEF CardInv

LEMMA TwoServices == External # Orchestrator /\ External \in Groups \ {Orchestrator}
BY ExternalAssumption DEF External, Orchestrator

(* The loop goes on from the event it was about, with whatever the step    *)
(* made of the topic and of the webhooks.                                  *)
LEMMA LoopGoesOn ==
  ASSUME CardInv, At(External, "save") \/ At(External, "publish"),
         op' \in [Actors -> [at: Steps, event: Event \cup {NoEvent}]],
         op'[External] = After(op[External].event),
         \A g \in Groups \ {External} : op'[g] = op[g],
         \A a \in Actors \ {External} :
           op'[a] = op[a] \/ op'[a].event \in Event,
         UNCHANGED <<store, position, committed, current>>,
         topic' \in [Partitions -> Seq(Event)],
         \A p \in Partitions :
           /\ Len(topic[p]) <= Len(topic'[p])
           /\ \A i \in 1..Len(topic[p]) : topic'[p][i] = topic[p][i],
         faults' \in 0..MaxFaults,
         UNCHANGED <<attempt, answer, requests, charged>>
  PROVE  SagaInv' /\ CounterOK' /\ GatewayOK' /\ LoopOK'
<1> DEFINE r == InHand(External)
           e == op[External].event
<1>1. /\ RuntimeInv /\ CounterOK /\ ~At(External, "idle")
      /\ External \in Groups /\ External \in Actors
  BY ExternalAssumption DEF CardInv, SagaInv, At, Actors
<1>2. r \in Event /\ r.type = "ExternalPaymentRequested" /\ r.payment \in Payments
  BY <1>1, RequestInHand
<1>3. e \in Event /\ EventOnItsWay(e, r) /\ attempt <= requests[r.payment]
  BY <1>1 DEF CardInv, LoopOK, RuntimeInv, BuiltOK
<1>4. /\ After(e).at \in {"save", "handle", "commit"}
      /\ After(e).at = "handle" => attempt < MaxAttempts
      /\ After(e).at = "save" => After(e).event \in Event /\ EventOnItsWay(After(e).event, r)
  BY <1>1, <1>2, <1>3, AfterIsSound
<1>5. RuntimeInv'
  <2>1. \A g \in Groups : op'[g].at = "idle" <=> op[g].at = "idle"
    BY <1>1, <1>4 DEF At
  <2>2. \A a \in Actors : op'[a].at \in {"save", "publish"} => op'[a].event \in Event
    BY <1>1, <1>4 DEF RuntimeInv, BuiltOK, At
  <2> QED BY <1>1, <2>1, <2>2, MoveKeepsInv
<1>6. \A g \in Groups : HandKept(g)
  BY DEF HandKept
<1>7. SagaInv'
  BY <1>5, <1>6, SagaKept, OrchestratorAssumption
<1>8. InHand(External)' = r
  BY <1>1, <1>5, <1>6, HandSame
<1> HIDE DEF r, e
<1>9. CounterOK' /\ GatewayOK'
  BY DEF CardInv, CounterOK, GatewayOK
<1>10. LoopOK'
  <2>1. op'[External] = After(e)
    BY DEF e
  <2> QED BY <1>2, <1>3, <1>4, <1>8, <2>1 DEF LoopOK, At, EventOnItsWay
<1> QED BY <1>7, <1>9, <1>10

LEMMA ExternalWrites ==
  ASSUME CardInv, ExternalStoreFails \/ PublishSent \/ PublishOther \/ ExternalPublishFails
  PROVE  CardInv'
<1> DEFINE e == op[External].event
<1>1. /\ RuntimeInv /\ External \in Groups /\ External \in Actors
      /\ At(External, "save") \/ At(External, "publish")
  BY ExternalAssumption
  DEF CardInv, SagaInv, Actors, ExternalStoreFails, PublishSent, PublishOther, ExternalPublishFails
<1>2. /\ e \in Event /\ e.payment = InHand(External).payment /\ e.payment \in Payments
      /\ EventOnItsWay(e, InHand(External)) /\ attempt <= requests[e.payment]
  <2>1. e \in Event
    BY <1>1 DEF RuntimeInv, BuiltOK
  <2>2. /\ EventOnItsWay(e, InHand(External)) /\ attempt <= requests[InHand(External).payment]
        /\ InHand(External).payment \in Payments
    BY <1>1, RequestInHand DEF CardInv, LoopOK, At
  <2> QED BY <2>1, <2>2 DEF EventOnItsWay
<1>3. /\ After(e) \in [at: Steps, event: Event \cup {NoEvent}]
  BY <1>1, <1>2, RequestInHand, AfterIsSound DEF CardInv, At
<1>4. /\ UNCHANGED <<store, position, committed, current, attempt, answer, requests, charged>>
      /\ topic' \in [Partitions -> Seq(Event)] /\ faults' \in 0..MaxFaults
      /\ \A p \in Partitions :
           /\ Len(topic[p]) <= Len(topic'[p])
           /\ \A i \in 1..Len(topic[p]) : topic'[p][i] = topic[p][i]
  <2>1. CASE ExternalStoreFails
    <3>1. /\ UNCHANGED <<store, busVars, attempt, answer, requests, charged>>
          /\ Fault("store")
      BY <2>1 DEF ExternalStoreFails
    <3>2. faults' \in 0..MaxFaults
      BY <1>1, <3>1, FaultTyped DEF Fault, RuntimeInv, RuntimeTypeOK
    <3>3. topic \in [Partitions -> Seq(Event)] /\ \A p \in Partitions : Len(topic[p]) \in Nat
      BY <1>1, LenProperties DEF RuntimeInv, RuntimeTypeOK
    <3> QED BY <3>1, <3>2, <3>3 DEF busVars
  <2>2. CASE PublishSent \/ PublishOther \/ ExternalPublishFails
    <3>1. Send(e) /\ UNCHANGED <<store, attempt, answer, requests, charged>>
      BY <2>2 DEF PublishSent, PublishOther, ExternalPublishFails, SendFails, externalVars
    <3> QED BY <1>1, <1>2, <3>1, SendAppends
  <2> QED BY <2>1, <2>2
<1>5. /\ op' \in [Actors -> [at: Steps, event: Event \cup {NoEvent}]]
      /\ op'[External] = After(e)
      /\ \A g \in Groups \ {External} : op'[g] = op[g]
      /\ \A a \in Actors \ {External} : op'[a] = op[a] \/ op'[a].event \in Event
  <2> HIDE DEF e
  <2>1. CASE op' = [op EXCEPT ![External] = After(e)]
    BY <1>1, <1>3, <2>1 DEF RuntimeInv, RuntimeTypeOK
  <2>2. CASE PublishSent
    <3> DEFINE w == [at |-> "save", event |-> NewPaymentGatewayResponse(e.payment, e.user, TRUE)]
    <3>1. PICK h \in Webhooks : op' = [op EXCEPT ![External] = After(e), ![h] = w]
      BY <2>2 DEF PublishSent, e
    <3>2. w \in [at: Steps, event: Event] /\ w.event \in Event
      BY <1>2, ServiceEvents DEF Event, Steps
    <3>3. h \in Actors /\ h \notin Groups
      BY RuntimeAssumption DEF Actors
    <3> HIDE DEF w
    <3>4. op \in [Actors -> [at: Steps, event: Event \cup {NoEvent}]] /\ h # External
      BY <1>1, <3>3 DEF RuntimeInv, RuntimeTypeOK
    <3> DEFINE n == After(e)
               next == [op EXCEPT ![External] = n, ![h] = w]
    <3>5. n \in [at: Steps, event: Event \cup {NoEvent}] /\ op' = next
      BY <1>3, <3>1
    <3> HIDE DEF n
    <3>6. /\ next[External] = n /\ next[h] = w
          /\ \A a \in Actors \ {External, h} : next[a] = op[a]
          /\ next = [a \in Actors |-> next[a]]
      BY <1>1, <3>3, <3>4
    <3> HIDE DEF next
    <3>7. \A a \in Actors : op'[a] \in [at: Steps, event: Event \cup {NoEvent}]
      BY <1>1, <3>2, <3>3, <3>4, <3>5, <3>6
    <3>8. op' \in [Actors -> [at: Steps, event: Event \cup {NoEvent}]]
      BY <3>5, <3>6, <3>7
    <3>9. op'[External] = After(e)
      BY <3>5, <3>6 DEF n
    <3>10. \A g \in Groups \ {External} : op'[g] = op[g]
      BY <3>3, <3>5, <3>6 DEF Actors
    <3>11. \A a \in Actors \ {External} : op'[a] = op[a] \/ op'[a].event \in Event
      BY <3>2, <3>5, <3>6
    <3> QED BY <3>8, <3>9, <3>10, <3>11
  <2> QED BY <2>1, <2>2 DEF ExternalStoreFails, PublishOther, ExternalPublishFails, e
<1>6. SagaInv' /\ CounterOK' /\ GatewayOK' /\ LoopOK'
  BY <1>1, <1>4, <1>5, LoopGoesOn
<1>7. DeadOK'
  <2>1. CASE deadLetters' = deadLetters
    BY <1>4, <2>1 DEF CardInv, DeadOK
  <2>2. CASE Enqueue(e) /\ e.type = "ExternalPaymentFailed" /\ answer = "timeout"
    <3>1. attempt = MaxAttempts
      BY <1>2, <2>2 DEF EventOnItsWay
    <3>2. e.payment \in Payments /\ requests[e.payment] >= MaxAttempts
      BY <1>2, <3>1 DEF CardInv, GatewayOK
    <3>3. deadLetters \in Seq(Event) /\ Len(deadLetters) <= MaxEvents
      BY DEF CardInv, DeadOK
    <3>4. /\ deadLetters' \in Seq(Event) /\ Len(deadLetters') <= MaxEvents
          /\ \A i \in DOMAIN deadLetters' :
               deadLetters'[i] = e \/ \E j \in DOMAIN deadLetters : deadLetters'[i] = deadLetters[j]
      BY <1>2, <2>2, <3>3, EnqueueAdds
    <3> HIDE DEF e
    <3>5. ASSUME NEW i \in DOMAIN deadLetters'
          PROVE  /\ deadLetters'[i].payment \in Payments
                 /\ requests[deadLetters'[i].payment] >= MaxAttempts
      BY <3>2, <3>4 DEF CardInv, DeadOK
    <3> QED BY <1>4, <3>4, <3>5 DEF DeadOK
  <2> QED BY <2>1, <2>2
          DEF ExternalStoreFails, PublishSent, PublishOther, ExternalPublishFails, externalVars
<1> QED BY <1>6, <1>7 DEF CardInv

LEMMA ProcessPaymentInv == ASSUME CardInv, ProcessPayment PROVE CardInv'
<1> DEFINE r == InHand(External)
<1>1. /\ RuntimeInv /\ At(External, "handle") /\ ~At(External, "idle")
      /\ External \in Groups /\ External \in Actors
  BY ExternalAssumption DEF CardInv, SagaInv, ProcessPayment, At, Actors
<1>2. r \in Event /\ r.type = "ExternalPaymentRequested" /\ r.payment \in Payments
  BY <1>1, RequestInHand
<1>3. attempt < MaxAttempts /\ attempt <= requests[r.payment] /\ attempt \in Nat
      /\ requests \in [Payments -> Nat] /\ charged \in [Payments -> Nat] /\ MaxAttempts \in Nat
  BY <1>1, ExternalAssumption DEF CardInv, LoopOK, CounterOK, GatewayOK
<1>4. PICK a \in GatewayAnswers :
        /\ answer' = a
        /\ requests' = [requests EXCEPT ![r.payment] = @ + 1]
        /\ charged' = [charged EXCEPT ![r.payment] = IF a = "SUCCESS" THEN @ + 1 ELSE @]
        /\ Build(External, Consequence(a, r))
  BY DEF ProcessPayment
<1>5. attempt' = attempt + 1 /\ deadLetters' = deadLetters
  BY DEF ProcessPayment
<1> DEFINE e == Consequence(a, r)
<1>6. /\ e \in Event /\ e.payment = r.payment /\ e.type # "PaymentRetryRequested"
      /\ a = "timeout" => e.type # "ExternalPaymentFailed"
  BY <1>2, ConsequenceIsEvent
<1>7. Build(External, e)
  BY <1>4
<1> HIDE DEF r, e
<1>8. RuntimeInv'
  BY <1>1, <1>6, <1>7, BuildKeepsInv
<1>9. op'[External] = [at |-> "save", event |-> e] /\ UNCHANGED busVars
  BY <1>1, <1>7 DEF Build, Goto, RuntimeInv, RuntimeTypeOK
<1>10. SagaInv'
  BY <1>8, <1>9, StillKeepsHands, SagaKept, OrchestratorAssumption
<1>11. InHand(External)' = r
  BY <1>9 DEF InHand, busVars, r
<1>12. /\ requests' \in [Payments -> Nat] /\ requests'[r.payment] = requests[r.payment] + 1
       /\ \A p \in Payments : requests'[p] >= requests[p]
  BY <1>2, <1>3, <1>4
<1>13. GatewayOK'
  <2>1. charged' \in [Payments -> Nat]
        /\ \A p \in Payments : charged'[p] <= requests'[p]
    BY <1>2, <1>3, <1>4, <1>12 DEF CardInv, GatewayOK
  <2> QED BY <1>12, <2>1 DEF GatewayOK
<1>14. CounterOK'
  BY <1>3, <1>4, <1>5 DEF CounterOK
<1>15. DeadOK'
  BY <1>3, <1>5, <1>12 DEF CardInv, DeadOK
<1>16. LoopOK'
  <2>1. ~(e.type = "ExternalPaymentFailed" /\ answer' = "timeout")
    BY <1>4, <1>6
  <2>2. attempt' <= requests'[r.payment]
    BY <1>2, <1>3, <1>5, <1>12
  <2> QED BY <1>2, <1>6, <1>9, <1>11, <2>1, <2>2 DEF LoopOK, At, EventOnItsWay
<1> QED BY <1>10, <1>13, <1>14, <1>15, <1>16 DEF CardInv

(* Steps after which the service has nothing in hand.                      *)
LEMMA IdleKeepsInv ==
  ASSUME CardInv, RuntimeInv', HandKept(Orchestrator), At(External, "idle")',
         CounterOK', UNCHANGED <<requests, charged>>,
         deadLetters' = deadLetters \/ deadLetters' = <<>>
  PROVE  CardInv'
<1>1. SagaInv'
  BY SagaKept
<1>2. LoopOK'
  BY DEF LoopOK, At
<1>3. GatewayOK'
  BY DEF CardInv, GatewayOK
<1>4. DeadOK'
  <2>1. CASE deadLetters' = deadLetters
    BY <2>1 DEF CardInv, DeadOK
  <2>2. CASE deadLetters' = <<>>
    <3>1. deadLetters' \in Seq(Event) /\ DOMAIN deadLetters' = {} /\ Len(deadLetters') <= MaxEvents
      BY <2>2, EmptySeq, QueueAssumption
    <3> QED BY <3>1 DEF DeadOK
  <2> QED BY <2>1, <2>2
<1> QED BY <1>1, <1>2, <1>3, <1>4 DEF CardInv

LEMMA ExternalStepInv == ASSUME CardInv, ExternalStep PROVE CardInv'
<1>1. /\ RuntimeInv /\ External \in Groups /\ External \in Actors /\ External # Orchestrator
      /\ Orchestrator \in Groups \ {External} /\ MaxAttempts \in Nat \ {0}
  BY ExternalAssumption, OrchestratorAssumption, TwoServices DEF CardInv, SagaInv, Actors
<1>2. CASE ExternalReceive
  <2>1. Receive(External, {"ExternalPaymentRequested"}) /\ attempt' = 0 /\ answer' = NoAnswer
        /\ UNCHANGED <<requests, charged, deadLetters>>
    BY <1>2 DEF ExternalReceive
  <2>2. RuntimeInv' /\ HandKept(Orchestrator) /\ InHand(External)' \in Event
        /\ InHand(External)'.type = "ExternalPaymentRequested"
    BY <1>1, <2>1, ReceiveKeepsInv, ReceiveHands, ConsumersKeepHands
  <2>3. SagaInv' /\ CounterOK' /\ GatewayOK' /\ DeadOK'
    BY <1>1, <2>1, <2>2, SagaKept DEF CardInv, CounterOK, GatewayOK, DeadOK
  <2>4. op'[External].at = "handle"
    BY <1>1, <2>1 DEF Receive, Goto, RuntimeInv, RuntimeTypeOK
  <2>5. requests'[InHand(External)'.payment] \in Nat
    BY <2>2, <2>3 DEF GatewayOK, Event
  <2>6. LoopOK'
    BY <1>1, <2>1, <2>2, <2>4, <2>5 DEF LoopOK, At
  <2> QED BY <2>3, <2>6 DEF CardInv
<1>3. CASE ExternalIgnore
  <2>1. Ignore(External, {"ExternalPaymentRequested"}) /\ UNCHANGED externalVars
    BY <1>3 DEF ExternalIgnore
  <2>2. RuntimeInv' /\ HandKept(Orchestrator) /\ At(External, "idle")'
    BY <1>1, <2>1, IgnoreKeepsInv, ConsumersKeepHands DEF Ignore, At
  <2>3. CounterOK' /\ UNCHANGED <<requests, charged, deadLetters>>
    BY <2>1 DEF CardInv, CounterOK, externalVars
  <2> QED BY <2>2, <2>3, IdleKeepsInv
<1>4. CASE ProcessPayment
  BY <1>4, ProcessPaymentInv
<1>5. CASE ExternalSave
  <2>1. Save(External) /\ UNCHANGED externalVars
    BY <1>5 DEF ExternalSave
  <2>2. /\ RuntimeInv' /\ HandKept(Orchestrator) /\ HandKept(External)
    BY <1>1, <2>1, SaveKeepsInv, WritesKeepHands
  <2>3. /\ op'[External] = [at |-> "publish", event |-> op[External].event]
        /\ At(External, "save")
    BY <1>1, <2>1 DEF Save, Goto, RuntimeInv, RuntimeTypeOK
  <2>4. InHand(External)' = InHand(External)
    BY <1>1, <2>2, <2>3, HandSame DEF At
  <2>5. UNCHANGED <<attempt, answer, requests, charged, deadLetters>>
    BY <2>1 DEF externalVars
  <2>6. SagaInv' /\ CounterOK' /\ GatewayOK' /\ DeadOK'
    BY <2>2, <2>5, SagaKept DEF CardInv, CounterOK, GatewayOK, DeadOK
  <2>7. LoopOK'
    BY <2>3, <2>4, <2>5 DEF CardInv, LoopOK, At, EventOnItsWay
  <2> QED BY <2>6, <2>7 DEF CardInv
<1>6. CASE ExternalStoreFails \/ PublishSent \/ PublishOther \/ ExternalPublishFails
  BY <1>6, ExternalWrites
<1>7. CASE ExternalCommit
  <2>1. CommitMessage(External) /\ UNCHANGED externalVars
    BY <1>7 DEF ExternalCommit
  <2>2. RuntimeInv' /\ HandKept(Orchestrator)
    BY <1>1, <2>1, CommitKeepsInv, ConsumersKeepHands
  <2>3. At(External, "idle")'
    BY <1>1, <2>1 DEF CommitMessage, Goto, At, RuntimeInv, RuntimeTypeOK
  <2>4. CounterOK' /\ UNCHANGED <<requests, charged, deadLetters>>
    BY <2>1 DEF CardInv, CounterOK, externalVars
  <2> QED BY <2>2, <2>3, <2>4, IdleKeepsInv
<1>8. ASSUME NEW h \in Webhooks, WebhookSave(h) \/ WebhookStoreFails(h) \/ WebhookPublish(h)
      PROVE  CardInv'
  <2>1. (Save(h) \/ StoreFails(h) \/ Publish(h)) /\ UNCHANGED externalVars
        /\ h \in Actors /\ h # External
    BY <1>1, <1>8, RuntimeAssumption DEF WebhookSave, WebhookStoreFails, WebhookPublish, Actors
  <2>2. RuntimeInv' /\ HandKept(Orchestrator) /\ HandKept(External)
    BY <1>1, <2>1, SaveKeepsInv, StoreFailsKeepsInv, PublishKeepsInv, WritesKeepHands
  <2>3. op'[External] = op[External]
    BY <1>1, <2>1 DEF Save, StoreFails, Publish, Goto, RuntimeInv, RuntimeTypeOK
  <2> QED BY <2>1, <2>2, <2>3, SagaKept, ElsewhereKeepsInv
<1>9. CASE ExternalCrash
  <2>1. Crash(External) /\ attempt' = 0 /\ answer' = NoAnswer /\ deadLetters' = <<>>
        /\ UNCHANGED <<requests, charged>>
    BY <1>9 DEF ExternalCrash
  <2>2. RuntimeInv' /\ HandKept(Orchestrator) /\ At(External, "idle")'
    BY <1>1, <2>1, CrashKeepsInv, CrashEnds, ConsumersKeepHands DEF At
  <2>3. CounterOK'
    BY <1>1, <2>1 DEF CounterOK
  <2> QED BY <2>1, <2>2, <2>3, IdleKeepsInv
<1> QED BY <1>2, <1>3, <1>4, <1>5, <1>6, <1>7, <1>8, <1>9 DEF ExternalStep

LEMMA CardNextInv == CardInv /\ [CardNext]_cardVars => CardInv'
<1> SUFFICES ASSUME CardInv, [CardNext]_cardVars PROVE CardInv'
  OBVIOUS
<1>1. RuntimeInv /\ External \in Groups \ {Orchestrator} /\ Orchestrator \in Groups
  BY TwoServices, OrchestratorAssumption DEF CardInv, SagaInv
<1>2. CASE CreateCardPayment /\ UNCHANGED externalVars
  <2>1. PICK p \in Payments, u \in Users, a \in Amounts : CreateExternalPayment(p, u, a)
    BY <1>2 DEF CreateCardPayment
  <2> DEFINE e == NewExternalPaymentRequested(p, u, a)
  <2>2. Build(p, e) /\ e \in Event /\ p \in Actors /\ p \notin Groups
    BY <2>1, RequestIsEvent, RuntimeAssumption DEF CreateExternalPayment, Actors, Calls
  <2> HIDE DEF e
  <2>3. RuntimeInv' /\ UNCHANGED busVars /\ op'[External] = op[External]
    BY <1>1, <2>2, BuildKeepsInv DEF Build, Goto, RuntimeInv, RuntimeTypeOK, Actors
  <2> QED BY <1>1, <1>2, <2>3, StillKeepsHands, SagaKept, ElsewhereKeepsInv
<1>3. CASE SagaStep /\ UNCHANGED externalVars
  BY <1>1, <1>3, SagaStepInv, SagaStepElsewhere, ElsewhereKeepsInv DEF CardInv
<1>4. CASE ExternalStep
  BY <1>4, ExternalStepInv
<1>5. CASE UNCHANGED cardVars
  <2>1. UNCHANGED <<store, topic, position, committed, current, faults, op,
                    attempt, answer, requests, charged, deadLetters>>
    BY <1>5 DEF cardVars, runtimeVars, busVars, externalVars
  <2>2. RuntimeInv' /\ InHand(Orchestrator)' = InHand(Orchestrator)
        /\ InHand(External)' = InHand(External)
    BY <1>1, <2>1 DEF RuntimeInv, RuntimeTypeOK, OffsetsOK, HandOK, BuiltOK, At, InHand
  <2>3. SagaInv' /\ LoopOK'
    BY <2>1, <2>2 DEF CardInv, SagaInv, HandIsAnswer, LoopOK, EventOnItsWay, At
  <2>4. CounterOK' /\ GatewayOK' /\ DeadOK'
    BY <2>1 DEF CardInv, CounterOK, GatewayOK, DeadOK
  <2> QED BY <2>3, <2>4 DEF CardInv
<1> QED BY <1>2, <1>3, <1>4, <1>5 DEF CardNext

----
(* The pause never leaves the bounds of the policy and its jitter.         *)
DelayOK == delay \in InitialDelay..LongestDelay

LEMMA NextDelaysBounded == DelayOK => NextDelays(delay) \subseteq InitialDelay..LongestDelay
<1> SUFFICES ASSUME DelayOK, NEW d \in NextDelays(delay)
             PROVE  d \in InitialDelay..LongestDelay
  OBVIOUS
<1> DEFINE capped == IF 2 * delay > MaxDelay THEN MaxDelay ELSE 2 * delay
<1>1. /\ InitialDelay \in Nat /\ MaxDelay \in Nat /\ InitialDelay <= MaxDelay
      /\ delay \in Nat /\ InitialDelay <= delay
  BY ExternalAssumption DEF DelayOK, LongestDelay
<1>2. capped \in Nat /\ InitialDelay <= capped /\ capped <= MaxDelay
  BY <1>1
<1>3. PICK jitter \in 0..(capped \div 10 - 1) : d = capped + jitter
  BY DEF NextDelays
<1> HIDE DEF capped
<1>4. capped \div 10 <= MaxDelay \div 10 /\ capped \div 10 \in Nat /\ MaxDelay \div 10 \in Nat
  BY <1>1, <1>2
<1> QED BY <1>1, <1>2, <1>3, <1>4 DEF LongestDelay

LEMMA DelayMoves ==
  ASSUME [CardNext]_cardVars
  PROVE  delay' \in {delay, InitialDelay} \/ delay' \in NextDelays(delay)
<1>1. CASE UNCHANGED externalVars \/ UNCHANGED cardVars
  BY <1>1 DEF externalVars, cardVars
<1>2. CASE ExternalReceive \/ ExternalCrash
  BY <1>2 DEF ExternalReceive, ExternalCrash
<1>3. CASE ProcessPayment
  BY <1>3 DEF ProcessPayment
<1>4. CASE ExternalStoreFails \/ PublishOther \/ ExternalPublishFails
  <2>1. PICK e : PauseAfter(e)
    BY <1>4 DEF ExternalStoreFails, PublishOther, ExternalPublishFails
  <2> QED BY <2>1 DEF PauseAfter
<1>5. CASE \/ ExternalIgnore \/ ExternalSave \/ PublishSent \/ ExternalCommit
           \/ \E h \in Webhooks : WebhookSave(h) \/ WebhookStoreFails(h) \/ WebhookPublish(h)
  <2>1. UNCHANGED externalVars
    BY <1>5 DEF ExternalIgnore, ExternalSave, PublishSent, ExternalCommit,
                WebhookSave, WebhookStoreFails, WebhookPublish
  <2> QED BY <1>1, <2>1
<1> QED BY <1>1, <1>2, <1>3, <1>4, <1>5 DEF CardNext, ExternalStep

LEMMA DelayBounded == CardSpec => []DelayOK
<1>1. CardInit => DelayOK
  <2>1. InitialDelay \in Nat /\ LongestDelay \in Nat /\ InitialDelay <= LongestDelay
    BY ExternalAssumption DEF LongestDelay
  <2> QED BY <2>1 DEF CardInit, ExternalInit, DelayOK
<1>2. DelayOK /\ [CardNext]_cardVars => DelayOK'
  <2> SUFFICES ASSUME DelayOK, [CardNext]_cardVars PROVE delay' \in InitialDelay..LongestDelay
    BY DEF DelayOK, LongestDelay
  <2>1. InitialDelay \in InitialDelay..LongestDelay
    BY ExternalAssumption DEF LongestDelay
  <2> QED BY <2>1, DelayMoves, NextDelaysBounded DEF DelayOK
<1> QED BY <1>1, <1>2, PTL DEF CardSpec

----
LEMMA CardSpecInv == CardSpec => []CardInv
<1> QED BY CardInitInv, CardNextInv, PTL DEF CardSpec

(* Nothing the two services do leaves the types of CardTypeOK: no event    *)
(* built from an ill-typed message, no attempt counted beyond the policy,  *)
(* no pause outside it, no dead letter queue beyond its bound, no charge   *)
(* the gateway was not asked for.                                          *)
THEOREM CardTypeCorrect == CardSpec => []CardTypeOK
<1>1. CardInv /\ DelayOK => CardTypeOK
  BY DEF CardInv, SagaInv, RuntimeInv, CounterOK, GatewayOK, DeadOK, DelayOK, CardTypeOK
<1> QED BY <1>1, CardSpecInv, DelayBounded, PTL

(* The service never gives a payment up before its attempts are used up:   *)
(* handleMaxRetriesExceeded in service.go writes a dead letter only for a      *)
(* payment the gateway was asked for at least MaxAttempts times.           *)
THEOREM GivesUpAfterAllAttempts == CardSpec => []DeadLettersWereTried
<1>1. CardInv => DeadLettersWereTried
  BY DEF CardInv, DeadOK, DeadLettersWereTried
<1> QED BY <1>1, CardSpecInv, PTL

----
(* While the events table does not fail, a card request the service has    *)
(* read is sent or failed in its payment's log, or is the one the loop     *)
(* still turns on, not committed yet.                                      *)
LoopTypes == {"PaymentGatewayTimeout", "PaymentRetryRequested"}
OutcomeTypes == {"PaymentSentToGateway", "ExternalPaymentFailed"}

Taken(x) == Recorded(x, "PaymentSentToGateway") \/ Recorded(x, "ExternalPaymentFailed")

InLoop ==
  \/ At(External, "handle") \/ At(External, "save")
  \/ At(External, "publish") /\ op[External].event.type \in LoopTypes

Reached(p, i) ==
  \/ topic[p][i].type # "ExternalPaymentRequested"
  \/ Taken(topic[p][i].payment)
  \/ InLoop /\ current[External] = p /\ position[External][p] = i

WritesKnownTypes ==
  At(External, "save") \/ At(External, "publish") =>
    op[External].event.type \in LoopTypes \cup OutcomeTypes

TakenInv ==
  /\ \A p \in Partitions : \A i \in 1..position[External][p] : Reached(p, i)
  /\ ~At(External, "idle") =>
       committed[External][current[External]] < position[External][current[External]]
  /\ WritesKnownTypes

LogsKept ==
  \A x \in Aggregates : \A i \in DOMAIN store[x] :
    i \in DOMAIN store'[x] /\ store'[x][i] = store[x][i]

LEMMA TakenStays ==
  ASSUME LogsKept, NEW x \in Payments, Taken(x) PROVE Taken(x)'
BY DEF LogsKept, Taken, Recorded, Aggregates

LEMMA ExternalOffsets ==
  ASSUME CardInv
  PROVE  /\ \A p \in Partitions :
              /\ committed[External][p] \in Nat /\ position[External][p] \in Nat
              /\ Len(topic[p]) \in Nat
              /\ committed[External][p] <= position[External][p]
              /\ position[External][p] <= Len(topic[p])
         /\ At(External, "idle") \/ current[External] \in Partitions
         /\ External \in Actors /\ External \in Groups /\ RuntimeInv
<1>1. RuntimeInv /\ External \in Groups
  BY ExternalAssumption DEF CardInv, SagaInv
<1>2. \A p \in Partitions : Len(topic[p]) \in Nat
  BY <1>1, LenProperties DEF RuntimeInv, RuntimeTypeOK
<1> QED BY <1>1, <1>2 DEF RuntimeInv, RuntimeTypeOK, OffsetsOK, HandOK, Actors

LEMMA RequestsHavePayments ==
  ASSUME CardInv, NEW p \in Partitions, NEW i \in 1..position[External][p],
         topic[p][i].type = "ExternalPaymentRequested"
  PROVE  topic[p][i].payment \in Payments
<1>1. topic[p] \in Seq(Event) /\ i \in 1..Len(topic[p])
  BY ExternalOffsets DEF RuntimeInv, RuntimeTypeOK
<1>2. topic[p][i] \in Event
  BY <1>1, ElementOfSeq
<1> QED BY <1>2 DEF Event

LEMMA ReachedCommits ==
  ASSUME CardInv, TakenInv, NEW p \in Partitions, NEW i \in 1..committed[External][p],
         topic[p][i].type = "ExternalPaymentRequested"
  PROVE  Taken(topic[p][i].payment)
<1>1. i \in 1..position[External][p]
  BY ExternalOffsets
<1>2. ~(InLoop /\ current[External] = p /\ position[External][p] = i)
  BY ExternalOffsets DEF TakenInv, InLoop, At
<1> QED BY <1>1, <1>2 DEF TakenInv, Reached

(* A step in which the service fetches and commits nothing: it stays in    *)
(* the loop unless the request in hand has been taken.                     *)
LEMMA MoveTaken ==
  ASSUME CardInv, TakenInv, LogsKept, HandKept(External),
         InLoop => InLoop' \/ \A x : x = InHand(External).payment => Taken(x)',
         At(External, "idle")' <=> At(External, "idle"), WritesKnownTypes'
  PROVE  TakenInv'
<1>1. ASSUME NEW p \in Partitions, NEW i \in 1..position'[External][p] PROVE Reached(p, i)'
  <2>1. /\ i \in 1..position[External][p] /\ i \in 1..Len(topic[p])
        /\ position'[External] = position[External] /\ current'[External] = current[External]
        /\ topic'[p][i] = topic[p][i]
    BY ExternalOffsets DEF HandKept
  <2>2. Reached(p, i)
    BY <2>1 DEF TakenInv
  <2>3. CASE topic[p][i].type # "ExternalPaymentRequested"
    BY <2>1, <2>3 DEF Reached
  <2>4. CASE topic[p][i].type = "ExternalPaymentRequested" /\ Taken(topic[p][i].payment)
    <3>1. \A x : x = topic[p][i].payment => Taken(x)'
      BY <2>1, <2>4, RequestsHavePayments, TakenStays
    <3> QED BY <2>1, <3>1 DEF Reached
  <2>5. CASE InLoop /\ current[External] = p /\ position[External][p] = i
    <3>1. CASE InLoop'
      BY <2>1, <2>5, <3>1 DEF Reached
    <3>2. CASE \A x : x = InHand(External).payment => Taken(x)'
      BY <2>1, <2>5, <3>2 DEF Reached, InHand
    <3> QED BY <2>5, <3>1, <3>2
  <2> QED BY <2>2, <2>3, <2>4, <2>5 DEF Reached
<1>2. ~At(External, "idle")' =>
        committed'[External][current'[External]] < position'[External][current'[External]]
  BY DEF TakenInv, HandKept
<1> QED BY <1>1, <1>2 DEF TakenInv

LEMMA ElsewhereTaken ==
  ASSUME CardInv, TakenInv, LogsKept, HandKept(External), op'[External] = op[External]
  PROVE  TakenInv'
<1>1. (InLoop' <=> InLoop) /\ (At(External, "idle")' <=> At(External, "idle"))
  BY DEF InLoop, At
<1>2. WritesKnownTypes'
  BY DEF TakenInv, WritesKnownTypes, At
<1> QED BY <1>1, <1>2, MoveTaken

(* A commit or a crash: afterwards the service has read what was taken.    *)
LEMMA IdleTaken ==
  ASSUME CardInv, TakenInv, UNCHANGED <<store, topic>>, op'[External].at = "idle",
         \/ ~InLoop /\ UNCHANGED position
         \/ \A p \in Partitions : position'[External][p] = committed[External][p]
  PROVE  TakenInv'
<1>1. \A x : Taken(x)' <=> Taken(x)
  BY DEF Taken, Recorded
<1>2. ~InLoop' /\ At(External, "idle")' /\ WritesKnownTypes'
  BY DEF InLoop, At, WritesKnownTypes
<1>3. ASSUME NEW p \in Partitions, NEW i \in 1..position'[External][p] PROVE Reached(p, i)'
  <2>1. topic[p][i].type # "ExternalPaymentRequested" \/ Taken(topic[p][i].payment)
    BY <1>3, ReachedCommits DEF TakenInv, Reached
  <2> QED BY <1>1, <2>1 DEF Reached
<1> QED BY <1>2, <1>3 DEF TakenInv

(* A message that is read is taken up, or asks for nothing.                *)
LEMMA FetchTaken ==
  ASSUME CardInv, TakenInv, ExternalReceive \/ ExternalIgnore PROVE TakenInv'
<1>1. PICK q \in Partitions :
        \/ ExternalReceive /\ Fetch(External, q)
        \/ /\ ExternalIgnore /\ Pass(External, q)
           /\ NextMessage(External, q).type # "ExternalPaymentRequested"
  BY DEF ExternalReceive, ExternalIgnore, Receive, Ignore
<1>2. /\ position'[External][q] = position[External][q] + 1
      /\ \A p \in Partitions \ {q} : position'[External][p] = position[External][p]
      /\ UNCHANGED <<store, topic>> /\ At(External, "idle")
  BY <1>1, ExternalOffsets DEF Fetch, Pass, ExternalReceive, ExternalIgnore, Receive, Ignore,
                               RuntimeInv, RuntimeTypeOK
<1>3. ~InLoop
  BY <1>2 DEF InLoop, At
<1>4. /\ ~At(External, "save")' /\ ~At(External, "publish")'
      /\ \/ /\ InLoop' /\ current'[External] = q
            /\ committed'[External][q] < position'[External][q]
         \/ /\ At(External, "idle")'
            /\ topic[q][position[External][q] + 1].type # "ExternalPaymentRequested"
  <2>1. CASE ExternalReceive /\ Fetch(External, q)
    <3>1. op'[External].at = "handle"
      BY <2>1, ExternalOffsets DEF ExternalReceive, Receive, Goto, RuntimeInv, RuntimeTypeOK
    <3>2. current'[External] = q /\ UNCHANGED committed
      BY <2>1, ExternalOffsets DEF Fetch, RuntimeInv, RuntimeTypeOK
    <3>3. committed'[External][q] < position'[External][q]
      BY <1>2, <3>2, ExternalOffsets
    <3> QED BY <3>1, <3>2, <3>3 DEF At, InLoop
  <2>2. CASE /\ ExternalIgnore /\ Pass(External, q)
             /\ NextMessage(External, q).type # "ExternalPaymentRequested"
    <3>1. UNCHANGED op
      BY <2>2 DEF ExternalIgnore, Ignore
    <3> QED BY <1>2, <2>2, <3>1 DEF At, NextMessage
  <2> QED BY <1>1, <2>1, <2>2
<1>5. \A x : Taken(x)' <=> Taken(x)
  BY <1>2 DEF Taken, Recorded
<1>6. ASSUME NEW p \in Partitions, NEW i \in 1..position'[External][p] PROVE Reached(p, i)'
  <2>1. position[External][p] \in Nat
    BY ExternalOffsets
  <2>2. CASE p = q /\ i = position[External][q] + 1
    BY <1>2, <1>4, <2>2 DEF Reached
  <2>3. CASE ~(p = q /\ i = position[External][q] + 1)
    <3>1. i \in 1..position[External][p]
      BY <1>2, <2>1, <2>3
    <3>2. Reached(p, i)
      BY <3>1 DEF TakenInv
    <3> QED BY <1>2, <1>3, <1>5, <3>2 DEF Reached
  <2> QED BY <2>2, <2>3
<1> QED BY <1>4, <1>6 DEF TakenInv, WritesKnownTypes

(* An event that is through leads out of the loop only if it is an outcome.*)
LEMMA AfterStaysInLoop ==
  ASSUME NEW e
  PROVE  /\ After(e).at \in {"save", "handle", "commit"}
         /\ e.type \in LoopTypes => After(e).at \in {"save", "handle"}
         /\ After(e).at = "save" => After(e).event.type \in LoopTypes \cup OutcomeTypes
<1>1. CASE e.type = "PaymentGatewayTimeout"
  <2> DEFINE n == IF attempt < MaxAttempts
                  THEN NewPaymentRetryRequested(e.payment, e.user)
                  ELSE NewExternalPaymentFailed(e.payment, e.user, InHand(External).amount)
  <2>1. n.type \in {"PaymentRetryRequested", "ExternalPaymentFailed"}
    BY ServiceFields
  <2>2. After(e) = [at |-> "save", event |-> n]
    BY <1>1 DEF After
  <2> HIDE DEF n
  <2> QED BY <2>1, <2>2 DEF LoopTypes, OutcomeTypes
<1>2. CASE e.type = "PaymentRetryRequested"
  BY <1>2 DEF After
<1>3. CASE e.type \notin LoopTypes
  BY <1>3 DEF After, LoopTypes
<1> QED BY <1>1, <1>2, <1>3 DEF LoopTypes

LEMMA ConsequenceIsKnown ==
  ASSUME NEW r, NEW a \in GatewayAnswers
  PROVE  Consequence(a, r).type \in LoopTypes \cup OutcomeTypes
<1>1. CASE a = "SUCCESS"
  BY <1>1, ServiceFields DEF Consequence, OutcomeTypes
<1>2. CASE a = "timeout"
  BY <1>2, ServiceFields DEF Consequence, LoopTypes
<1>3. CASE a = "error"
  BY <1>3, ServiceFields DEF Consequence, OutcomeTypes
<1> QED BY <1>1, <1>2, <1>3, ExternalAssumption

(* The service asks the gateway, or is through with writing an event.      *)
LEMMA LoopTaken ==
  ASSUME CardInv, TakenInv,
         ProcessPayment \/ PublishSent \/ PublishOther \/ ExternalPublishFails
  PROVE  TakenInv'
<1>1. External \in Actors /\ External \in Groups /\ RuntimeInv
  BY ExternalOffsets
<1>2. LogsKept
  BY DEF LogsKept, ProcessPayment, Build, PublishSent, PublishOther, ExternalPublishFails
<1>3. HandKept(External)
  <2>1. CASE ProcessPayment
    BY <1>1, <2>1, StillKeepsHands DEF ProcessPayment, Build
  <2>2. CASE PublishSent \/ PublishOther \/ ExternalPublishFails
    <3>1. op[External].event \in Event /\ Send(op[External].event)
      BY <1>1, <2>2
      DEF PublishSent, PublishOther, ExternalPublishFails, SendFails, RuntimeInv, BuiltOK
    <3> QED BY <1>1, <3>1, SendAppends DEF HandKept
  <2> QED BY <2>1, <2>2
<1>4. CASE ProcessPayment
  <2>1. PICK a \in GatewayAnswers : Goto(External, "save", Consequence(a, InHand(External)))
    BY <1>4 DEF ProcessPayment, Build
  <2>2. op'[External] = [at |-> "save", event |-> Consequence(a, InHand(External))]
    BY <1>1, <2>1 DEF Goto, RuntimeInv, RuntimeTypeOK
  <2>3. op'[External].event.type \in LoopTypes \cup OutcomeTypes
    BY <2>2, ConsequenceIsKnown
  <2>4. At(External, "handle")
    BY <1>4 DEF ProcessPayment
  <2>5. InLoop' /\ ~At(External, "idle")' /\ ~At(External, "idle") /\ WritesKnownTypes'
    BY <2>2, <2>3, <2>4 DEF InLoop, At, WritesKnownTypes
  <2> QED BY <1>2, <1>3, <2>5, MoveTaken
<1>5. CASE PublishSent \/ PublishOther \/ ExternalPublishFails
  <2> DEFINE e == op[External].event
  <2>1. At(External, "publish") /\ op'[External] = After(e)
    <3> HIDE DEF e
    <3>1. At(External, "publish")
      BY <1>5 DEF PublishSent, PublishOther, ExternalPublishFails
    <3>2. CASE op' = [op EXCEPT ![External] = After(e)]
      BY <1>1, <3>1, <3>2 DEF RuntimeInv, RuntimeTypeOK
    <3>3. CASE PublishSent
      <4> DEFINE w == [at |-> "save", event |-> NewPaymentGatewayResponse(e.payment, e.user, TRUE)]
      <4>1. PICK h \in Webhooks : op' = [op EXCEPT ![External] = After(e), ![h] = w]
        BY <3>3 DEF PublishSent, e
      <4>2. h # External
        BY <1>1, RuntimeAssumption
      <4> HIDE DEF w
      <4> QED BY <1>1, <3>1, <4>1, <4>2 DEF RuntimeInv, RuntimeTypeOK
    <3> QED BY <1>5, <3>1, <3>2, <3>3 DEF PublishOther, ExternalPublishFails, e
  <2> HIDE DEF e
  <2>2. /\ After(e).at \in {"save", "handle", "commit"}
        /\ e.type \in LoopTypes => After(e).at \in {"save", "handle"}
        /\ After(e).at = "save" => After(e).event.type \in LoopTypes \cup OutcomeTypes
    BY AfterStaysInLoop
  <2>3. InLoop => InLoop'
    BY <2>1, <2>2 DEF InLoop, At, e
  <2>4. ~At(External, "idle")' /\ ~At(External, "idle") /\ WritesKnownTypes'
    BY <2>1, <2>2 DEF At, WritesKnownTypes
  <2> QED BY <1>2, <1>3, <2>3, <2>4, MoveTaken
<1> QED BY <1>4, <1>5

(* A saved outcome is the outcome of the request in hand.                  *)
LEMMA SaveTaken == ASSUME CardInv, TakenInv, ExternalSave PROVE TakenInv'
<1> DEFINE e == op[External].event
<1>1. /\ External \in Actors /\ External \in Groups /\ RuntimeInv
      /\ Save(External) /\ At(External, "save") /\ ~At(External, "idle")
  BY ExternalOffsets DEF ExternalSave, Save, At
<1>2. LogsKept
  BY <1>1, LogsGrow DEF LogsKept
<1>3. HandKept(External)
  BY <1>1, WritesKeepHands
<1>4. op'[External] = [at |-> "publish", event |-> e]
  BY <1>1 DEF Save, Goto, RuntimeInv, RuntimeTypeOK
<1>5. e.type \in LoopTypes \cup OutcomeTypes /\ e.payment = InHand(External).payment
  BY <1>1 DEF TakenInv, WritesKnownTypes, CardInv, LoopOK, EventOnItsWay
<1>6. e.type \in OutcomeTypes => e.payment \in Payments /\ Aggregate(e) = e.payment
  BY <1>1, <1>5, RequestInHand DEF Aggregate, WalletTypes, OutcomeTypes
<1>7. CASE e.type \in OutcomeTypes
  <2>1. PICK i \in DOMAIN store'[e.payment] : store'[e.payment][i] = e
    BY <1>1, <1>6, <1>7, LogsGrow DEF Aggregates
  <2>2. ASSUME NEW x, x = InHand(External).payment PROVE Taken(x)'
    <3>1. i \in DOMAIN store'[x] /\ store'[x][i].type \in OutcomeTypes
      BY <1>5, <1>7, <2>1, <2>2
    <3> QED BY <3>1 DEF Taken, Recorded, OutcomeTypes
  <2>3. ~At(External, "idle")' /\ WritesKnownTypes'
    BY <1>4, <1>5 DEF At, WritesKnownTypes
  <2> QED BY <1>1, <1>2, <1>3, <2>2, <2>3, MoveTaken
<1>8. CASE e.type \in LoopTypes
  <2>1. InLoop' /\ ~At(External, "idle")' /\ WritesKnownTypes'
    BY <1>4, <1>5, <1>8 DEF InLoop, At, WritesKnownTypes
  <2> QED BY <1>1, <1>2, <1>3, <2>1, MoveTaken
<1> QED BY <1>5, <1>7, <1>8

LEMMA ExternalStepTaken ==
  ASSUME CardInv, TakenInv, "store" \notin FaultKinds, ExternalStep PROVE TakenInv'
<1>1. CASE ExternalReceive \/ ExternalIgnore
  BY <1>1, FetchTaken
<1>2. CASE ProcessPayment \/ PublishSent \/ PublishOther \/ ExternalPublishFails
  BY <1>2, LoopTaken
<1>3. CASE ExternalSave
  BY <1>3, SaveTaken
<1>4. CASE ExternalStoreFails
  BY <1>4 DEF ExternalStoreFails, Fault
<1>5. CASE ExternalCommit
  <2>1. /\ At(External, "commit") /\ Goto(External, "idle", NoEvent)
        /\ UNCHANGED <<store, topic, position>>
    BY <1>5 DEF ExternalCommit, CommitMessage, Commit
  <2>2. op'[External].at = "idle" /\ ~InLoop
    BY <2>1, ExternalOffsets DEF Goto, InLoop, At, RuntimeInv, RuntimeTypeOK
  <2> QED BY <2>1, <2>2, IdleTaken
<1>6. ASSUME NEW h \in Webhooks, WebhookSave(h) \/ WebhookStoreFails(h) \/ WebhookPublish(h)
      PROVE  TakenInv'
  <2>1. /\ Save(h) \/ StoreFails(h) \/ Publish(h)
        /\ h \in Actors /\ h # External /\ External \in Groups /\ RuntimeInv
    BY <1>6, ExternalOffsets, RuntimeAssumption
    DEF WebhookSave, WebhookStoreFails, WebhookPublish, Actors
  <2>2. LogsKept
    BY <2>1, LogsGrow DEF LogsKept, StoreFails, Publish
  <2>3. HandKept(External)
    BY <2>1, WritesKeepHands
  <2>4. op'[External] = op[External]
    BY <2>1, ExternalOffsets DEF Save, StoreFails, Publish, Goto, RuntimeInv, RuntimeTypeOK
  <2> QED BY <2>2, <2>3, <2>4, ElsewhereTaken
<1>7. CASE ExternalCrash
  <2>1. /\ Crash(External) /\ UNCHANGED <<store, topic>>
        /\ position' = [position EXCEPT ![External] = committed[External]]
    BY <1>7 DEF ExternalCrash, Crash, Rejoin
  <2>2. \A p \in Partitions : position'[External][p] = committed[External][p]
    BY <2>1, ExternalOffsets DEF RuntimeInv, RuntimeTypeOK
  <2>3. op'[External].at = "idle"
    BY <2>1, CrashEnds, ExternalOffsets
  <2> QED BY <2>1, <2>2, <2>3, IdleTaken
<1> QED BY <1>1, <1>2, <1>3, <1>4, <1>5, <1>6, <1>7 DEF ExternalStep

LEMMA TakenNext ==
  CardInv /\ ("store" \notin FaultKinds => TakenInv) /\ [CardNext]_cardVars
    => ("store" \notin FaultKinds => TakenInv')
<1> SUFFICES ASSUME CardInv, TakenInv, "store" \notin FaultKinds, [CardNext]_cardVars
             PROVE  TakenInv'
  OBVIOUS
<1>1. RuntimeInv /\ External \in Groups \ {Orchestrator} /\ External \in Actors
  BY TwoServices, ExternalOffsets
<1>2. CASE CreateCardPayment
  <2>1. PICK p \in Payments, u \in Users, a \in Amounts : CreateExternalPayment(p, u, a)
    BY <1>2 DEF CreateCardPayment
  <2>2. p # External
    BY <1>1, RuntimeAssumption DEF Calls
  <2>3. LogsKept /\ HandKept(External) /\ op'[External] = op[External]
    BY <1>1, <2>1, <2>2, StillKeepsHands
    DEF CreateExternalPayment, Build, Goto, LogsKept, RuntimeInv, RuntimeTypeOK
  <2> QED BY <2>3, ElsewhereTaken
<1>3. CASE SagaStep
  <2>1. HandKept(External) /\ op'[External] = op[External]
    BY <1>1, <1>3, SagaStepElsewhere DEF CardInv
  <2>2. LogsKept
    <3>1. CASE UNCHANGED store
      BY <3>1 DEF LogsKept
    <3>2. CASE \E a \in SagaActors : Save(a)
      BY <1>1, <3>2, LogsGrow, OrchestratorAssumption DEF LogsKept, SagaActors, Actors, Calls
    <3> QED
      BY <1>3, <3>1, <3>2
      DEF SagaStep, SagaReceive, SagaIgnore, Receive, Ignore, HandleAnswer, Build, Refuse,
          StoreFails, Publish, CommitMessage, Crash
  <2> QED BY <2>1, <2>2, ElsewhereTaken
<1>4. CASE ExternalStep
  BY <1>4, ExternalStepTaken
<1>5. CASE UNCHANGED cardVars
  <2>1. LogsKept /\ HandKept(External) /\ op'[External] = op[External]
    BY <1>5, StillKeepsHands, <1>1 DEF cardVars, runtimeVars, LogsKept
  <2> QED BY <2>1, ElsewhereTaken
<1> QED BY <1>2, <1>3, <1>4, <1>5 DEF CardNext

LEMMA TakenInit == CardInit => TakenInv
<1> SUFFICES ASSUME CardInit PROVE TakenInv
  OBVIOUS
<1>1. At(External, "idle") /\ \A p \in Partitions : position[External][p] = 0
  BY ExternalAssumption DEF CardInit, RuntimeInit, BusInit, At, Actors
<1> QED BY <1>1 DEF TakenInv, WritesKnownTypes, At

(* A card request is never lost between the offset and the log: unless the *)
(* events table fails, every request whose offset is committed has been    *)
(* sent to the gateway or failed in its payment's log, wherever in the     *)
(* retry loop of service.go the process died and whatever was not          *)
(* published.                                                              *)
THEOREM RequestsAreTaken == CardSpec => []CommittedAreTaken
<1> DEFINE TakenOr == "store" \notin FaultKinds => TakenInv
<1>1. CardInit => TakenOr
  BY TakenInit
<1>2. CardInv /\ TakenOr /\ [CardNext]_cardVars => TakenOr'
  BY TakenNext
<1>3. CardInv /\ TakenOr => CommittedAreTaken
  BY ReachedCommits DEF CommittedAreTaken, Taken
<1> QED
  <2> HIDE DEF TakenOr
  <2> QED BY <1>1, <1>2, <1>3, CardSpecInv, PTL DEF CardSpec

----
(* Who writes what: a call the request of its payment, a webhook responses,*)
(* the service's consumer the events of its loop - and the orchestrator's  *)
(* nothing, for a response is published only when it is in its payment's   *)
(* log, and has moved the saga by then.                                    *)
CardTypes ==
  {"ExternalPaymentRequested", "PaymentGatewayResponse"} \cup LoopTypes \cup OutcomeTypes

Writing(a) == At(a, "save") \/ At(a, "publish")

WrittenBy(a) ==
  CASE a \in Payments -> {"ExternalPaymentRequested"}
    [] a \in Webhooks -> {"PaymentGatewayResponse"}
    [] a = External -> LoopTypes \cup OutcomeTypes
    [] OTHER -> {}

Owns(a, e) ==
  /\ e.type \in WrittenBy(a)
  /\ e.payment \in Payments
  /\ a \in Payments => e.payment = a

WritesOwn == \A a \in Actors : Writing(a) => Owns(a, op[a].event)

SavedFirst ==
  /\ \A a \in Actors : At(a, "publish") => Recorded(op[a].event.payment, op[a].event.type)
  /\ \A q \in Partitions : \A i \in 1..Len(topic[q]) :
       /\ topic[q][i].type \in CardTypes
       /\ topic[q][i].payment \in Payments
       /\ Recorded(topic[q][i].payment, topic[q][i].type)

FlowInv == WritesOwn /\ SavedFirst

(* Who is who among the actors.                                            *)
LEMMA CardCast ==
  /\ Orchestrator \in Groups /\ External \in Groups /\ Orchestrator # External
  /\ Groups \subseteq Actors /\ Payments \subseteq Actors /\ Webhooks \subseteq Actors
  /\ Groups \cap Payments = {} /\ Groups \cap Webhooks = {} /\ Payments \cap Webhooks = {}
  /\ SagaActors \subseteq Actors
  /\ Payments \subseteq Aggregates
  /\ WrittenBy(External) = LoopTypes \cup OutcomeTypes
  /\ \A p \in Payments : WrittenBy(p) = {"ExternalPaymentRequested"}
  /\ \A h \in Webhooks : WrittenBy(h) = {"PaymentGatewayResponse"}
  /\ \A a : WrittenBy(a) \subseteq CardTypes
<1>1. /\ Orchestrator \in Groups /\ External \in Groups /\ Orchestrator # External
      /\ Groups \cap Payments = {} /\ Groups \cap Webhooks = {} /\ Payments \cap Webhooks = {}
  BY TwoServices, OrchestratorAssumption, RuntimeAssumption DEF Calls
<1>2. /\ WrittenBy(External) = LoopTypes \cup OutcomeTypes
      /\ \A p \in Payments : WrittenBy(p) = {"ExternalPaymentRequested"}
      /\ \A h \in Webhooks : WrittenBy(h) = {"PaymentGatewayResponse"}
  BY <1>1 DEF WrittenBy
<1>3. \A a : WrittenBy(a) \subseteq CardTypes
  BY DEF WrittenBy, CardTypes
<1> QED BY <1>1, <1>2, <1>3 DEF Actors, Calls, SagaActors, Aggregates

(* What a step makes of an operation: it leaves it alone, ends or suspends *)
(* it, has it build an event of its own, or saves the event it has built.  *)
Moved(b) ==
  \/ op'[b] = op[b]
  \/ op'[b].at \notin {"save", "publish"}
  \/ op'[b].at = "save" /\ Owns(b, op'[b].event)
  \/ Save(b) /\ op'[b] = [at |-> "publish", event |-> op[b].event]

LEMMA GotoMoves ==
  ASSUME RuntimeInv, NEW a \in Actors, NEW step, NEW e, Goto(a, step, e),
         \/ step \notin {"save", "publish"}
         \/ step = "save" /\ Owns(a, e)
         \/ Save(a) /\ step = "publish" /\ e = op[a].event
  PROVE  \A b \in Actors : Moved(b)
<1> SUFFICES ASSUME NEW b \in Actors PROVE Moved(b)
  OBVIOUS
<1>1. CASE b # a
  <2>1. op'[b] = op[b]
    BY <1>1 DEF Goto, RuntimeInv, RuntimeTypeOK
  <2> QED BY <2>1 DEF Moved
<1>2. CASE b = a
  <2>1. op'[b] = [at |-> step, event |-> e]
    BY <1>2 DEF Goto, RuntimeInv, RuntimeTypeOK
  <2>2. op'[b].at = step /\ op'[b].event = e
    BY <2>1
  <2> QED BY <1>2, <2>1, <2>2 DEF Moved
<1> QED BY <1>1, <1>2

(* The orchestrator refuses every response of the gateway.                 *)
LEMMA AnswersRefused == ASSUME CardInv, FlowInv, HandleAnswer PROVE Refuse(Orchestrator)
<1>1. PICK m : m = InHand(Orchestrator)
  OBVIOUS
<1>2. RuntimeInv /\ ~At(Orchestrator, "idle") /\ m.type \in HandledTypes
  BY <1>1 DEF CardInv, SagaInv, HandIsAnswer, HandleAnswer, At
<1>3. current[Orchestrator] \in Partitions
      /\ position[Orchestrator][current[Orchestrator]] \in 1..Len(topic[current[Orchestrator]])
  BY <1>2, CardCast DEF RuntimeInv, RuntimeTypeOK, OffsetsOK, HandOK
<1>4. m.type \in CardTypes /\ m.payment \in Payments /\ Recorded(m.payment, m.type)
  BY <1>1, <1>3 DEF FlowInv, SavedFirst, InHand
<1>5. m.type = "PaymentGatewayResponse"
  BY <1>2, <1>4 DEF HandledTypes, ProcessedTypes, DecodedTypes, CardTypes, LoopTypes, OutcomeTypes
<1>6. store[m.payment] \in Seq(Event)
  BY <1>2, <1>4, CardCast DEF RuntimeInv, RuntimeTypeOK
<1>7. ~Accepts(m, store[m.payment])
  BY <1>4, <1>5, <1>6, ResponseRefused DEF Recorded
<1> QED BY <1>1, <1>7 DEF HandleAnswer, LoadEvents

(* The events of the service's loop are of the payment in hand.            *)
LEMMA LoopOwns ==
  ASSUME CardInv, FlowInv, Writing(External), NEW e, e = op[External].event
  PROVE  /\ e \in Event /\ e.payment = InHand(External).payment /\ e.payment \in Payments
         /\ e.type \in LoopTypes \cup OutcomeTypes
         /\ After(e).at \in {"save", "handle", "commit"}
         /\ After(e).at = "save" => Owns(External, After(e).event) /\ After(e).event.payment = e.payment
<1>1. RuntimeInv /\ ~At(External, "idle") /\ External \in Actors
  BY CardCast DEF CardInv, SagaInv, Writing, At
<1>2. InHand(External) \in Event /\ InHand(External).payment \in Payments
  BY <1>1, RequestInHand
<1>3. e \in Event /\ EventOnItsWay(e, InHand(External)) /\ e.payment = InHand(External).payment
  BY <1>1 DEF CardInv, LoopOK, RuntimeInv, BuiltOK, EventOnItsWay, Writing
<1>4. e.type \in LoopTypes \cup OutcomeTypes
  BY <1>1, CardCast DEF FlowInv, WritesOwn, Owns
<1>5. /\ After(e).at \in {"save", "handle", "commit"}
      /\ After(e).at = "save" => After(e).event.type \in LoopTypes \cup OutcomeTypes
  BY AfterStaysInLoop
<1>6. After(e).at = "save" => After(e).event.payment = e.payment
  BY <1>2, <1>3, AfterIsSound DEF CardInv, EventOnItsWay
<1> QED BY <1>2, <1>3, <1>4, <1>5, <1>6, CardCast DEF Owns

(* Every step moves the operations so, and writes at most one event.       *)
LEMMA ExternalStepMoves ==
  ASSUME CardInv, FlowInv, ExternalStep PROVE \A b \in Actors : Moved(b)
<1>0. RuntimeInv /\ External \in Actors /\ External \in Groups
  BY CardCast DEF CardInv, SagaInv
<1>1. CASE ExternalReceive
  BY <1>0, <1>1, GotoMoves DEF ExternalReceive, Receive
<1>2. CASE ExternalIgnore
  BY <1>2 DEF ExternalIgnore, Ignore, Moved
<1>3. CASE ProcessPayment
  <2>1. PICK r : r = InHand(External)
    OBVIOUS
  <2>2. r \in Event /\ r.payment \in Payments
    BY <1>3, <2>1, RequestInHand DEF ProcessPayment, At
  <2>3. PICK a \in GatewayAnswers : Build(External, Consequence(a, r))
    BY <1>3, <2>1 DEF ProcessPayment
  <2>4. Owns(External, Consequence(a, r))
    BY <2>2, CardCast, ConsequenceIsEvent, ConsequenceIsKnown DEF Owns
  <2> QED BY <1>0, <2>3, <2>4, GotoMoves DEF Build
<1>4. CASE ExternalSave
  BY <1>0, <1>4, GotoMoves DEF ExternalSave, Save
<1>5. CASE ExternalStoreFails \/ PublishSent \/ PublishOther \/ ExternalPublishFails
  <2>1. PICK e : e = op[External].event
    OBVIOUS
  <2>2. Writing(External)
    BY <1>5 DEF ExternalStoreFails, PublishSent, PublishOther, ExternalPublishFails, Writing
  <2>3. /\ After(e).at \in {"save", "handle", "commit"}
        /\ After(e).at = "save" => Owns(External, After(e).event)
        /\ e.payment \in Payments
    BY <2>1, <2>2, LoopOwns
  <2>4. CASE op' = [op EXCEPT ![External] = After(e)]
    <3>1. op'[External] = After(e) /\ \A b \in Actors \ {External} : op'[b] = op[b]
      BY <1>0, <2>4 DEF RuntimeInv, RuntimeTypeOK
    <3> QED BY <2>3, <3>1 DEF Moved
  <2>5. CASE PublishSent
    <3>1. PICK w : w = [at |-> "save", event |-> NewPaymentGatewayResponse(e.payment, e.user, TRUE)]
      OBVIOUS
    <3>2. PICK h \in Webhooks : op' = [op EXCEPT ![External] = After(e), ![h] = w]
      BY <2>1, <2>5, <3>1 DEF PublishSent
    <3>3. h # External
      BY CardCast
    <3>4. /\ op'[External] = After(e) /\ op'[h] = w
          /\ \A b \in Actors \ {External, h} : op'[b] = op[b]
      BY <1>0, <3>2, <3>3, CardCast DEF RuntimeInv, RuntimeTypeOK
    <3>5. w.at = "save" /\ Owns(h, w.event)
      BY <2>3, <3>1, CardCast DEF Owns, NewPaymentGatewayResponse, NewVerdictEvent
    <3> QED BY <2>3, <3>4, <3>5 DEF Moved
  <2> QED BY <1>5, <2>1, <2>4, <2>5 DEF ExternalStoreFails, PublishOther, ExternalPublishFails
<1>6. CASE ExternalCommit
  BY <1>0, <1>6, GotoMoves DEF ExternalCommit, CommitMessage
<1>7. ASSUME NEW h \in Webhooks, WebhookSave(h) \/ WebhookStoreFails(h) \/ WebhookPublish(h)
      PROVE  \A b \in Actors : Moved(b)
  <2>1. h \in Actors /\ Ended(h) \notin {"save", "publish"}
    BY CardCast DEF Ended
  <2> QED
    BY <1>0, <1>7, <2>1, GotoMoves
    DEF WebhookSave, WebhookStoreFails, WebhookPublish, Save, StoreFails, Publish
<1>8. CASE ExternalCrash
  BY <1>0, <1>8, CrashEnds DEF ExternalCrash, Moved
<1> QED BY <1>1, <1>2, <1>3, <1>4, <1>5, <1>6, <1>7, <1>8 DEF ExternalStep

LEMMA CardStepMoves ==
  ASSUME CardInv, FlowInv, [CardNext]_cardVars PROVE \A b \in Actors : Moved(b)
<1>0. RuntimeInv /\ Orchestrator \in Groups /\ Orchestrator \in Actors
  BY CardCast DEF CardInv, SagaInv
<1>1. CASE CreateCardPayment
  <2>1. PICK p \in Payments, u \in Users, a \in Amounts : CreateExternalPayment(p, u, a)
    BY <1>1 DEF CreateCardPayment
  <2>2. PICK e : e = NewExternalPaymentRequested(p, u, a)
    OBVIOUS
  <2>3. Goto(p, "save", e) /\ p \in Actors
    BY <2>1, <2>2, CardCast DEF CreateExternalPayment, Build
  <2>4. Owns(p, e)
    BY <2>2, CardCast DEF Owns, NewExternalPaymentRequested, NewBaseEvent, NewBalanceEvent
  <2> QED BY <1>0, <2>3, <2>4, GotoMoves
<1>2. CASE SagaReceive
  BY <1>0, <1>2, GotoMoves DEF SagaReceive, Receive
<1>3. CASE SagaIgnore \/ UNCHANGED cardVars
  BY <1>3 DEF SagaIgnore, Ignore, Moved, cardVars, runtimeVars
<1>4. CASE HandleAnswer
  BY <1>0, <1>4, AnswersRefused, GotoMoves DEF Refuse
<1>5. ASSUME NEW a \in SagaActors, Save(a) \/ StoreFails(a) \/ Publish(a)
      PROVE  \A b \in Actors : Moved(b)
  <2>1. a \in Actors /\ Ended(a) \notin {"save", "publish"}
    BY CardCast DEF Ended
  <2> QED BY <1>0, <1>5, <2>1, GotoMoves DEF Save, StoreFails, Publish
<1>6. CASE CommitMessage(Orchestrator)
  BY <1>0, <1>6, GotoMoves DEF CommitMessage
<1>7. CASE Crash(Orchestrator)
  BY <1>0, <1>7, CrashEnds DEF Moved
<1>8. CASE ExternalStep
  BY <1>8, ExternalStepMoves
<1> QED BY <1>1, <1>2, <1>3, <1>4, <1>5, <1>6, <1>7, <1>8 DEF CardNext, SagaStep

LEMMA CardStepWrites ==
  ASSUME CardInv, FlowInv, [CardNext]_cardVars
  PROVE  \/ UNCHANGED <<store, topic>>
         \/ \E a \in Actors : Save(a) /\ UNCHANGED topic
         \/ \E a \in Actors :
              /\ At(a, "publish") /\ Send(op[a].event) /\ UNCHANGED store
              /\ a \notin Groups => At(a, "done")'
<1> USE CardCast
<1>0. RuntimeInv
  BY DEF CardInv, SagaInv
<1>1. CASE CreateCardPayment \/ UNCHANGED cardVars
  BY <1>1 DEF CreateCardPayment, CreateExternalPayment, Build, cardVars, runtimeVars, busVars
<1>2. CASE SagaReceive \/ SagaIgnore \/ CommitMessage(Orchestrator) \/ Crash(Orchestrator)
  BY <1>2 DEF SagaReceive, SagaIgnore, Receive, Fetch, Ignore, Pass, CommitMessage, Commit, Crash, Rejoin
<1>3. CASE HandleAnswer
  BY <1>3, AnswersRefused DEF Refuse, busVars
<1>4. ASSUME NEW a \in Actors, Save(a) \/ StoreFails(a) \/ Publish(a)
      PROVE  \/ UNCHANGED <<store, topic>>
             \/ Save(a) /\ UNCHANGED topic
             \/ /\ At(a, "publish") /\ Send(op[a].event) /\ UNCHANGED store
                /\ a \notin Groups => At(a, "done")'
  BY <1>0, <1>4 DEF Save, StoreFails, Publish, Goto, Ended, At, RuntimeInv, RuntimeTypeOK, busVars
<1>5. CASE ExternalReceive \/ ExternalIgnore \/ ProcessPayment \/ ExternalCommit \/ ExternalCrash
  BY <1>5
  DEF ExternalReceive, ExternalIgnore, ProcessPayment, Build, ExternalCommit, ExternalCrash,
      Receive, Fetch, Ignore, Pass, CommitMessage, Commit, Crash, Rejoin, busVars
<1>6. CASE ExternalStoreFails
  BY <1>6 DEF ExternalStoreFails, busVars
<1>7. CASE PublishSent \/ PublishOther \/ ExternalPublishFails
  BY <1>7 DEF PublishSent, PublishOther, ExternalPublishFails, SendFails
<1>8. CASE ExternalSave \/ \E h \in Webhooks : WebhookSave(h) \/ WebhookStoreFails(h) \/ WebhookPublish(h)
  BY <1>4, <1>8 DEF ExternalSave, WebhookSave, WebhookStoreFails, WebhookPublish
<1> QED BY <1>1, <1>2, <1>3, <1>4, <1>5, <1>6, <1>7, <1>8 DEF CardNext, SagaStep, ExternalStep

(* What is recorded stays recorded, and a save records its event.          *)
LEMMA RecordedStays ==
  ASSUME RuntimeInv, UNCHANGED store \/ \E a \in Actors : Save(a)
  PROVE  \A p \in Payments : \A t : Recorded(p, t) => Recorded(p, t)'
<1>1. CASE UNCHANGED store
  BY <1>1 DEF Recorded
<1>2. ASSUME NEW a \in Actors, Save(a) PROVE \A p \in Payments : \A t : Recorded(p, t) => Recorded(p, t)'
  BY <1>2, LogsGrow, CardCast DEF Recorded
<1> QED BY <1>1, <1>2

LEMMA SaveRecords ==
  ASSUME RuntimeInv, NEW a \in Actors, Save(a), NEW e, e = op[a].event,
         e.type \in CardTypes, e.payment \in Payments
  PROVE  /\ Aggregate(e) = e.payment
         /\ \A p \in Payments : \A t :
              Recorded(p, t)' <=> Recorded(p, t) \/ (p = e.payment /\ t = e.type)
<1>1. Aggregate(e) = e.payment /\ e.payment \in Aggregates
  BY CardCast DEF Aggregate, CardTypes, WalletTypes, LoopTypes, OutcomeTypes
<1>2. ASSUME NEW p \in Payments
      PROVE  \A t : Recorded(p, t)' <=> Recorded(p, t) \/ (p = e.payment /\ t = e.type)
  <2>1. store[p] \in Seq(Event) /\ e \in Event
        /\ store'[p] = IF p = e.payment THEN Append(store[p], e) ELSE store[p]
    BY <1>1, SaveAppends, CardCast DEF RuntimeInv, RuntimeTypeOK
  <2>2. CASE p = e.payment
    <3>1. PICK n \in Nat : n = Len(store[p])
      BY <2>1, LenProperties
    <3>2. /\ Len(store'[p]) = n + 1 /\ store'[p] \in Seq(Event)
          /\ \A i \in 1..n : store'[p][i] = store[p][i]
          /\ store'[p][n + 1] = e
      BY <2>1, <2>2, <3>1, AppendProperties
    <3>4. DOMAIN store[p] = 1..n /\ DOMAIN store'[p] = 1..(n + 1)
      BY <2>1, <3>1, <3>2, LenProperties
    <3>3. \A i : i \in 1..(n + 1) <=> i \in 1..n \/ i = n + 1
      OBVIOUS
    <3> QED BY <2>2, <3>2, <3>3, <3>4 DEF Recorded
  <2>3. CASE p # e.payment
    BY <2>1, <2>3 DEF Recorded
  <2> QED BY <2>2, <2>3
<1> QED BY <1>1, <1>2

LEMMA FlowNext == CardInv /\ FlowInv /\ [CardNext]_cardVars => FlowInv'
<1> SUFFICES ASSUME CardInv, FlowInv, [CardNext]_cardVars PROVE FlowInv'
  OBVIOUS
<1>0. RuntimeInv
  BY DEF CardInv, SagaInv
<1>1. \A a \in Actors : Moved(a)
  BY CardStepMoves
<1>2. WritesOwn'
  <2> SUFFICES ASSUME NEW a \in Actors, Writing(a)' PROVE Owns(a, op'[a].event)
    BY DEF WritesOwn, Owns
  <2>1. Moved(a) /\ op'[a].at \in {"save", "publish"}
    BY <1>1 DEF Writing, At
  <2>2. CASE op'[a] = op[a]
    BY <2>1, <2>2 DEF FlowInv, WritesOwn, Writing, At
  <2>3. CASE Save(a) /\ op'[a] = [at |-> "publish", event |-> op[a].event]
    BY <2>3 DEF FlowInv, WritesOwn, Writing, Save
  <2> QED BY <2>1, <2>2, <2>3 DEF Moved
<1>3. \A p \in Payments : \A t : Recorded(p, t) => Recorded(p, t)'
  BY <1>0, CardStepWrites, RecordedStays
<1>4. ASSUME NEW a \in Actors, At(a, "publish")'
      PROVE  Recorded(op[a].event.payment, op[a].event.type)'
  <2>1. CASE op'[a] = op[a]
    <3>1. PICK e : e = op[a].event
      OBVIOUS
    <3>2. e.payment \in Payments /\ Recorded(e.payment, e.type)
      BY <1>4, <2>1, <3>1 DEF FlowInv, WritesOwn, SavedFirst, Owns, Writing, At
    <3>3. Recorded(e.payment, e.type)'
      BY <1>3, <3>2
    <3> QED BY <2>1, <3>1, <3>3
  <2>2. CASE Save(a) /\ op'[a] = [at |-> "publish", event |-> op[a].event]
    <3>1. PICK e : e = op[a].event
      OBVIOUS
    <3>2. e.payment \in Payments /\ e.type \in CardTypes
      BY <2>2, <3>1, CardCast DEF Save, FlowInv, WritesOwn, Owns, Writing
    <3>3. Recorded(e.payment, e.type)'
      BY <1>0, <2>2, <3>1, <3>2, SaveRecords
    <3> QED BY <2>2, <3>1, <3>3
  <2> QED BY <1>1, <1>4, <2>1, <2>2 DEF Moved, At
<1>5. ASSUME NEW q \in Partitions, NEW i \in 1..Len(topic'[q])
      PROVE  /\ topic'[q][i].type \in CardTypes /\ topic'[q][i].payment \in Payments
             /\ Recorded(topic[q][i].payment, topic[q][i].type)'
  <2>1. PICK m : m = topic'[q][i]
    OBVIOUS
  <2> SUFFICES m.type \in CardTypes /\ m.payment \in Payments /\ Recorded(m.payment, m.type)
    BY <1>3, <2>1
  <2>2. CASE i \in 1..Len(topic[q]) /\ m = topic[q][i]
    BY <2>2 DEF FlowInv, SavedFirst
  <2>3. CASE UNCHANGED topic
    BY <2>1, <2>2, <2>3
  <2>4. ASSUME NEW a \in Actors, At(a, "publish"), Send(op[a].event)
        PROVE  m.type \in CardTypes /\ m.payment \in Payments /\ Recorded(m.payment, m.type)
    <3>1. PICK e : e = op[a].event
      OBVIOUS
    <3>2. /\ e \in Event /\ e.type \in CardTypes /\ e.payment \in Payments
          /\ Recorded(e.payment, e.type)
      BY <1>0, <2>4, <3>1, CardCast
      DEF RuntimeInv, BuiltOK, FlowInv, WritesOwn, SavedFirst, Owns, Writing
    <3>3. CASE i \in 1..Len(topic[q])
      BY <1>0, <2>1, <2>2, <2>4, <3>1, <3>2, <3>3, SendAppends
    <3>4. CASE i \notin 1..Len(topic[q])
      <4>1. Len(topic[q]) \in Nat /\ Len(topic'[q]) \in Nat
        BY <1>0, <2>4, <3>1, <3>2, SendAppends, LenProperties DEF RuntimeInv, RuntimeTypeOK
      <4>2. i > Len(topic[q])
        BY <3>4, <4>1
      <4>3. m = e
        BY <1>0, <2>1, <2>4, <3>1, <3>2, <4>2, SendAppends
      <4> QED BY <3>2, <4>3
    <3> QED BY <3>3, <3>4
  <2> QED BY <2>3, <2>4, CardStepWrites
<1> QED BY <1>2, <1>4, <1>5 DEF FlowInv, SavedFirst

LEMMA FlowInit == CardInit => FlowInv
<1> SUFFICES ASSUME CardInit PROVE FlowInv
  OBVIOUS
<1>1. \A a \in Actors : At(a, "idle")
  BY DEF CardInit, RuntimeInit, At
<1>2. \A q \in Partitions : Len(topic[q]) = 0
  BY EmptySeq DEF CardInit, RuntimeInit, BusInit
<1> QED BY <1>1, <1>2 DEF FlowInv, WritesOwn, SavedFirst, Writing, At

LEMMA FlowHolds == CardSpec => []FlowInv
<1> QED BY FlowInit, FlowNext, CardSpecInv, PTL DEF CardSpec

(* No card payment is ever recorded as completed, whatever the gateway     *)
(* answers: the handler of PaymentGatewayResponse in orchestrator.go tries *)
(* the move to AWAITING_RESPONSE on a saga rebuilt from a log in which the *)
(* response has made that move already, and refuses it every time.         *)
NeverCompleted == \A p \in Payments : ~Recorded(p, "ExternalPaymentCompleted")

LEMMA CompletionsUnwritten ==
  ASSUME CardInv, FlowInv, NeverCompleted, [CardNext]_cardVars PROVE NeverCompleted'
<1>0. RuntimeInv
  BY DEF CardInv, SagaInv
<1>1. CASE UNCHANGED store
  BY <1>1 DEF NeverCompleted, Recorded
<1>2. ASSUME NEW a \in Actors, Save(a) PROVE NeverCompleted'
  <2>1. PICK e : e = op[a].event
    OBVIOUS
  <2>2. e.type \in CardTypes /\ e.payment \in Payments
    BY <1>2, <2>1, CardCast DEF Save, FlowInv, WritesOwn, Owns, Writing
  <2>3. e.type # "ExternalPaymentCompleted"
    BY <2>2 DEF CardTypes, LoopTypes, OutcomeTypes
  <2>4. \A p \in Payments : \A t : Recorded(p, t)' <=> Recorded(p, t) \/ (p = e.payment /\ t = e.type)
    BY <1>0, <1>2, <2>1, <2>2, SaveRecords
  <2> QED BY <2>3, <2>4 DEF NeverCompleted
<1> QED BY <1>1, <1>2, CardStepWrites

THEOREM CardPaymentsNeverComplete == CardSpec => []NeverCompleted
<1>1. CardInit => NeverCompleted
  <2> SUFFICES ASSUME CardInit, NEW p \in Payments PROVE DOMAIN store[p] = {}
    BY DEF NeverCompleted, Recorded
  <2> QED BY CardCast, EmptySeq DEF CardInit, RuntimeInit, StoreInit
<1>2. CardInv /\ FlowInv /\ NeverCompleted /\ [CardNext]_cardVars => NeverCompleted'
  BY CompletionsUnwritten
<1> QED BY <1>1, <1>2, CardSpecInv, FlowHolds, PTL DEF CardSpec

(* Publish computes one partition for all events of a card payment that    *)
(* are on the topic or about to be put there, and refuses none of them.    *)
THEOREM OnePartitionPerPayment == CardSpec => []PaymentEventsTogether
<1>1. CardInv /\ FlowInv => PaymentEventsTogether
  <2> SUFFICES ASSUME CardInv, FlowInv, NEW e \in Outgoing, NEW f \in Outgoing,
                      e.payment = f.payment
               PROVE  GetPartition(e) = GetPartition(f) /\ GetPartition(e) # Refused
    BY DEF PaymentEventsTogether
  <2>1. ASSUME NEW x \in Outgoing
        PROVE  x.type \in CardTypes /\ x.payment \in Payments
    <3>1. CASE x \in Published
      <4>1. PICK q \in Partitions : \E i \in DOMAIN topic[q] : topic[q][i] = x
        BY <3>1 DEF Published
      <4>2. PICK i \in DOMAIN topic[q] : topic[q][i] = x
        BY <4>1
      <4>3. i \in 1..Len(topic[q])
        BY LenProperties DEF CardInv, SagaInv, RuntimeInv, RuntimeTypeOK
      <4> QED BY <4>2, <4>3 DEF FlowInv, SavedFirst
    <3>2. CASE x \notin Published
      <4>1. PICK a \in Actors : At(a, "publish") /\ x = op[a].event
        BY <2>1, <3>2 DEF Outgoing
      <4> QED BY <4>1, CardCast DEF FlowInv, WritesOwn, Owns, Writing
    <3> QED BY <3>1, <3>2
  <2>2. ASSUME NEW x \in Outgoing PROVE GetPartition(x) = Slot(x.payment) + 1
    <3>1. x.type \in CardTypes /\ x.payment # NoPayment
      BY <2>1, EventsAssumption
    <3>2. x.type \in ExternalEvents /\ x.type \notin WalletEvents
      BY <3>1 DEF CardTypes, LoopTypes, OutcomeTypes, ExternalEvents, WalletEvents
    <3> QED BY <3>1, <3>2 DEF GetPartition
  <2>3. Slot(e.payment) + 1 # Refused
    <3>1. HashKey[e.payment] \in Nat
      BY <2>1, PartitionAssumption DEF Keys
    <3>2. PICK n \in Nat \ {0} : n = NumPartitions \div 2
      BY PartitionAssumption
    <3>3. Slot(e.payment) \in Nat
      BY <3>1, <3>2 DEF Slot
    <3> QED BY <3>3 DEF Refused
  <2> QED BY <2>2, <2>3
<1> QED BY <1>1, CardSpecInv, FlowHolds, PTL

----
(* The log of a payment and the gateway: an acceptance is written once, by *)
(* the consumer that received it, and each one written starts at most one  *)
(* webhook, whose response is written once.                                *)
Waiting(p) == {h \in Webhooks : At(h, "save") /\ op[h].event.payment = p}

Sending(p, step) ==
  IF /\ At(External, step)
     /\ op[External].event.type = "PaymentSentToGateway"
     /\ op[External].event.payment = p
  THEN 1 ELSE 0

Sent(log) == CountIn(log, "PaymentSentToGateway")
Responded(log) == CountIn(log, "PaymentGatewayResponse")

RespondedAfterSent(log) ==
  \A n \in DOMAIN log : Responded(SubSeq(log, 1, n)) <= Sent(SubSeq(log, 1, n))

LogBacked(p) ==
  /\ IsFiniteSet(Waiting(p))
  /\ Sent(store[p]) + Sending(p, "save") <= charged[p]
  /\ Responded(store[p]) + Cardinality(Waiting(p)) + Sending(p, "publish") <= Sent(store[p])
  /\ RespondedAfterSent(store[p])

LogsBacked == \A p \in Payments : LogBacked(p)

(* An event counts once, as what it is.                                    *)
LEMMA CountIsNat ==
  ASSUME NEW log \in Seq(Event), NEW t PROVE CountIn(log, t) \in Nat
<1>1. Len(log) \in Nat /\ DOMAIN log = 1..Len(log)
  BY LenProperties
<1>2. IsFiniteSet(1..Len(log))
  BY <1>1, FS_Interval
<1>3. IsFiniteSet({i \in DOMAIN log : log[i].type = t})
  BY <1>1, <1>2, FS_Subset
<1> QED BY <1>3, FS_CardinalityType DEF CountIn

LEMMA CountAppended ==
  ASSUME NEW log \in Seq(Event), NEW e \in Event, NEW t
  PROVE  CountIn(Append(log, e), t) = CountIn(log, t) + (IF e.type = t THEN 1 ELSE 0)
<1>1. PICK n \in Nat : n = Len(log)
  BY LenProperties
<1>2. PICK longer : longer = Append(log, e)
  OBVIOUS
<1>3. /\ DOMAIN log = 1..n /\ DOMAIN longer = 1..(n + 1)
      /\ \A i \in 1..n : longer[i] = log[i]
      /\ longer[n + 1] = e
  <2>1. /\ Len(longer) = n + 1 /\ longer \in Seq(Event)
        /\ \A i \in 1..n : longer[i] = log[i]
        /\ longer[n + 1] = e
    BY <1>1, <1>2, AppendProperties
  <2> QED BY <1>1, <2>1, LenProperties
<1>4. PICK S : S = {i \in DOMAIN log : log[i].type = t}
  OBVIOUS
<1>5. PICK T : T = {i \in DOMAIN longer : longer[i].type = t}
  OBVIOUS
<1>6. T = IF e.type = t THEN S \cup {n + 1} ELSE S
  <2>1. \A i : i \in 1..(n + 1) <=> i \in 1..n \/ i = n + 1
    OBVIOUS
  <2> QED BY <1>3, <1>4, <1>5, <2>1
<1>7. n + 1 \notin S /\ IsFiniteSet(S)
  <2>1. IsFiniteSet(1..n) /\ S \in SUBSET (1..n) /\ n + 1 \notin 1..n
    BY <1>3, <1>4, FS_Interval
  <2> QED BY <2>1, FS_Subset
<1>8. Cardinality(S) \in Nat /\ Cardinality(S \cup {n + 1}) = Cardinality(S) + 1
  BY <1>7, FS_AddElement, FS_CardinalityType
<1>9. CountIn(log, t) = Cardinality(S) /\ CountIn(longer, t) = Cardinality(T)
  BY <1>4, <1>5 DEF CountIn
<1> QED BY <1>2, <1>6, <1>8, <1>9

(* A log without a response out of turn stays one when one event that is   *)
(* no response out of turn is appended.                                    *)
LEMMA AppendInTurn ==
  ASSUME NEW log \in Seq(Event), NEW e \in Event, RespondedAfterSent(log),
         Responded(Append(log, e)) <= Sent(Append(log, e))
  PROVE  RespondedAfterSent(Append(log, e))
<1>1. PICK n \in Nat : n = Len(log)
  BY LenProperties
<1>2. PICK longer : longer = Append(log, e)
  OBVIOUS
<1>3. /\ DOMAIN log = 1..n /\ DOMAIN longer = 1..(n + 1) /\ longer \in Seq(Event)
      /\ \A i \in 1..n : longer[i] = log[i]
      /\ Len(longer) = n + 1
  <2>1. /\ Len(longer) = n + 1 /\ longer \in Seq(Event)
        /\ \A i \in 1..n : longer[i] = log[i]
    BY <1>1, <1>2, AppendProperties
  <2> QED BY <1>1, <2>1, LenProperties
<1>4. ASSUME NEW k \in 1..n PROVE SubSeq(longer, 1, k) = SubSeq(log, 1, k)
  <2>1. \A i \in 1..k : longer[i] = log[i] /\ log[i] \in Event
    BY <1>1, <1>3, ElementOfSeq
  <2>2. /\ SubSeq(log, 1, k) \in Seq(Event) /\ Len(SubSeq(log, 1, k)) = k
        /\ \A i \in 1..k : SubSeq(log, 1, k)[i] = log[i]
    BY <2>1, SubSeqProperties
  <2>3. /\ SubSeq(longer, 1, k) \in Seq(Event) /\ Len(SubSeq(longer, 1, k)) = k
        /\ \A i \in 1..k : SubSeq(longer, 1, k)[i] = longer[i]
    BY <2>1, SubSeqProperties
  <2> QED BY <2>1, <2>2, <2>3, SeqEqual
<1>5. SubSeq(longer, 1, n + 1) = longer
  <2>1. \A i \in 1..(n + 1) : longer[i] \in Event
    BY <1>3, ElementOfSeq
  <2>2. /\ SubSeq(longer, 1, n + 1) \in Seq(Event) /\ Len(SubSeq(longer, 1, n + 1)) = n + 1
        /\ \A i \in 1..(n + 1) : SubSeq(longer, 1, n + 1)[i] = longer[i]
    BY <2>1, SubSeqProperties
  <2> QED BY <1>3, <2>2, SeqEqual
<1> SUFFICES ASSUME NEW k \in 1..(n + 1)
             PROVE  Responded(SubSeq(longer, 1, k)) <= Sent(SubSeq(longer, 1, k))
  BY <1>2, <1>3 DEF RespondedAfterSent
<1>6. CASE k \in 1..n
  BY <1>3, <1>4, <1>6 DEF RespondedAfterSent
<1>7. CASE k = n + 1
  BY <1>2, <1>5, <1>7
<1> QED BY <1>6, <1>7

LEMMA BackedNumbers ==
  ASSUME CardInv, NEW p \in Payments, LogBacked(p)
  PROVE  /\ store[p] \in Seq(Event) /\ charged[p] \in Nat
         /\ Sent(store[p]) \in Nat /\ Responded(store[p]) \in Nat
         /\ Cardinality(Waiting(p)) \in Nat
         /\ \A step : Sending(p, step) \in {0, 1}
<1>1. store[p] \in Seq(Event) /\ charged[p] \in Nat
  BY CardCast DEF CardInv, SagaInv, RuntimeInv, RuntimeTypeOK, GatewayOK
<1>2. Sent(store[p]) \in Nat /\ Responded(store[p]) \in Nat
  BY <1>1, CountIsNat DEF Sent, Responded
<1>3. Cardinality(Waiting(p)) \in Nat
  BY FS_CardinalityType DEF LogBacked
<1> QED BY <1>1, <1>2, <1>3 DEF Sending

(* A step that writes to no log of p, and has the consumer hold an         *)
(* acceptance of p only if the gateway has just given it one.              *)
LEMMA QuietBacked ==
  ASSUME CardInv, NEW p \in Payments, LogBacked(p), store'[p] = store[p],
         charged'[p] \in Nat, Sending(p, "save")' \in {0, 1}, Sending(p, "publish")' \in {0, 1},
         Sending(p, "save")' + charged[p] <= Sending(p, "save") + charged'[p],
         Sending(p, "publish")' <= Sending(p, "publish"),
         Waiting(p)' \subseteq Waiting(p)
  PROVE  LogBacked(p)'
<1>1. IsFiniteSet(Waiting(p)')
  BY FS_Subset DEF LogBacked
<1>2. /\ Cardinality(Waiting(p)') \in Nat
      /\ Cardinality(Waiting(p)') <= Cardinality(Waiting(p))
  BY FS_Subset, <1>1, FS_CardinalityType DEF LogBacked
<1>3. Sent(store[p])' = Sent(store[p]) /\ Responded(store[p])' = Responded(store[p])
  BY DEF Sent, Responded, CountIn
<1>4. RespondedAfterSent(store[p])'
  BY DEF LogBacked, RespondedAfterSent, Sent, Responded, CountIn
<1>5. Sent(store[p])' + Sending(p, "save")' <= charged'[p]
  BY <1>3, BackedNumbers DEF LogBacked
<1>6. Responded(store[p])' + Cardinality(Waiting(p)') + Sending(p, "publish")' <= Sent(store[p])'
  BY <1>2, <1>3, BackedNumbers DEF LogBacked
<1>7. Cardinality(Waiting(p)') = Cardinality(Waiting(p))'
  OBVIOUS
<1> QED BY <1>1, <1>4, <1>5, <1>6, <1>7 DEF LogBacked

(* What a save adds to the counts.                                         *)
LEMMA SaveCounts ==
  ASSUME CardInv, FlowInv, NEW a \in Actors, Save(a), NEW e, e = op[a].event,
         NEW p \in Payments, LogBacked(p)
  PROVE  /\ e.type \in WrittenBy(a) /\ e.payment \in Payments
         /\ Sent(store[p])' =
              Sent(store[p]) + (IF e.payment = p /\ e.type = "PaymentSentToGateway" THEN 1 ELSE 0)
         /\ Responded(store[p])' =
              Responded(store[p]) + (IF e.payment = p /\ e.type = "PaymentGatewayResponse" THEN 1 ELSE 0)
         /\ Responded(store[p])' <= Sent(store[p])' => RespondedAfterSent(store[p])'
<1>0. RuntimeInv
  BY DEF CardInv, SagaInv
<1>1. e \in Event /\ Owns(a, e)
  BY <1>0, SaveAppends DEF FlowInv, WritesOwn, Writing, Save
<1>2. Aggregate(e) = e.payment /\ e.type \in CardTypes
  BY <1>0, <1>1, CardCast, SaveRecords DEF Owns
<1>3. PICK log : log = store[p]
  OBVIOUS
<1>4. log \in Seq(Event) /\ RespondedAfterSent(log)
  BY <1>3, BackedNumbers DEF LogBacked
<1>5. store'[p] = IF p = e.payment THEN Append(log, e) ELSE log
  BY <1>0, <1>2, <1>3, SaveAppends, CardCast
<1>6. CASE p = e.payment
  <2>1. /\ Sent(Append(log, e)) = Sent(log) + (IF e.type = "PaymentSentToGateway" THEN 1 ELSE 0)
        /\ Responded(Append(log, e)) =
             Responded(log) + (IF e.type = "PaymentGatewayResponse" THEN 1 ELSE 0)
    BY <1>1, <1>4, CountAppended DEF Sent, Responded
  <2>2. Responded(Append(log, e)) <= Sent(Append(log, e)) => RespondedAfterSent(Append(log, e))
    BY <1>1, <1>4, AppendInTurn
  <2>3. store'[p] = Append(log, e)
    BY <1>5, <1>6
  <2>4. Sent(store[p])' = Sent(Append(log, e)) /\ Responded(store[p])' = Responded(Append(log, e))
    BY <2>3 DEF Sent, Responded, CountIn
  <2>5. RespondedAfterSent(store[p])' <=> RespondedAfterSent(Append(log, e))
    BY <2>3 DEF RespondedAfterSent, Sent, Responded, CountIn
  <2> QED BY <1>1, <1>3, <1>6, <2>1, <2>2, <2>4, <2>5 DEF Owns
<1>7. CASE p # e.payment
  <2>1. store'[p] = store[p] /\ Sent(log) \in Nat /\ Responded(log) \in Nat
    BY <1>3, <1>4, <1>5, <1>7, CountIsNat DEF Sent, Responded
  <2>2. Sent(store[p])' = Sent(store[p]) /\ Responded(store[p])' = Responded(store[p])
    BY <2>1 DEF Sent, Responded, CountIn
  <2>3. RespondedAfterSent(store[p])'
    BY <1>3, <1>4, <2>1 DEF RespondedAfterSent, Sent, Responded, CountIn
  <2> QED BY <1>1, <1>3, <1>7, <2>1, <2>2, <2>3 DEF Owns
<1> QED BY <1>6, <1>7

(* The saves of the calls, of the webhooks and of the consumer.            *)
LEMMA SaveBacked ==
  ASSUME CardInv, FlowInv, LogsBacked, NEW a \in Actors, Save(a), UNCHANGED charged,
         NEW p \in Payments
  PROVE  LogBacked(p)'
<1>0. RuntimeInv /\ LogBacked(p)
  BY DEF CardInv, SagaInv, LogsBacked
<1>1. PICK e : e = op[a].event
  OBVIOUS
<1>2. /\ e.type \in WrittenBy(a) /\ e.payment \in Payments
      /\ Sent(store[p])' =
           Sent(store[p]) + (IF e.payment = p /\ e.type = "PaymentSentToGateway" THEN 1 ELSE 0)
      /\ Responded(store[p])' =
           Responded(store[p]) + (IF e.payment = p /\ e.type = "PaymentGatewayResponse" THEN 1 ELSE 0)
      /\ Responded(store[p])' <= Sent(store[p])' => RespondedAfterSent(store[p])'
  BY <1>0, <1>1, SaveCounts
<1>3. /\ op[a].at = "save"
      /\ op'[a] = [at |-> "publish", event |-> e]
      /\ \A b \in Actors \ {a} : op'[b] = op[b]
  BY <1>0, <1>1 DEF Save, Goto, At, RuntimeInv, RuntimeTypeOK
<1>4. Waiting(p)' = IF a \in Webhooks /\ e.payment = p THEN Waiting(p) \ {a} ELSE Waiting(p)
  BY <1>1, <1>3, CardCast DEF Waiting, At
<1>5. a \in Webhooks /\ e.payment = p => a \in Waiting(p)
  BY <1>1, <1>3 DEF Waiting, At
<1>6. /\ IsFiniteSet(Waiting(p)')
      /\ Cardinality(Waiting(p)') =
           Cardinality(Waiting(p)) - (IF a \in Webhooks /\ e.payment = p THEN 1 ELSE 0)
  <2>1. IsFiniteSet(Waiting(p)) /\ Cardinality(Waiting(p)) \in Nat
    BY <1>0, BackedNumbers DEF LogBacked
  <2>2. /\ IsFiniteSet(Waiting(p) \ {a})
        /\ a \in Waiting(p) => Cardinality(Waiting(p) \ {a}) = Cardinality(Waiting(p)) - 1
    BY <2>1, FS_RemoveElement
  <2> QED BY <1>4, <1>5, <2>1, <2>2
<1>7. CASE a = External
  <2>1. e.type \in LoopTypes \cup OutcomeTypes /\ e.type # "PaymentGatewayResponse" /\ a \notin Webhooks
    BY <1>2, <1>7, CardCast DEF LoopTypes, OutcomeTypes
  <2>2. /\ Sending(p, "save") = IF e.payment = p /\ e.type = "PaymentSentToGateway" THEN 1 ELSE 0
        /\ Sending(p, "publish") = 0
        /\ Sending(p, "save")' = 0
        /\ Sending(p, "publish")' = IF e.payment = p /\ e.type = "PaymentSentToGateway" THEN 1 ELSE 0
    BY <1>1, <1>3, <1>7 DEF Sending, At
  <2>3. Sent(store[p])' + Sending(p, "save")' <= charged'[p]
    BY <1>0, <1>2, <2>2, BackedNumbers DEF LogBacked
  <2>4. Responded(store[p])' + Cardinality(Waiting(p)') + Sending(p, "publish")' <= Sent(store[p])'
    BY <1>0, <1>2, <1>6, <2>1, <2>2, BackedNumbers DEF LogBacked
  <2>5. Responded(store[p])' <= Sent(store[p])'
    <3>1. Responded(store[p]) <= Sent(store[p])
      BY <1>0, <2>2, BackedNumbers DEF LogBacked
    <3> QED BY <1>0, <1>2, <2>1, <3>1, BackedNumbers
  <2> QED BY <1>2, <1>6, <2>3, <2>4, <2>5 DEF LogBacked
<1>8. CASE a # External
  <2>1. e.type # "PaymentSentToGateway" /\ (e.type = "PaymentGatewayResponse" <=> a \in Webhooks)
    BY <1>2, <1>8, CardCast DEF WrittenBy
  <2>2. Sending(p, "save")' = Sending(p, "save") /\ Sending(p, "publish")' = Sending(p, "publish")
    BY <1>3, <1>8, CardCast DEF Sending, At
  <2>3. Sent(store[p])' + Sending(p, "save")' <= charged'[p]
    BY <1>0, <1>2, <2>1, <2>2, BackedNumbers DEF LogBacked
  <2>4. Responded(store[p])' + Cardinality(Waiting(p)') + Sending(p, "publish")' <= Sent(store[p])'
    BY <1>0, <1>2, <1>6, <2>1, <2>2, BackedNumbers DEF LogBacked
  <2>5. Responded(store[p])' <= Sent(store[p])'
    <3>1. /\ Cardinality(Waiting(p)') \in Nat /\ Sending(p, "publish")' \in {0, 1}
          /\ Responded(store[p])' \in Nat /\ Sent(store[p])' \in Nat
      BY <1>0, <1>2, <1>6, <2>2, BackedNumbers, FS_CardinalityType
    <3> QED BY <2>4, <3>1
  <2> QED BY <1>2, <1>6, <2>3, <2>4, <2>5 DEF LogBacked
<1> QED BY <1>7, <1>8

LEMMA SendingBits == \A p, step : Sending(p, step) \in {0, 1} /\ Sending(p, step)' \in {0, 1}
BY DEF Sending

(* A step in which no log is written and no webhook starts, and the        *)
(* consumer stays where it is or goes on without an acceptance.            *)
LEMMA StillBacked ==
  ASSUME CardInv, LogsBacked, UNCHANGED <<store, charged>>,
         \A h \in Webhooks : op'[h] = op[h] \/ op'[h].at # "save",
         \/ op'[External] = op[External]
         \/ op'[External].at \notin {"save", "publish"}
         \/ op'[External].at = "save" /\ op'[External].event.type # "PaymentSentToGateway"
  PROVE  LogsBacked'
<1> SUFFICES ASSUME NEW p \in Payments PROVE LogBacked(p)'
  BY DEF LogsBacked
<1>1. LogBacked(p) /\ charged'[p] = charged[p] /\ charged[p] \in Nat /\ store'[p] = store[p]
  BY BackedNumbers DEF LogsBacked
<1>2. Waiting(p)' \subseteq Waiting(p)
  BY DEF Waiting, At
<1>3. Sending(p, "save")' <= Sending(p, "save") /\ Sending(p, "publish")' <= Sending(p, "publish")
  BY DEF Sending, At
<1>4. Sending(p, "save")' + charged[p] <= Sending(p, "save") + charged'[p]
  BY <1>1, <1>3, SendingBits
<1> QED BY <1>1, <1>2, <1>3, <1>4, SendingBits, QuietBacked

LEMMA SagaStepBacked ==
  ASSUME CardInv, FlowInv, LogsBacked, CreateCardPayment \/ SagaStep, UNCHANGED externalVars
  PROVE  LogsBacked'
<1>0. RuntimeInv /\ UNCHANGED charged /\ Orchestrator \in Actors
  BY CardCast DEF CardInv, SagaInv, externalVars
<1>1. ASSUME NEW a \in SagaActors, NEW step, NEW e, Goto(a, step, e)
      PROVE  op'[External] = op[External] /\ \A h \in Webhooks : op'[h] = op[h]
  BY <1>0, <1>1, CardCast DEF Goto, SagaActors, RuntimeInv, RuntimeTypeOK
<1>2. Orchestrator \in SagaActors /\ Payments \subseteq SagaActors
  BY DEF SagaActors
<1>3. CASE CreateCardPayment
  BY <1>0, <1>1, <1>2, <1>3, StillBacked DEF CreateCardPayment, CreateExternalPayment, Build
<1>4. CASE SagaReceive \/ CommitMessage(Orchestrator)
  BY <1>0, <1>1, <1>2, <1>4, StillBacked DEF SagaReceive, Receive, CommitMessage
<1>5. CASE SagaIgnore
  BY <1>0, <1>5, StillBacked DEF SagaIgnore, Ignore
<1>6. CASE HandleAnswer
  BY <1>0, <1>1, <1>2, <1>6, AnswersRefused, StillBacked DEF Refuse
<1>7. CASE Crash(Orchestrator)
  <2>1. op'[External] = op[External] /\ \A h \in Webhooks : op'[h] = op[h] \/ op'[h].at # "save"
    BY <1>0, <1>7, CrashEnds, CardCast
  <2> QED BY <1>0, <1>7, <2>1, StillBacked DEF Crash
<1>8. ASSUME NEW a \in SagaActors, StoreFails(a) \/ Publish(a) PROVE LogsBacked'
  BY <1>0, <1>1, <1>8, StillBacked DEF StoreFails, Publish
<1>9. ASSUME NEW a \in SagaActors, Save(a) PROVE LogsBacked'
  BY <1>0, <1>9, SaveBacked, CardCast DEF LogsBacked
<1> QED BY <1>3, <1>4, <1>5, <1>6, <1>7, <1>8, <1>9 DEF SagaStep

(* The loop never turns back to an acceptance.                             *)
LEMMA AfterIsNoAcceptance ==
  ASSUME NEW e
  PROVE  /\ After(e).at \in {"save", "handle", "commit"}
         /\ After(e).at = "save" => After(e).event.type # "PaymentSentToGateway"
<1>1. CASE e.type = "PaymentGatewayTimeout"
  <2>1. PICK n : n = IF attempt < MaxAttempts
                     THEN NewPaymentRetryRequested(e.payment, e.user)
                     ELSE NewExternalPaymentFailed(e.payment, e.user, InHand(External).amount)
    OBVIOUS
  <2>2. n.type # "PaymentSentToGateway"
    BY <2>1, ServiceFields
  <2>3. After(e) = [at |-> "save", event |-> n]
    BY <1>1, <2>1 DEF After
  <2> QED BY <2>2, <2>3
<1>2. CASE e.type # "PaymentGatewayTimeout"
  BY <1>2 DEF After
<1> QED BY <1>1, <1>2

(* The gateway accepts, and the consumer holds the event that says so.     *)
LEMMA ProcessBacked == ASSUME CardInv, LogsBacked, ProcessPayment PROVE LogsBacked'
<1> SUFFICES ASSUME NEW p \in Payments PROVE LogBacked(p)'
  BY DEF LogsBacked
<1>0. LogBacked(p) /\ RuntimeInv /\ External \in Actors /\ charged \in [Payments -> Nat]
  BY CardCast DEF LogsBacked, CardInv, SagaInv, GatewayOK
<1>1. PICK r : r = InHand(External)
  OBVIOUS
<1>2. At(External, "handle") /\ r \in Event /\ r.payment \in Payments /\ UNCHANGED store
  BY <1>1, RequestInHand DEF ProcessPayment, At, Build
<1>3. PICK a \in GatewayAnswers :
        /\ charged' = [charged EXCEPT ![r.payment] = IF a = "SUCCESS" THEN @ + 1 ELSE @]
        /\ Build(External, Consequence(a, r))
  BY <1>1 DEF ProcessPayment
<1>4. PICK e : e = Consequence(a, r)
  OBVIOUS
<1>5. e.payment = r.payment /\ (e.type = "PaymentSentToGateway" => a = "SUCCESS")
  <2>1. CASE a = "timeout"
    BY <1>4, <2>1, ServiceFields DEF Consequence
  <2>2. CASE a = "error"
    BY <1>4, <2>2, ServiceFields DEF Consequence
  <2>3. CASE a = "SUCCESS"
    BY <1>4, <2>3, ServiceFields DEF Consequence
  <2> QED BY <2>1, <2>2, <2>3, ExternalAssumption
<1>6. /\ op'[External] = [at |-> "save", event |-> e]
      /\ \A b \in Actors \ {External} : op'[b] = op[b]
  BY <1>0, <1>3, <1>4 DEF Build, Goto, RuntimeInv, RuntimeTypeOK
<1>7. Waiting(p)' \subseteq Waiting(p)
  BY <1>6, CardCast DEF Waiting, At
<1>8. charged'[p] \in Nat /\ charged[p] \in Nat
      /\ charged'[p] = IF p = r.payment /\ a = "SUCCESS" THEN charged[p] + 1 ELSE charged[p]
  BY <1>0, <1>2, <1>3
<1>9. /\ Sending(p, "save") = 0 /\ Sending(p, "publish")' = 0
      /\ Sending(p, "save")' = 1 => p = r.payment /\ a = "SUCCESS"
  BY <1>2, <1>5, <1>6 DEF Sending, At
<1>10. Sending(p, "save")' + charged[p] <= Sending(p, "save") + charged'[p]
       /\ Sending(p, "publish")' <= Sending(p, "publish")
  BY <1>8, <1>9, SendingBits
<1> QED BY <1>0, <1>2, <1>7, <1>8, <1>10, SendingBits, QuietBacked

(* The acceptance is on the topic, and its webhook waits.                  *)
LEMMA PublishSentBacked == ASSUME CardInv, FlowInv, LogsBacked, PublishSent PROVE LogsBacked'
<1> SUFFICES ASSUME NEW p \in Payments PROVE LogBacked(p)'
  BY DEF LogsBacked
<1>0. LogBacked(p) /\ RuntimeInv /\ External \in Actors /\ UNCHANGED <<store, charged>>
  BY CardCast DEF LogsBacked, CardInv, SagaInv, PublishSent, externalVars
<1>1. PICK e : e = op[External].event
  OBVIOUS
<1>2. At(External, "publish") /\ e.type = "PaymentSentToGateway"
  BY <1>1 DEF PublishSent
<1>3. PICK w : w = [at |-> "save", event |-> NewPaymentGatewayResponse(e.payment, e.user, TRUE)]
  OBVIOUS
<1>4. w.at = "save" /\ w.event.payment = e.payment
  BY <1>3 DEF NewPaymentGatewayResponse, NewVerdictEvent
<1>5. PICK h \in Webhooks :
        At(h, "idle") /\ op' = [op EXCEPT ![External] = After(e), ![h] = w]
  BY <1>1, <1>3 DEF PublishSent
<1>6. /\ op'[External] = After(e) /\ op'[h] = w
      /\ \A b \in Actors \ {External, h} : op'[b] = op[b]
  BY <1>0, <1>5, CardCast DEF RuntimeInv, RuntimeTypeOK
<1>7. Waiting(p)' = (IF p = e.payment THEN Waiting(p) \cup {h} ELSE Waiting(p)) /\ h \notin Waiting(p)
  BY <1>4, <1>5, <1>6, CardCast DEF Waiting, At
<1>8. /\ IsFiniteSet(Waiting(p)')
      /\ Cardinality(Waiting(p)') = Cardinality(Waiting(p)) + (IF p = e.payment THEN 1 ELSE 0)
  <2>1. IsFiniteSet(Waiting(p)) /\ Cardinality(Waiting(p)) \in Nat
    BY <1>0, BackedNumbers DEF LogBacked
  <2>2. /\ IsFiniteSet(Waiting(p) \cup {h})
        /\ Cardinality(Waiting(p) \cup {h}) = Cardinality(Waiting(p)) + 1
    BY <1>7, <2>1, FS_AddElement
  <2> QED BY <1>7, <2>1, <2>2
<1>9. /\ Sending(p, "save") = 0 /\ Sending(p, "save")' = 0 /\ Sending(p, "publish")' = 0
      /\ Sending(p, "publish") = IF p = e.payment THEN 1 ELSE 0
  BY <1>1, <1>2, <1>6, AfterIsNoAcceptance DEF Sending, At
<1>10. store'[p] = store[p] /\ charged'[p] = charged[p]
  BY <1>0
<1>11. Sent(store[p])' = Sent(store[p]) /\ Responded(store[p])' = Responded(store[p])
  BY <1>10 DEF Sent, Responded, CountIn
<1>12. RespondedAfterSent(store[p])'
  BY <1>0, <1>10 DEF LogBacked, RespondedAfterSent, Sent, Responded, CountIn
<1>13. Sent(store[p])' + Sending(p, "save")' <= charged'[p]
  BY <1>0, <1>9, <1>10, <1>11 DEF LogBacked
<1>14. Responded(store[p])' + Cardinality(Waiting(p)') + Sending(p, "publish")' <= Sent(store[p])'
  BY <1>0, <1>8, <1>9, <1>11, BackedNumbers DEF LogBacked
<1> QED BY <1>8, <1>12, <1>13, <1>14 DEF LogBacked

LEMMA ExternalStepBacked ==
  ASSUME CardInv, FlowInv, LogsBacked, ExternalStep PROVE LogsBacked'
<1>0. RuntimeInv /\ External \in Actors
  BY CardCast DEF CardInv, SagaInv
<1>1. ASSUME NEW step, NEW e, Goto(External, step, e)
      PROVE  op'[External].at = step /\ \A h \in Webhooks : op'[h] = op[h]
  BY <1>0, <1>1, CardCast DEF Goto, RuntimeInv, RuntimeTypeOK
<1>2. CASE ExternalReceive \/ ExternalCommit
  BY <1>1, <1>2, StillBacked
  DEF ExternalReceive, ExternalCommit, Receive, CommitMessage, externalVars
<1>3. CASE ExternalIgnore
  BY <1>3, StillBacked DEF ExternalIgnore, Ignore, externalVars
<1>4. CASE ProcessPayment
  BY <1>4, ProcessBacked
<1>5. CASE ExternalSave
  BY <1>0, <1>5, SaveBacked DEF ExternalSave, externalVars, LogsBacked
<1>6. CASE ExternalStoreFails \/ PublishOther \/ ExternalPublishFails
  <2>1. PICK e : e = op[External].event
    OBVIOUS
  <2>2. op' = [op EXCEPT ![External] = After(e)] /\ UNCHANGED <<store, charged>>
    BY <1>6, <2>1 DEF ExternalStoreFails, PublishOther, ExternalPublishFails
  <2>3. op'[External] = After(e) /\ \A h \in Webhooks : op'[h] = op[h]
    BY <1>0, <2>2, CardCast DEF RuntimeInv, RuntimeTypeOK
  <2> QED BY <2>2, <2>3, AfterIsNoAcceptance, StillBacked
<1>7. CASE PublishSent
  BY <1>7, PublishSentBacked
<1>8. ASSUME NEW h \in Webhooks, WebhookSave(h) PROVE LogsBacked'
  BY <1>8, SaveBacked, CardCast DEF WebhookSave, externalVars, LogsBacked
<1>9. ASSUME NEW h \in Webhooks, WebhookStoreFails(h) \/ WebhookPublish(h) PROVE LogsBacked'
  <2>1. Goto(h, "done", NoEvent) /\ UNCHANGED <<store, charged>>
    BY <1>9, CardCast DEF WebhookStoreFails, WebhookPublish, StoreFails, Publish, Ended, externalVars
  <2>2. op'[h].at = "done" /\ \A b \in Actors \ {h} : op'[b] = op[b]
    BY <1>0, <2>1, CardCast DEF Goto, RuntimeInv, RuntimeTypeOK
  <2> QED BY <2>1, <2>2, CardCast, StillBacked
<1>10. CASE ExternalCrash
  <2>1. op'[External].at = "idle" /\ \A h \in Webhooks : op'[h] = op[h] \/ op'[h].at # "save"
    BY <1>0, <1>10, CrashEnds, CardCast DEF ExternalCrash
  <2> QED BY <1>10, <2>1, StillBacked DEF ExternalCrash, Crash
<1> QED BY <1>2, <1>3, <1>4, <1>5, <1>6, <1>7, <1>8, <1>9, <1>10 DEF ExternalStep

LEMMA BackedInit == CardInit => LogsBacked
<1> SUFFICES ASSUME CardInit, NEW p \in Payments PROVE LogBacked(p)
  BY DEF LogsBacked
<1>1. \A a \in Actors : At(a, "idle")
  BY DEF CardInit, RuntimeInit, At
<1>2. store[p] = <<>> /\ charged[p] = 0 /\ DOMAIN store[p] = {}
  BY CardCast, EmptySeq DEF CardInit, RuntimeInit, StoreInit, ExternalInit
<1>3. Waiting(p) = {} /\ IsFiniteSet(Waiting(p)) /\ Cardinality(Waiting(p)) = 0
  <2>1. Waiting(p) = {}
    BY <1>1, CardCast DEF Waiting, At
  <2> QED BY <2>1, FS_EmptySet
<1>4. Sending(p, "save") = 0 /\ Sending(p, "publish") = 0
  BY <1>1, CardCast DEF Sending, At
<1>5. Sent(store[p]) = 0 /\ Responded(store[p]) = 0
  <2>1. \A t : {i \in DOMAIN store[p] : store[p][i].type = t} = {}
    BY <1>2
  <2> QED BY <2>1, FS_EmptySet DEF Sent, Responded, CountIn
<1> QED BY <1>2, <1>3, <1>4, <1>5 DEF LogBacked, RespondedAfterSent

LEMMA BackedNext == CardInv /\ FlowInv /\ LogsBacked /\ [CardNext]_cardVars => LogsBacked'
<1> SUFFICES ASSUME CardInv, FlowInv, LogsBacked, [CardNext]_cardVars PROVE LogsBacked'
  OBVIOUS
<1>1. CASE UNCHANGED cardVars
  BY <1>1, StillBacked DEF cardVars, runtimeVars, externalVars
<1> QED BY <1>1, SagaStepBacked, ExternalStepBacked DEF CardNext

(* The log of a card payment never runs ahead of the gateway, whatever is  *)
(* lost, written twice or delivered again and whichever process dies: it   *)
(* never says more often than the gateway that a payment was accepted, and *)
(* never has a response without an earlier PaymentSentToGateway of its     *)
(* own, though the goroutines of simulateWebhookResponse in service.go     *)
(* race with the handler of a repeated request.                            *)
THEOREM NoResponseOutOfTurn == CardSpec => []LogFollowsGateway
<1>1. CardInv /\ LogsBacked => LogFollowsGateway
  <2> SUFFICES ASSUME CardInv, LogsBacked, NEW p \in Payments
               PROVE  /\ Sent(store[p]) <= charged[p]
                      /\ RespondedAfterSent(store[p])
    BY DEF LogFollowsGateway, Sent, Responded, RespondedAfterSent
  <2>1. LogBacked(p)
    BY DEF LogsBacked
  <2> QED BY <2>1, BackedNumbers DEF LogBacked
<1> QED BY <1>1, BackedInit, BackedNext, CardSpecInv, FlowHolds, PTL DEF CardSpec

----
(* As long as nothing is delivered twice, a card payment is asked of the   *)
(* service once: until the call that creates it is done nothing of it is   *)
(* on the topic, the gateway is not asked before its request has been      *)
(* read, and then once for each attempt the loop counts.                   *)
IsRequest(q, i, p) ==
  topic[q][i].type = "ExternalPaymentRequested" /\ topic[q][i].payment = p

AskedOnce ==
  \A p \in Payments : \A q, r \in Partitions : \A i \in 1..Len(topic[q]), j \in 1..Len(topic[r]) :
    IsRequest(q, i, p) /\ IsRequest(r, j, p) => q = r /\ i = j

AskedByCall ==
  \A p \in Payments : \A q \in Partitions : \A i \in 1..Len(topic[q]) :
    IsRequest(q, i, p) => At(p, "done")

Unread(p) ==
  \A q \in Partitions : \A i \in 1..position[External][q] : ~IsRequest(q, i, p)

Failed(p) == Recorded(p, "ExternalPaymentFailed")

UnreadUntried == \A p \in Payments : Unread(p) => requests[p] = 0 /\ ~Failed(p)

(* The loop has not come to an outcome, and has not written one.           *)
Undecided ==
  \/ At(External, "handle")
  \/ Writing(External) /\ op[External].event.type \in LoopTypes
  \/ At(External, "save") /\ op[External].event.type = "ExternalPaymentFailed"

HandOpen(p) ==
  /\ At(External, "handle") \/ Writing(External) => requests[p] = attempt
  /\ Undecided => charged[p] = 0 /\ ~Failed(p)

InHandOpen == HandOpen(InHand(External).payment)

TriedAsCounted == \A p \in Payments : requests[p] <= MaxAttempts

RequestedLast ==
  \A p \in Payments : At(p, "idle") \/ At(p, "save") => ~Recorded(p, "ExternalPaymentRequested")

OnceInv ==
  AskedOnce /\ AskedByCall /\ UnreadUntried /\ InHandOpen /\ TriedAsCounted /\ RequestedLast

(* A call goes its way once.                                               *)
CallMoved(p) ==
  \/ op'[p] = op[p]
  \/ At(p, "idle") /\ op'[p].at = "save"
  \/ Save(p) /\ op'[p].at = "publish"
  \/ op'[p].at = "done"

LEMMA CallGoes ==
  ASSUME RuntimeInv, NEW a \in Actors, NEW step, NEW e, Goto(a, step, e), NEW p \in Payments,
         a = p => \/ At(p, "idle") /\ step = "save"
                  \/ Save(p) /\ step = "publish"
                  \/ step = "done"
  PROVE  CallMoved(p)
<1>1. CASE a = p
  <2>1. op'[p].at = step
    BY <1>1 DEF Goto, RuntimeInv, RuntimeTypeOK
  <2> QED BY <1>1, <2>1 DEF CallMoved
<1>2. CASE a # p
  <2>1. op'[p] = op[p]
    BY <1>2, CardCast DEF Goto, RuntimeInv, RuntimeTypeOK
  <2> QED BY <2>1 DEF CallMoved
<1> QED BY <1>1, <1>2

LEMMA CrashEndsCalls ==
  ASSUME RuntimeInv, NEW g \in Groups, Crash(g), NEW p \in Payments PROVE CallMoved(p)
<1>1. p \in Actors /\ p # g
  BY CardCast
<1> QED BY <1>1 DEF Crash, CallMoved

LEMMA CallsMove ==
  ASSUME CardInv, FlowInv, [CardNext]_cardVars, NEW p \in Payments PROVE CallMoved(p)
<1>0. RuntimeInv /\ p \in Actors /\ External \in Actors /\ Orchestrator \in Actors
      /\ p # External /\ p # Orchestrator
  BY CardCast DEF CardInv, SagaInv
<1>1. CASE CreateCardPayment
  BY <1>0, <1>1, CallGoes, CardCast DEF CreateCardPayment, CreateExternalPayment, Build
<1>2. CASE SagaIgnore \/ ExternalIgnore \/ UNCHANGED cardVars
  BY <1>2 DEF SagaIgnore, ExternalIgnore, Ignore, CallMoved, cardVars, runtimeVars
<1>3. CASE SagaReceive \/ CommitMessage(Orchestrator)
  BY <1>0, <1>3, CallGoes DEF SagaReceive, Receive, CommitMessage
<1>4. CASE HandleAnswer
  BY <1>0, <1>4, AnswersRefused, CallGoes DEF Refuse
<1>5. ASSUME NEW a \in Actors, Save(a) \/ StoreFails(a) \/ Publish(a) PROVE CallMoved(p)
  <2>1. p \notin Groups
    BY CardCast
  <2> QED BY <1>0, <1>5, <2>1, CallGoes DEF Save, StoreFails, Publish, Ended
<1>6. CASE Crash(Orchestrator) \/ ExternalCrash
  BY <1>0, <1>6, CrashEndsCalls, CardCast DEF ExternalCrash
<1>7. CASE ExternalReceive \/ ProcessPayment \/ ExternalCommit
  BY <1>0, <1>7, CallGoes DEF ExternalReceive, Receive, ProcessPayment, Build, ExternalCommit, CommitMessage
<1>8. CASE ExternalStoreFails \/ PublishSent \/ PublishOther \/ ExternalPublishFails
  <2>1. op'[p] = op[p]
    <3>1. CASE PublishSent
      <4>1. PICK h \in Webhooks : \E n, w : op' = [op EXCEPT ![External] = n, ![h] = w]
        BY <3>1 DEF PublishSent
      <4>2. h # p
        BY CardCast
      <4> QED BY <1>0, <4>1, <4>2 DEF RuntimeInv, RuntimeTypeOK
    <3>2. CASE ExternalStoreFails \/ PublishOther \/ ExternalPublishFails
      <4>1. PICK n : op' = [op EXCEPT ![External] = n]
        BY <3>2 DEF ExternalStoreFails, PublishOther, ExternalPublishFails
      <4> QED BY <1>0, <4>1 DEF RuntimeInv, RuntimeTypeOK
    <3> QED BY <1>8, <3>1, <3>2
  <2> QED BY <2>1 DEF CallMoved
<1>9. CASE ExternalSave \/ \E h \in Webhooks : WebhookSave(h) \/ WebhookStoreFails(h) \/ WebhookPublish(h)
  BY <1>5, <1>9, CardCast DEF ExternalSave, WebhookSave, WebhookStoreFails, WebhookPublish
<1> QED BY <1>1, <1>2, <1>3, <1>4, <1>5, <1>6, <1>7, <1>8, <1>9, CardCast
        DEF CardNext, SagaStep, ExternalStep

(* A new request on the topic is that of a call that has just ended.       *)
LEMMA RequestsArrive ==
  ASSUME CardInv, FlowInv, OnceInv, "duplicate" \notin FaultKinds, [CardNext]_cardVars
  PROVE  \/ \A q \in Partitions : \A i \in 1..Len(topic'[q]) : \A p \in Payments :
              IsRequest(q, i, p)' => i \in 1..Len(topic[q]) /\ IsRequest(q, i, p)
         \/ \E x \in Payments : \E r \in Partitions :
              /\ At(x, "publish") /\ At(x, "done")'
              /\ \A q \in Partitions : \A i \in 1..Len(topic'[q]) : \A p \in Payments :
                   IsRequest(q, i, p)' =>
                     \/ i \in 1..Len(topic[q]) /\ IsRequest(q, i, p)
                     \/ q = r /\ i = Len(topic[r]) + 1 /\ p = x
<1>0. RuntimeInv /\ topic \in [Partitions -> Seq(Event)]
  BY DEF CardInv, SagaInv, RuntimeInv, RuntimeTypeOK
<1>1. CASE UNCHANGED topic
  BY <1>1 DEF IsRequest
<1>2. ASSUME NEW a \in Actors, At(a, "publish"), Send(op[a].event),
             a \notin Groups => At(a, "done")', ~(UNCHANGED topic)
      PROVE  \E r \in Partitions : \A q \in Partitions : \A i \in 1..Len(topic'[q]) :
               \A p \in Payments :
                 IsRequest(q, i, p)' =>
                   \/ i \in 1..Len(topic[q]) /\ IsRequest(q, i, p)
                   \/ q = r /\ i = Len(topic[r]) + 1 /\ a = p /\ At(a, "done")'
  <2>1. PICK e : e = op[a].event
    OBVIOUS
  <2>2. e \in Event /\ Owns(a, e)
    BY <1>0, <1>2, <2>1 DEF RuntimeInv, BuiltOK, FlowInv, WritesOwn, Writing
  <2>3. PICK r \in Partitions : topic' = [topic EXCEPT ![r] = Append(@, e)]
    BY <1>2, <2>1 DEF Send, Fault
  <2>4. ASSUME NEW q \in Partitions, NEW i \in 1..Len(topic'[q]), NEW p \in Payments,
               IsRequest(q, i, p)'
        PROVE  \/ i \in 1..Len(topic[q]) /\ IsRequest(q, i, p)
               \/ q = r /\ i = Len(topic[r]) + 1 /\ a = p /\ At(a, "done")'
    <3>1. PICK n \in Nat : n = Len(topic[q])
      BY <1>0, LenProperties
    <3>2. CASE q # r
      <4>1. topic'[q] = topic[q]
        BY <1>0, <2>3, <3>2
      <4> QED BY <2>4, <4>1 DEF IsRequest
    <3>3. CASE q = r
      <4>1. topic'[q] = Append(topic[q], e)
        BY <1>0, <2>3, <3>3
      <4>2. /\ Len(topic'[q]) = n + 1 /\ topic'[q][n + 1] = e
            /\ \A k \in 1..n : topic'[q][k] = topic[q][k]
        BY <1>0, <2>2, <3>1, <4>1, AppendProperties
      <4>3. CASE i \in 1..n
        BY <2>4, <3>1, <4>2, <4>3 DEF IsRequest
      <4>4. CASE i = n + 1
        <5>1. e.type = "ExternalPaymentRequested" /\ e.payment = p
          BY <2>4, <4>2, <4>4 DEF IsRequest
        <5>2. a = p
          BY <2>2, <5>1, CardCast DEF Owns, WrittenBy, LoopTypes, OutcomeTypes
        <5> QED BY <1>2, <3>1, <3>3, <4>4, <5>2, CardCast
      <4>5. i \in 1..n \/ i = n + 1
        BY <4>2
      <4> QED BY <4>3, <4>4, <4>5
    <3> QED BY <3>2, <3>3
  <2> QED BY <2>4
<1>3. ASSUME NEW a \in Actors, At(a, "publish"), Send(op[a].event),
             a \notin Groups => At(a, "done")', ~(UNCHANGED topic)
      PROVE  \/ \A q \in Partitions : \A i \in 1..Len(topic'[q]) : \A p \in Payments :
                  IsRequest(q, i, p)' => i \in 1..Len(topic[q]) /\ IsRequest(q, i, p)
             \/ \E x \in Payments : \E r \in Partitions :
                  /\ At(x, "publish") /\ At(x, "done")'
                  /\ \A q \in Partitions : \A i \in 1..Len(topic'[q]) : \A p \in Payments :
                       IsRequest(q, i, p)' =>
                         \/ i \in 1..Len(topic[q]) /\ IsRequest(q, i, p)
                         \/ q = r /\ i = Len(topic[r]) + 1 /\ p = x
  <2>1. PICK r \in Partitions : \A q \in Partitions : \A i \in 1..Len(topic'[q]) :
               \A p \in Payments :
                 IsRequest(q, i, p)' =>
                   \/ i \in 1..Len(topic[q]) /\ IsRequest(q, i, p)
                   \/ q = r /\ i = Len(topic[r]) + 1 /\ a = p /\ At(a, "done")'
    BY <1>2, <1>3
  <2>2. CASE a \in Payments /\ At(a, "done")'
    BY <1>3, <2>1, <2>2
  <2>3. CASE ~(a \in Payments /\ At(a, "done")')
    BY <2>1, <2>3
  <2> QED BY <2>2, <2>3
<1> QED BY <1>1, <1>3, CardStepWrites

LEMMA AskedNext ==
  ASSUME CardInv, FlowInv, OnceInv, "duplicate" \notin FaultKinds, [CardNext]_cardVars
  PROVE  AskedOnce' /\ AskedByCall'
<1>1. ASSUME NEW p \in Payments, At(p, "done") PROVE At(p, "done")'
  BY <1>1, CallsMove DEF CallMoved, Save, At
<1>2. CASE \A q \in Partitions : \A i \in 1..Len(topic'[q]) : \A p \in Payments :
             IsRequest(q, i, p)' => i \in 1..Len(topic[q]) /\ IsRequest(q, i, p)
  <2>1. AskedOnce'
    BY <1>2 DEF OnceInv, AskedOnce
  <2>2. AskedByCall'
    BY <1>1, <1>2 DEF OnceInv, AskedByCall
  <2> QED BY <2>1, <2>2
<1>3. ASSUME NEW x \in Payments, NEW r \in Partitions, At(x, "publish"), At(x, "done")',
             \A q \in Partitions : \A i \in 1..Len(topic'[q]) : \A p \in Payments :
               IsRequest(q, i, p)' =>
                 \/ i \in 1..Len(topic[q]) /\ IsRequest(q, i, p)
                 \/ q = r /\ i = Len(topic[r]) + 1 /\ p = x
      PROVE  AskedOnce' /\ AskedByCall'
  <2>1. \A q \in Partitions : \A i \in 1..Len(topic[q]) : ~IsRequest(q, i, x)
    BY <1>3 DEF OnceInv, AskedByCall, At
  <2>2. AskedOnce'
    <3> SUFFICES ASSUME NEW p \in Payments, NEW q \in Partitions, NEW s \in Partitions,
                        NEW i \in 1..Len(topic'[q]), NEW j \in 1..Len(topic'[s]),
                        IsRequest(q, i, p)', IsRequest(s, j, p)'
                 PROVE  q = s /\ i = j
      BY DEF AskedOnce
    <3>1. CASE p = x
      BY <1>3, <2>1, <3>1
    <3>2. CASE p # x
      BY <1>3, <3>2 DEF OnceInv, AskedOnce
    <3> QED BY <3>1, <3>2
  <2>3. AskedByCall'
    BY <1>1, <1>3 DEF OnceInv, AskedByCall
  <2> QED BY <2>2, <2>3
<1> QED BY <1>2, <1>3, RequestsArrive

(* What steps of others leave the service.                                 *)
Elsewhere ==
  HandKept(External) /\ op'[External] = op[External] /\ UNCHANGED externalVars

LoopStep ==
  ExternalStoreFails \/ PublishSent \/ PublishOther \/ ExternalPublishFails

LEMMA ServiceMovesOrNot ==
  ASSUME CardInv, [CardNext]_cardVars
  PROVE  \/ ExternalReceive \/ ExternalIgnore \/ ProcessPayment \/ ExternalSave
         \/ LoopStep \/ ExternalCommit \/ ExternalCrash \/ Elsewhere
<1>1. RuntimeInv /\ External \in Groups \ {Orchestrator} /\ External \in Actors
  BY TwoServices, CardCast DEF CardInv, SagaInv
<1>2. CASE CreateCardPayment /\ UNCHANGED externalVars
  <2>1. PICK p \in Payments, u \in Users, a \in Amounts : CreateExternalPayment(p, u, a)
    BY <1>2 DEF CreateCardPayment
  <2>2. UNCHANGED busVars /\ op'[External] = op[External]
    BY <1>1, <2>1, CardCast DEF CreateExternalPayment, Build, Goto, RuntimeInv, RuntimeTypeOK
  <2> QED BY <1>1, <1>2, <2>2, StillKeepsHands DEF Elsewhere
<1>3. CASE SagaStep /\ UNCHANGED externalVars
  BY <1>1, <1>3, SagaStepElsewhere DEF CardInv, Elsewhere
<1>4. ASSUME NEW h \in Webhooks, WebhookSave(h) \/ WebhookStoreFails(h) \/ WebhookPublish(h)
      PROVE  Elsewhere
  <2>1. (Save(h) \/ StoreFails(h) \/ Publish(h)) /\ UNCHANGED externalVars
        /\ h \in Actors /\ h # External
    BY <1>1, <1>4, CardCast DEF WebhookSave, WebhookStoreFails, WebhookPublish
  <2>2. HandKept(External)
    BY <1>1, <2>1, WritesKeepHands
  <2>3. op'[External] = op[External]
    BY <1>1, <2>1 DEF Save, StoreFails, Publish, Goto, RuntimeInv, RuntimeTypeOK
  <2> QED BY <2>1, <2>2, <2>3 DEF Elsewhere
<1>5. CASE UNCHANGED cardVars
  BY <1>1, <1>5, StillKeepsHands DEF cardVars, runtimeVars, Elsewhere
<1> QED BY <1>2, <1>3, <1>4, <1>5 DEF CardNext, ExternalStep, LoopStep

LEMMA NeverCrashes == "crash" \notin FaultKinds => ~ExternalCrash
BY DEF ExternalCrash, Crash, Rejoin, Fault

(* The gateway hears of a payment from an attempt only.                    *)
LEMMA GatewayMoves ==
  ASSUME [CardNext]_cardVars PROVE ProcessPayment \/ UNCHANGED <<requests, charged>>
BY DEF CardNext, cardVars, externalVars, ExternalStep, ExternalReceive, ExternalIgnore,
       ExternalSave, ExternalStoreFails, PublishSent, PublishOther, ExternalPublishFails,
       ExternalCommit, WebhookSave, WebhookStoreFails, WebhookPublish, ExternalCrash

(* What has been read stays read.                                          *)
ReadOn ==
  \A q \in Partitions :
    /\ position[External][q] <= position'[External][q]
    /\ \A i \in 1..Len(topic[q]) : topic'[q][i] = topic[q][i]

LEMMA ConsumerReadsOn ==
  ASSUME CardInv, FlowInv, "crash" \notin FaultKinds, [CardNext]_cardVars PROVE ReadOn
<1>1. /\ RuntimeInv /\ External \in Groups
      /\ position \in [Groups -> [Partitions -> Nat]]
  BY CardCast DEF CardInv, SagaInv, RuntimeInv, RuntimeTypeOK
<1>2. CASE Elsewhere
  BY <1>1, <1>2 DEF Elsewhere, HandKept, ReadOn
<1>3. CASE ExternalReceive \/ ExternalIgnore
  <2>1. PICK p \in Partitions : position' = [position EXCEPT ![External][p] = @ + 1]
    BY <1>3 DEF ExternalReceive, ExternalIgnore, Receive, Ignore, Fetch, Pass
  <2>2. UNCHANGED topic
    BY <1>3 DEF ExternalReceive, ExternalIgnore, Receive, Ignore, Fetch, Pass
  <2> QED BY <1>1, <2>1, <2>2 DEF ReadOn
<1>4. CASE UNCHANGED <<topic, position>>
  BY <1>1, <1>4 DEF ReadOn
<1>5. CASE ProcessPayment \/ ExternalSave \/ ExternalStoreFails \/ ExternalCommit
  BY <1>4, <1>5
  DEF ProcessPayment, Build, ExternalSave, Save, ExternalStoreFails,
      ExternalCommit, CommitMessage, Commit, busVars
<1>6. CASE PublishSent \/ PublishOther \/ ExternalPublishFails
  <2>1. PICK e : e = op[External].event
    OBVIOUS
  <2>2. e \in Event /\ Send(e)
    BY <1>1, <1>6, <2>1, CardCast
    DEF PublishSent, PublishOther, ExternalPublishFails, SendFails, RuntimeInv, BuiltOK
  <2> QED BY <1>1, <2>2, SendAppends DEF ReadOn
<1> QED BY <1>2, <1>3, <1>5, <1>6, ServiceMovesOrNot, NeverCrashes DEF LoopStep

LEMMA UnreadShrinks ==
  ASSUME RuntimeInv, RuntimeInv', ReadOn, NEW p \in Payments, Unread(p)' PROVE Unread(p)
<1> SUFFICES ASSUME NEW q \in Partitions, NEW i \in 1..position[External][q], IsRequest(q, i, p)
             PROVE  FALSE
  BY DEF Unread
<1>1. /\ position[External][q] \in Nat /\ Len(topic[q]) \in Nat
      /\ position[External][q] <= Len(topic[q])
  BY CardCast, LenProperties DEF RuntimeInv, RuntimeTypeOK, OffsetsOK
<1>2. i \in 1..Len(topic[q])
  BY <1>1
<1>3. topic'[q][i] = topic[q][i] /\ position[External][q] <= position'[External][q]
  BY <1>2 DEF ReadOn
<1>4. position'[External][q] \in Nat
  BY CardCast DEF RuntimeInv, RuntimeTypeOK
<1>5. i \in 1..position'[External][q]
  BY <1>1, <1>3, <1>4
<1> QED BY <1>3, <1>5 DEF Unread, IsRequest

LEMMA HandIsRead ==
  ASSUME CardInv, ~At(External, "idle") PROVE ~Unread(InHand(External).payment)
<1>1. PICK m : m = InHand(External)
  OBVIOUS
<1>2. PICK q : q = current[External]
  OBVIOUS
<1>3. m.type = "ExternalPaymentRequested"
  BY <1>1, RequestInHand
<1>4. q \in Partitions /\ position[External][q] \in Nat /\ position[External][q] > 0
  BY <1>2, CardCast DEF CardInv, SagaInv, RuntimeInv, RuntimeTypeOK, HandOK
<1>5. m = topic[q][position[External][q]]
  BY <1>1, <1>2 DEF InHand
<1>6. IsRequest(q, position[External][q], m.payment)
  BY <1>3, <1>5 DEF IsRequest
<1>7. position[External][q] \in 1..position[External][q]
  BY <1>4
<1> QED BY <1>1, <1>4, <1>6, <1>7 DEF Unread

(* A payment fails in its log when the service saves that it has.          *)
LEMMA FailedBySave ==
  ASSUME CardInv, FlowInv, [CardNext]_cardVars, NEW p \in Payments, Failed(p)', ~Failed(p)
  PROVE  /\ Save(External)
         /\ op[External].event.type = "ExternalPaymentFailed"
         /\ op[External].event.payment = p
<1>1. ~(UNCHANGED store)
  BY DEF Failed, Recorded
<1>2. PICK a \in Actors : Save(a)
  BY <1>1, CardStepWrites
<1>3. PICK e : e = op[a].event
  OBVIOUS
<1>4. Owns(a, e) /\ e.type \in CardTypes /\ e.payment \in Payments
  BY <1>2, <1>3, CardCast DEF FlowInv, WritesOwn, Owns, Writing, Save
<1>5. p = e.payment /\ e.type = "ExternalPaymentFailed"
  BY <1>2, <1>3, <1>4, SaveRecords DEF Failed, CardInv, SagaInv
<1>6. a = External
  BY <1>4, <1>5, CardCast DEF Owns, WrittenBy
<1> QED BY <1>2, <1>3, <1>5, <1>6

LEMMA UntriedStays ==
  ASSUME CardInv, FlowInv, OnceInv, "crash" \notin FaultKinds, [CardNext]_cardVars,
         \A p \in Payments : Unread(p) => requests'[p] = requests[p]
  PROVE  UnreadUntried'
<1> SUFFICES ASSUME NEW p \in Payments, Unread(p)' PROVE requests'[p] = 0 /\ ~Failed(p)'
  BY DEF UnreadUntried
<1>1. Unread(p)
  BY CardNextInv, ConsumerReadsOn, UnreadShrinks DEF CardInv, SagaInv
<1>2. requests'[p] = 0 /\ ~Failed(p)
  BY <1>1 DEF OnceInv, UnreadUntried
<1>3. ASSUME Failed(p)' PROVE FALSE
  <2>1. At(External, "save") /\ op[External].event.payment = p
    BY <1>2, <1>3, FailedBySave DEF Save
  <2>2. InHand(External).payment = p /\ ~At(External, "idle")
    BY <2>1 DEF CardInv, LoopOK, EventOnItsWay, At
  <2> QED BY <1>1, <2>2, HandIsRead
<1> QED BY <1>2, <1>3

LEMMA UntriedNext ==
  ASSUME CardInv, FlowInv, OnceInv, "crash" \notin FaultKinds, [CardNext]_cardVars
  PROVE  UnreadUntried' /\ TriedAsCounted'
<1>1. RuntimeInv /\ requests \in [Payments -> Nat]
  BY DEF CardInv, SagaInv, GatewayOK
<1>2. CASE ProcessPayment
  <2>1. PICK r : r = InHand(External)
    OBVIOUS
  <2>2. At(External, "handle") /\ ~At(External, "idle")
    BY <1>2 DEF ProcessPayment, At
  <2>3. r.payment \in Payments /\ ~Unread(r.payment)
    BY <2>1, <2>2, RequestInHand, HandIsRead
  <2>4. requests' = [requests EXCEPT ![r.payment] = @ + 1]
    BY <1>2, <2>1 DEF ProcessPayment
  <2>5. requests[r.payment] = attempt /\ attempt < MaxAttempts /\ attempt \in Nat
        /\ MaxAttempts \in Nat
    BY <2>1, <2>2, ExternalAssumption DEF OnceInv, InHandOpen, HandOpen, CardInv, LoopOK, CounterOK
  <2>6. TriedAsCounted'
    BY <1>1, <2>3, <2>4, <2>5 DEF OnceInv, TriedAsCounted
  <2>7. \A p \in Payments : Unread(p) => requests'[p] = requests[p]
    BY <1>1, <2>3, <2>4
  <2> QED BY <2>6, <2>7, <1>2, UntriedStays
<1>3. CASE UNCHANGED requests
  BY <1>3, UntriedStays DEF OnceInv, TriedAsCounted
<1> QED BY <1>2, <1>3, GatewayMoves

LEMMA RequestedLastNext ==
  ASSUME CardInv, FlowInv, OnceInv, [CardNext]_cardVars PROVE RequestedLast'
<1> SUFFICES ASSUME NEW p \in Payments, op'[p].at \in {"idle", "save"}
             PROVE  ~Recorded(p, "ExternalPaymentRequested")'
  BY DEF RequestedLast, At
<1>0. RuntimeInv /\ p \in Actors
  BY CardCast DEF CardInv, SagaInv
<1>1. (op'[p] = op[p] \/ At(p, "idle")) /\ ~Save(p)
  <2>1. ASSUME Save(p) PROVE FALSE
    <3>1. op'[p].at = "publish"
      BY <1>0, <2>1 DEF Save, Goto, RuntimeInv, RuntimeTypeOK
    <3> QED BY <3>1
  <2> QED BY <2>1, CallsMove DEF CallMoved
<1>2. ~Recorded(p, "ExternalPaymentRequested")
  BY <1>1 DEF OnceInv, RequestedLast, At
<1>3. CASE UNCHANGED store
  BY <1>2, <1>3 DEF Recorded
<1>4. ASSUME NEW a \in Actors, Save(a), Recorded(p, "ExternalPaymentRequested")' PROVE FALSE
  <2>1. PICK e : e = op[a].event
    OBVIOUS
  <2>2. Owns(a, e) /\ e.type \in CardTypes /\ e.payment \in Payments
    BY <1>4, <2>1, CardCast DEF FlowInv, WritesOwn, Owns, Writing, Save
  <2>3. p = e.payment /\ e.type = "ExternalPaymentRequested"
    BY <1>0, <1>2, <1>4, <2>1, <2>2, SaveRecords
  <2>4. a = p
    BY <2>2, <2>3, CardCast DEF Owns, WrittenBy, LoopTypes, OutcomeTypes
  <2> QED BY <1>1, <1>4, <2>4
<1> QED BY <1>3, <1>4, CardStepWrites

(* The request received has not been read before.                          *)
LEMMA ReceivedOpen ==
  ASSUME CardInv, FlowInv, OnceInv, ExternalReceive PROVE InHandOpen'
<1>0. /\ RuntimeInv /\ External \in Groups /\ External \in Actors
      /\ position \in [Groups -> [Partitions -> Nat]]
      /\ requests \in [Payments -> Nat] /\ charged \in [Payments -> Nat]
      /\ \A p \in Payments : charged[p] <= requests[p]
  BY CardCast DEF CardInv, SagaInv, RuntimeInv, RuntimeTypeOK, GatewayOK
<1>1. PICK q \in Partitions :
        Fetch(External, q) /\ NextMessage(External, q).type = "ExternalPaymentRequested"
  BY DEF ExternalReceive, Receive
<1>2. PICK n \in Nat : n = position[External][q]
  BY <1>0
<1>3. PICK m : m = topic[q][n + 1]
  OBVIOUS
<1>4. InHand(External)' = m
  BY <1>0, <1>1, <1>2, <1>3 DEF Fetch, InHand, RuntimeInv, RuntimeTypeOK
<1>5. n + 1 \in 1..Len(topic[q])
  <2>1. Len(topic[q]) \in Nat /\ n < Len(topic[q])
    BY <1>0, <1>1, <1>2, LenProperties DEF Fetch, Pending, RuntimeInv, RuntimeTypeOK
  <2> QED BY <2>1
<1>6. m.type = "ExternalPaymentRequested" /\ m.payment \in Payments
  BY <1>1, <1>2, <1>3, <1>5 DEF NextMessage, FlowInv, SavedFirst
<1>7. Unread(m.payment)
  <2> SUFFICES ASSUME NEW r \in Partitions, NEW i \in 1..position[External][r],
                      IsRequest(r, i, m.payment)
               PROVE  FALSE
    BY DEF Unread
  <2>1. i \in 1..Len(topic[r])
    <3>1. position[External][r] \in Nat /\ Len(topic[r]) \in Nat
          /\ position[External][r] <= Len(topic[r])
      BY <1>0, LenProperties DEF RuntimeInv, RuntimeTypeOK, OffsetsOK
    <3> QED BY <3>1
  <2>2. IsRequest(q, n + 1, m.payment)
    BY <1>3, <1>6 DEF IsRequest
  <2>3. r = q /\ i = n + 1
    BY <1>5, <1>6, <2>1, <2>2 DEF OnceInv, AskedOnce
  <2> QED BY <1>2, <2>3
<1>8. requests[m.payment] = 0 /\ charged[m.payment] = 0 /\ ~Failed(m.payment)
  BY <1>0, <1>6, <1>7 DEF OnceInv, UnreadUntried
<1>9. /\ op'[External].at = "handle" /\ attempt' = 0
      /\ UNCHANGED <<store, requests, charged>>
  BY <1>0 DEF ExternalReceive, Receive, Goto, RuntimeInv, RuntimeTypeOK
<1>10. requests'[m.payment] = 0 /\ charged'[m.payment] = 0 /\ ~Failed(m.payment)'
  BY <1>8, <1>9 DEF Failed, Recorded
<1>11. At(External, "handle")' /\ attempt' = 0
  BY <1>9 DEF At
<1> QED BY <1>4, <1>10, <1>11 DEF InHandOpen, HandOpen

(* An attempt leaves the request open, unless the gateway has accepted it. *)
LEMMA AttemptOpen ==
  ASSUME CardInv, FlowInv, OnceInv, ProcessPayment PROVE InHandOpen'
<1>0. /\ RuntimeInv /\ External \in Actors
      /\ requests \in [Payments -> Nat] /\ charged \in [Payments -> Nat]
  BY CardCast DEF CardInv, SagaInv, GatewayOK
<1>1. PICK r : r = InHand(External)
  OBVIOUS
<1>2. At(External, "handle") /\ r \in Event /\ r.payment \in Payments /\ UNCHANGED <<store, busVars>>
  BY <1>1, RequestInHand DEF ProcessPayment, At, Build
<1>3. PICK a \in GatewayAnswers :
        /\ requests' = [requests EXCEPT ![r.payment] = @ + 1]
        /\ charged' = [charged EXCEPT ![r.payment] = IF a = "SUCCESS" THEN @ + 1 ELSE @]
        /\ Build(External, Consequence(a, r))
  BY <1>1 DEF ProcessPayment
<1>4. PICK e : e = Consequence(a, r)
  OBVIOUS
<1>5. a = "SUCCESS" => e.type = "PaymentSentToGateway"
  BY <1>4, ServiceFields DEF Consequence
<1>6. op'[External] = [at |-> "save", event |-> e]
  BY <1>0, <1>3, <1>4 DEF Build, Goto, RuntimeInv, RuntimeTypeOK
<1>7. HandOpen(r.payment)
  BY <1>1 DEF OnceInv, InHandOpen
<1>8. requests'[r.payment] = attempt'
  BY <1>0, <1>2, <1>3, <1>7 DEF HandOpen, ProcessPayment
<1>9. a # "SUCCESS" => charged'[r.payment] = 0
  BY <1>0, <1>2, <1>3, <1>7 DEF HandOpen, Undecided
<1>10. ~Failed(r.payment)'
  BY <1>2, <1>7 DEF HandOpen, Undecided, Failed, Recorded
<1>11. Undecided' => a # "SUCCESS"
  BY <1>5, <1>6 DEF Undecided, Writing, At, LoopTypes
<1>12. InHand(External)' = r
  BY <1>1, <1>2 DEF InHand, busVars
<1> QED BY <1>8, <1>9, <1>10, <1>11, <1>12 DEF InHandOpen, HandOpen

(* The handler goes on with the same request in hand.                      *)
LEMMA SameHandOpen ==
  ASSUME CardInv, FlowInv, OnceInv, [CardNext]_cardVars,
         ~At(External, "idle"), HandKept(External), UNCHANGED <<attempt, requests, charged>>,
         At(External, "handle")' \/ Writing(External)' => At(External, "handle") \/ Writing(External),
         Undecided' => Undecided,
         Undecided' /\ Save(External) => op[External].event.type # "ExternalPaymentFailed"
  PROVE  InHandOpen'
<1>1. PICK p : p = InHand(External).payment
  OBVIOUS
<1>2. p \in Payments
  BY <1>1, RequestInHand
<1>3. InHand(External)' = InHand(External)
  BY CardNextInv, HandSame, CardCast DEF CardInv, SagaInv
<1>4. HandOpen(p)
  BY <1>1 DEF OnceInv, InHandOpen
<1>5. Undecided' => ~Failed(p)'
  BY <1>2, <1>4, FailedBySave DEF HandOpen
<1>6. HandOpen(p)'
  BY <1>4, <1>5 DEF HandOpen
<1> QED BY <1>1, <1>3, <1>6 DEF InHandOpen

LEMMA LoopStepOpen ==
  ASSUME CardInv, FlowInv, OnceInv, [CardNext]_cardVars, LoopStep PROVE InHandOpen'
<1>0. RuntimeInv /\ External \in Actors /\ External \in Groups
  BY CardCast DEF CardInv, SagaInv
<1>1. PICK e : e = op[External].event
  OBVIOUS
<1>2. Writing(External) /\ ~At(External, "idle") /\ UNCHANGED <<attempt, requests, charged>>
  BY DEF LoopStep, ExternalStoreFails, PublishSent, PublishOther, ExternalPublishFails,
         externalVars, Writing, At
<1>3. op'[External] = After(e)
  <2>1. CASE PublishSent
    <3>1. PICK h \in Webhooks : \E w : op' = [op EXCEPT ![External] = After(e), ![h] = w]
      BY <1>1, <2>1 DEF PublishSent
    <3> QED BY <1>0, <3>1, CardCast DEF RuntimeInv, RuntimeTypeOK
  <2>2. CASE ExternalStoreFails \/ PublishOther \/ ExternalPublishFails
    <3>1. op' = [op EXCEPT ![External] = After(e)]
      BY <1>1, <2>2 DEF ExternalStoreFails, PublishOther, ExternalPublishFails
    <3> QED BY <1>0, <3>1 DEF RuntimeInv, RuntimeTypeOK
  <2> QED BY <2>1, <2>2 DEF LoopStep
<1>4. HandKept(External)
  <2>1. CASE ExternalStoreFails
    BY <1>0, <2>1, StillKeepsHands DEF ExternalStoreFails
  <2>2. CASE PublishSent \/ PublishOther \/ ExternalPublishFails
    <3>1. e \in Event /\ Send(e)
      BY <1>0, <1>1, <2>2
      DEF PublishSent, PublishOther, ExternalPublishFails, SendFails, RuntimeInv, BuiltOK
    <3> QED BY <1>0, <3>1, SendAppends DEF HandKept
  <2> QED BY <2>1, <2>2 DEF LoopStep
<1>5. Undecided' => e.type \in LoopTypes
  BY <1>3 DEF Undecided, Writing, At, After, LoopTypes
<1>6. Undecided' => Undecided
  BY <1>1, <1>2, <1>5 DEF Undecided
<1>7. Undecided' => e.type # "ExternalPaymentFailed"
  BY <1>5 DEF LoopTypes
<1> QED BY <1>1, <1>2, <1>4, <1>6, <1>7, SameHandOpen

LEMMA InHandOpenNext ==
  ASSUME CardInv, FlowInv, OnceInv, "crash" \notin FaultKinds, [CardNext]_cardVars
  PROVE  InHandOpen'
<1>0. RuntimeInv /\ External \in Actors /\ External \in Groups
  BY CardCast DEF CardInv, SagaInv
<1>1. CASE At(External, "idle")'
  BY <1>1 DEF InHandOpen, HandOpen, Undecided, Writing, At
<1>2. CASE ExternalReceive
  BY <1>2, ReceivedOpen
<1>3. CASE ExternalIgnore \/ ExternalCommit
  <2>1. At(External, "idle")'
    BY <1>0, <1>3
    DEF ExternalIgnore, Ignore, ExternalCommit, CommitMessage, Goto, At, RuntimeInv, RuntimeTypeOK
  <2> QED BY <1>1, <2>1
<1>4. CASE ProcessPayment
  BY <1>4, AttemptOpen
<1>5. CASE ExternalSave
  <2>1. /\ Save(External) /\ UNCHANGED <<attempt, requests, charged>>
        /\ HandKept(External) /\ At(External, "save")
        /\ op'[External] = [at |-> "publish", event |-> op[External].event]
    BY <1>0, <1>5, WritesKeepHands
    DEF ExternalSave, externalVars, Save, Goto, RuntimeInv, RuntimeTypeOK
  <2>2. Undecided' => op[External].event.type \in LoopTypes
    BY <2>1 DEF Undecided, Writing, At
  <2>3. Writing(External) /\ ~At(External, "idle")
    BY <2>1 DEF Writing, At
  <2>4. /\ Undecided' => Undecided
        /\ Undecided' => op[External].event.type # "ExternalPaymentFailed"
    BY <2>2, <2>3 DEF Undecided, LoopTypes
  <2> QED BY <2>1, <2>3, <2>4, SameHandOpen
<1>6. CASE LoopStep
  BY <1>6, LoopStepOpen
<1>7. CASE Elsewhere /\ ~At(External, "idle")'
  <2>1. /\ HandKept(External) /\ op'[External] = op[External] /\ ~At(External, "idle")
        /\ UNCHANGED <<attempt, requests, charged>>
    BY <1>7 DEF Elsewhere, externalVars, At
  <2>2. ~Save(External)
    BY <1>0, <2>1 DEF Save, Goto, At, RuntimeInv, RuntimeTypeOK
  <2>3. /\ At(External, "handle")' => At(External, "handle")
        /\ Writing(External)' => Writing(External)
        /\ Undecided' => Undecided
    BY <2>1 DEF Undecided, Writing, At
  <2> QED BY <2>1, <2>2, <2>3, SameHandOpen
<1> QED BY <1>1, <1>2, <1>3, <1>4, <1>5, <1>6, <1>7, ServiceMovesOrNot, NeverCrashes

OnceDelivered == DeliveredOnce => OnceInv

LEMMA OnceInit == CardInit => OnceDelivered
<1> SUFFICES ASSUME CardInit PROVE OnceInv
  BY DEF OnceDelivered
<1>1. \A a \in Actors : At(a, "idle") /\ ~At(a, "handle") /\ ~Writing(a) /\ ~At(a, "save")
  BY DEF CardInit, RuntimeInit, At, Writing
<1>2. \A q \in Partitions : Len(topic[q]) = 0
  BY EmptySeq DEF CardInit, RuntimeInit, BusInit
<1>3. \A p \in Payments : \A t : ~Recorded(p, t)
  BY CardCast, EmptySeq DEF CardInit, RuntimeInit, StoreInit, Recorded
<1>4. \A p \in Payments : requests[p] = 0
  BY DEF CardInit, ExternalInit
<1>5. AskedOnce /\ AskedByCall
  BY <1>2 DEF AskedOnce, AskedByCall
<1>6. UnreadUntried /\ RequestedLast
  BY <1>3, <1>4 DEF UnreadUntried, RequestedLast, Failed
<1>7. InHandOpen
  BY <1>1, CardCast DEF InHandOpen, HandOpen, Undecided
<1>8. TriedAsCounted
  <2>1. 0 <= MaxAttempts
    BY ExternalAssumption
  <2> QED BY <1>4, <2>1 DEF TriedAsCounted
<1> QED BY <1>5, <1>6, <1>7, <1>8 DEF OnceInv

LEMMA OnceNext == CardInv /\ FlowInv /\ OnceDelivered /\ [CardNext]_cardVars => OnceDelivered'
<1> SUFFICES ASSUME CardInv, FlowInv, OnceInv, DeliveredOnce, [CardNext]_cardVars PROVE OnceInv'
  BY DEF OnceDelivered, DeliveredOnce
<1>1. "crash" \notin FaultKinds /\ "duplicate" \notin FaultKinds
  BY DEF DeliveredOnce
<1> QED BY <1>1, AskedNext, UntriedNext, InHandOpenNext, RequestedLastNext DEF OnceInv

LEMMA OnceHolds == CardSpec => []OnceDelivered
<1> QED BY OnceInit, OnceNext, CardSpecInv, FlowHolds, PTL DEF CardSpec

(* As long as nothing is delivered twice, the gateway is asked for a       *)
(* payment at most MaxAttempts times, whatever events between the attempts *)
(* of the loop in service.go are not saved or not published and whatever   *)
(* offsets are not committed.                                              *)
THEOREM TriedAtMostMaxAttempts == CardSpec => []AttemptsBounded
<1>1. OnceDelivered => AttemptsBounded
  BY DEF OnceDelivered, OnceInv, TriedAsCounted, AttemptsBounded
<1> QED BY <1>1, OnceHolds, PTL

----
(* The refinement of the abstract payment.  The request, the charge and    *)
(* the failure of a card payment are steps of it, all else stutters; the   *)
(* step that completes it is never taken.                                  *)
Outcomes == [p \in Payments |-> Outcome(p)]

LEMMA SameStoreSameOutcomes == ASSUME UNCHANGED store PROVE Outcomes' = Outcomes
BY DEF Outcomes, Outcome, Recorded

(* The request in hand is in its payment's log.                            *)
LEMMA HandIsRecorded ==
  ASSUME CardInv, FlowInv, ~At(External, "idle")
  PROVE  Recorded(InHand(External).payment, "ExternalPaymentRequested")
<1>1. PICK m : m = InHand(External)
  OBVIOUS
<1>2. PICK q : q = current[External]
  OBVIOUS
<1>3. q \in Partitions /\ position[External][q] \in 1..Len(topic[q])
  BY <1>2, CardCast DEF CardInv, SagaInv, RuntimeInv, RuntimeTypeOK, OffsetsOK, HandOK
<1>4. m = topic[q][position[External][q]] /\ m.type = "ExternalPaymentRequested"
  BY <1>1, <1>2, RequestInHand DEF InHand
<1>5. Recorded(m.payment, m.type)
  BY <1>3, <1>4 DEF FlowInv, SavedFirst
<1> QED BY <1>1, <1>4, <1>5

(* What a save makes of the outcomes.                                      *)
LEMMA SaveOutcomes ==
  ASSUME RuntimeInv, NEW a \in Actors, Save(a), NEW e, e = op[a].event,
         e.type \in CardTypes, e.payment \in Payments
  PROVE  /\ \A p \in Payments \ {e.payment} : Outcome(p)' = Outcome(p)
         /\ e.type \notin {"ExternalPaymentRequested", "ExternalPaymentFailed"} => Outcomes' = Outcomes
<1>1. \A p \in Payments : \A t : Recorded(p, t)' <=> Recorded(p, t) \/ (p = e.payment /\ t = e.type)
  BY SaveRecords
<1>2. e.type # "ExternalPaymentCompleted"
  BY DEF CardTypes, LoopTypes, OutcomeTypes
<1>3. ASSUME NEW p \in Payments \ {e.payment} PROVE Outcome(p)' = Outcome(p)
  BY <1>1 DEF Outcome
<1>4. ASSUME e.type \notin {"ExternalPaymentRequested", "ExternalPaymentFailed"}
      PROVE  \A p \in Payments : Outcome(p)' = Outcome(p)
  BY <1>1, <1>2, <1>4 DEF Outcome
<1> QED BY <1>3, <1>4 DEF Outcomes

(* A call's save makes the payment, and no other save of a request does.   *)
LEMMA CallRefines ==
  ASSUME CardInv, FlowInv, NeverCompleted, OnceInv, NEW p \in Payments, Save(p),
         UNCHANGED charged
  PROVE  Lifecycle!Request(p)
<1>0. RuntimeInv /\ p \in Actors
  BY CardCast DEF CardInv, SagaInv
<1>1. PICK e : e = op[p].event
  OBVIOUS
<1>2. e.type = "ExternalPaymentRequested" /\ e.payment = p /\ e.type \in CardTypes
  BY <1>0, <1>1, CardCast DEF FlowInv, WritesOwn, Owns, Writing, Save
<1>3. ~Recorded(p, "ExternalPaymentRequested") /\ ~Recorded(p, "ExternalPaymentCompleted")
  BY DEF OnceInv, RequestedLast, NeverCompleted, Save
<1>4. ~Recorded(p, "ExternalPaymentFailed")
  <2>1. ~At(p, "done")
    BY DEF Save, At
  <2>2. Unread(p)
    <3> SUFFICES ASSUME NEW q \in Partitions, NEW i \in 1..position[External][q], IsRequest(q, i, p)
                 PROVE  FALSE
      BY DEF Unread
    <3>1. /\ position[External][q] \in Nat /\ Len(topic[q]) \in Nat
          /\ position[External][q] <= Len(topic[q])
      BY <1>0, CardCast, LenProperties DEF RuntimeInv, RuntimeTypeOK, OffsetsOK
    <3>2. i \in 1..Len(topic[q])
      BY <3>1
    <3> QED BY <2>1, <3>2 DEF OnceInv, AskedByCall
  <2> QED BY <2>2 DEF OnceInv, UnreadUntried, Failed
<1>5. \A t : Recorded(p, t)' <=> Recorded(p, t) \/ t = e.type
  BY <1>0, <1>1, <1>2, SaveRecords
<1>6. Outcome(p) = "NOT_FOUND" /\ Outcome(p)' = "PENDING"
  BY <1>2, <1>3, <1>4, <1>5 DEF Outcome
<1>7. \A x \in Payments \ {p} : Outcome(x)' = Outcome(x)
  BY <1>0, <1>1, <1>2, SaveOutcomes
<1>8. Outcomes[p] = "NOT_FOUND" /\ Outcomes' = [Outcomes EXCEPT ![p] = "PENDING"]
  BY <1>6, <1>7 DEF Outcomes
<1> QED BY <1>8 DEF Lifecycle!Request, Outcomes

(* A payment whose request is in hand is pending until it is decided.      *)
LEMMA UndecidedIsPending ==
  ASSUME CardInv, FlowInv, NeverCompleted, OnceInv, Undecided, NEW p, p = InHand(External).payment
  PROVE  /\ p \in Payments /\ Outcome(p) = "PENDING" /\ charged[p] = 0
         /\ Recorded(p, "ExternalPaymentRequested")
<1>1. ~At(External, "idle")
  BY DEF Undecided, Writing, At
<1>2. p \in Payments /\ Recorded(p, "ExternalPaymentRequested")
  BY <1>1, RequestInHand, HandIsRecorded
<1>3. ~Failed(p) /\ charged[p] = 0
  BY DEF OnceInv, InHandOpen, HandOpen
<1>4. ~Recorded(p, "ExternalPaymentCompleted")
  BY <1>2 DEF NeverCompleted
<1> QED BY <1>2, <1>3, <1>4 DEF Outcome, Failed

(* The gateway's acceptance takes the money.                               *)
LEMMA AttemptRefines ==
  ASSUME CardInv, FlowInv, NeverCompleted, OnceInv, ProcessPayment
  PROVE  \/ \E p \in Payments : Lifecycle!Take(p)
         \/ Outcomes' = Outcomes /\ charged' = charged
<1>1. PICK r : r = InHand(External)
  OBVIOUS
<1>2. At(External, "handle") /\ UNCHANGED store /\ charged \in [Payments -> Nat]
  BY DEF ProcessPayment, Build, CardInv, GatewayOK
<1>3. PICK p : p = r.payment
  OBVIOUS
<1>4. p \in Payments /\ Outcome(p) = "PENDING" /\ charged[p] = 0
  BY <1>1, <1>2, <1>3, UndecidedIsPending DEF Undecided
<1>5. PICK a \in GatewayAnswers :
        charged' = [charged EXCEPT ![p] = IF a = "SUCCESS" THEN @ + 1 ELSE @]
  BY <1>1, <1>3 DEF ProcessPayment
<1>6. Outcomes' = Outcomes
  BY <1>2, SameStoreSameOutcomes
<1>7. CASE a = "SUCCESS"
  <2>1. charged' = [charged EXCEPT ![p] = 1]
    BY <1>2, <1>4, <1>5, <1>7
  <2>2. Lifecycle!Take(p)
    BY <1>4, <1>6, <2>1 DEF Lifecycle!Take, Outcomes
  <2> QED BY <1>4, <2>2
<1>8. CASE a # "SUCCESS"
  BY <1>2, <1>4, <1>5, <1>6, <1>8
<1> QED BY <1>7, <1>8

(* The service's save of a failure fails the payment.                      *)
LEMMA FailureRefines ==
  ASSUME CardInv, FlowInv, NeverCompleted, OnceInv, Save(External), UNCHANGED charged
  PROVE  \/ \E p \in Payments : Lifecycle!Fail(p)
         \/ Outcomes' = Outcomes
<1>0. RuntimeInv /\ External \in Actors
  BY CardCast DEF CardInv, SagaInv
<1>1. PICK e : e = op[External].event
  OBVIOUS
<1>2. At(External, "save") /\ Writing(External)
  BY DEF Save, Writing
<1>3. e.payment = InHand(External).payment /\ e.payment \in Payments
      /\ e.type \in LoopTypes \cup OutcomeTypes
  BY <1>1, <1>2, LoopOwns
<1>4. e.type \in CardTypes
  BY <1>3 DEF CardTypes
<1>5. CASE e.type # "ExternalPaymentFailed"
  <2>1. e.type # "ExternalPaymentRequested"
    BY <1>3 DEF LoopTypes, OutcomeTypes
  <2> QED BY <1>0, <1>1, <1>3, <1>4, <1>5, <2>1, SaveOutcomes
<1>6. CASE e.type = "ExternalPaymentFailed"
  <2>1. PICK p : p = e.payment
    OBVIOUS
  <2>2. p \in Payments /\ Outcome(p) = "PENDING" /\ charged[p] = 0
    <3>1. Undecided
      BY <1>1, <1>2, <1>6 DEF Undecided
    <3> QED BY <1>3, <2>1, <3>1, UndecidedIsPending
  <2>3. Recorded(p, "ExternalPaymentFailed")'
    BY <1>0, <1>1, <1>3, <1>4, <1>6, <2>1, SaveRecords
  <2>4. Outcome(p)' = "FAILED"
    BY <2>3 DEF Outcome
  <2>5. \A x \in Payments \ {p} : Outcome(x)' = Outcome(x)
    BY <1>0, <1>1, <1>3, <1>4, <2>1, SaveOutcomes
  <2>6. Outcomes[p] = "PENDING" /\ Outcomes' = [Outcomes EXCEPT ![p] = "FAILED"]
    BY <2>2, <2>4, <2>5 DEF Outcomes
  <2>7. Lifecycle!Fail(p)
    BY <2>2, <2>6 DEF Lifecycle!Fail, Outcomes
  <2> QED BY <2>2, <2>7
<1> QED BY <1>5, <1>6

LEMMA CardStepRefines ==
  ASSUME CardInv, FlowInv, NeverCompleted, OnceInv, [CardNext]_cardVars
  PROVE  Lifecycle!LifecycleNext \/ (Outcomes' = Outcomes /\ charged' = charged)
<1>0. RuntimeInv
  BY DEF CardInv, SagaInv
<1>1. CASE ProcessPayment
  BY <1>1, AttemptRefines DEF Lifecycle!LifecycleNext
<1>2. ASSUME UNCHANGED charged, NEW a \in Actors, Save(a)
      PROVE  Lifecycle!LifecycleNext \/ Outcomes' = Outcomes
  <2>1. PICK e : e = op[a].event
    OBVIOUS
  <2>2. Owns(a, e) /\ e.type \in CardTypes /\ e.payment \in Payments
    BY <1>2, <2>1, CardCast DEF FlowInv, WritesOwn, Owns, Writing, Save
  <2>3. CASE a \in Payments
    BY <1>2, <2>3, CallRefines DEF Lifecycle!LifecycleNext
  <2>4. CASE a = External
    BY <1>2, <2>4, FailureRefines DEF Lifecycle!LifecycleNext
  <2>5. CASE a \notin Payments /\ a # External
    <3>1. e.type \notin {"ExternalPaymentRequested", "ExternalPaymentFailed"}
      BY <2>2, <2>5, CardCast DEF Owns, WrittenBy
    <3> QED BY <1>0, <1>2, <2>1, <2>2, <3>1, SaveOutcomes
  <2> QED BY <2>3, <2>4, <2>5
<1>3. CASE UNCHANGED charged
  <2>1. CASE UNCHANGED store
    BY <1>3, <2>1, SameStoreSameOutcomes
  <2> QED BY <1>2, <1>3, <2>1, CardStepWrites
<1> QED BY <1>1, <1>3, GatewayMoves

LEMMA CardInitRefines == CardInit => Lifecycle!LifecycleInit
<1> SUFFICES ASSUME CardInit PROVE Lifecycle!LifecycleInit
  OBVIOUS
<1>1. \A p \in Payments : \A t : ~Recorded(p, t)
  BY CardCast, EmptySeq DEF CardInit, RuntimeInit, StoreInit, Recorded
<1> QED BY <1>1 DEF CardInit, ExternalInit, Outcome, Lifecycle!LifecycleInit

(* As long as nothing is delivered twice, a card payment is the abstract   *)
(* payment: it is requested once, the card is charged at most once and     *)
(* only while the payment is pending, and it fails only without a charge   *)
(* and stays failed - whatever publications, inserts and commits fail.     *)
THEOREM CardImplementsLifecycle ==
  ASSUME {"crash", "duplicate"} \cap FaultKinds = {}
  PROVE  CardSpec => ImplementsLifecycle
<1>1. CardInit => Lifecycle!LifecycleInit
  BY CardInitRefines
<1>2. CardInv /\ FlowInv /\ NeverCompleted /\ OnceDelivered /\ [CardNext]_cardVars
        => [Lifecycle!LifecycleNext]_Lifecycle!lifecycleVars
  BY CardStepRefines DEF OnceDelivered, DeliveredOnce, Lifecycle!lifecycleVars, Outcomes
<1> QED BY <1>1, <1>2, CardSpecInv, FlowHolds, CardPaymentsNeverComplete, OnceHolds, PTL
        DEF CardSpec, ImplementsLifecycle, Lifecycle!LifecycleSpec

----
(* The pauses of the retry loop.  InitialDelay doubled k times, by         *)
(* induction on k.                                                         *)
LEMMA DoubledStarts ==
  /\ Doubled[0] = InitialDelay
  /\ \A k \in 1..MaxAttempts : Doubled[k] = 2 * Doubled[k - 1]
<1> DEFINE Run(n, f) == f = [k \in 0..n |-> IF k = 0 THEN InitialDelay ELSE 2 * f[k - 1]]
           T == {n \in Nat : \E f : Run(n, f)}
<1>1. T = Nat
  <2>1. 0 \in T
    <3>1. Run(0, [k \in {0} |-> InitialDelay])
      OBVIOUS
    <3> QED BY <3>1
  <2>2. ASSUME NEW n \in T PROVE n + 1 \in T
    <3>1. PICK f : Run(n, f)
      BY <2>2
    <3> DEFINE g == [k \in 0..(n + 1) |-> IF k = n + 1 THEN 2 * f[n] ELSE f[k]]
    <3>2. \A k \in 0..(n + 1) : g[k] = IF k = 0 THEN InitialDelay ELSE 2 * g[k - 1]
      BY <2>2, <3>1
    <3>3. Run(n + 1, g)
      BY <3>2
    <3>4. \E h : Run(n + 1, h)
      <4> HIDE DEF g
      <4> QED BY <3>3
    <3> QED BY <3>4
  <2> HIDE DEF T
  <2> QED BY <2>1, <2>2, SetInduction DEF T
<1>2. \E f : Run(MaxAttempts, f)
  BY <1>1, ExternalAssumption
<1>3. Doubled = CHOOSE f : Run(MaxAttempts, f)
  BY DEF Doubled
<1>4. Run(MaxAttempts, Doubled)
  BY <1>2, <1>3
<1> QED BY <1>4, ExternalAssumption

LEMMA DoubledIsNat == \A k \in 0..MaxAttempts : Doubled[k] \in Nat
<1> DEFINE T == {k \in Nat : k <= MaxAttempts => Doubled[k] \in Nat}
<1>1. 0 \in T
  BY DoubledStarts, ExternalAssumption
<1>2. ASSUME NEW k \in T PROVE k + 1 \in T
  <2>1. k \in Nat /\ (k <= MaxAttempts => Doubled[k] \in Nat)
    BY <1>2
  <2>2. CASE k + 1 <= MaxAttempts
    <3>1. k + 1 \in 1..MaxAttempts /\ k <= MaxAttempts
      BY <2>1, <2>2, ExternalAssumption
    <3>2. Doubled[k + 1] = 2 * Doubled[(k + 1) - 1] /\ (k + 1) - 1 = k
      BY <2>1, <3>1, DoubledStarts
    <3>3. Doubled[k + 1] = 2 * Doubled[k]
      BY <3>2
    <3>4. Doubled[k + 1] \in Nat
      BY <2>1, <3>1, <3>3
    <3> QED BY <2>1, <3>4
  <2> QED BY <2>1, <2>2
<1>3. T = Nat
  <2> HIDE DEF T
  <2> QED BY <1>1, <1>2, SetInduction DEF T
<1> QED BY <1>3, ExternalAssumption

(* The same of the longest pause the jitters allow.                        *)
LEMMA LengthenedStarts ==
  /\ Lengthened[0] = InitialDelay
  /\ \A k \in 1..MaxAttempts : Lengthened[k] = (22 * Lengthened[k - 1]) \div 10
<1> DEFINE Run(n, f) == f = [k \in 0..n |-> IF k = 0 THEN InitialDelay ELSE (22 * f[k - 1]) \div 10]
           T == {n \in Nat : \E f : Run(n, f)}
<1>1. T = Nat
  <2>1. 0 \in T
    <3>1. Run(0, [k \in {0} |-> InitialDelay])
      OBVIOUS
    <3> QED BY <3>1
  <2>2. ASSUME NEW n \in T PROVE n + 1 \in T
    <3>1. PICK f : Run(n, f)
      BY <2>2
    <3> DEFINE g == [k \in 0..(n + 1) |-> IF k = n + 1 THEN (22 * f[n]) \div 10 ELSE f[k]]
    <3>2. \A k \in 0..(n + 1) : g[k] = IF k = 0 THEN InitialDelay ELSE (22 * g[k - 1]) \div 10
      BY <2>2, <3>1
    <3>3. Run(n + 1, g)
      BY <3>2
    <3>4. \E h : Run(n + 1, h)
      <4> HIDE DEF g
      <4> QED BY <3>3
    <3> QED BY <3>4
  <2> HIDE DEF T
  <2> QED BY <2>1, <2>2, SetInduction DEF T
<1>2. \E f : Run(MaxAttempts, f)
  BY <1>1, ExternalAssumption
<1>3. Lengthened = CHOOSE f : Run(MaxAttempts, f)
  BY DEF Lengthened
<1>4. Run(MaxAttempts, Lengthened)
  BY <1>2, <1>3
<1> QED BY <1>4, ExternalAssumption

LEMMA LengthenedIsNat == \A k \in 0..MaxAttempts : Lengthened[k] \in Nat
<1> DEFINE T == {k \in Nat : k <= MaxAttempts => Lengthened[k] \in Nat}
<1>1. 0 \in T
  BY LengthenedStarts, ExternalAssumption
<1>2. ASSUME NEW k \in T PROVE k + 1 \in T
  <2>1. k \in Nat /\ (k <= MaxAttempts => Lengthened[k] \in Nat)
    BY <1>2
  <2>2. CASE k + 1 <= MaxAttempts
    <3>1. k + 1 \in 1..MaxAttempts /\ k <= MaxAttempts
      BY <2>1, <2>2, ExternalAssumption
    <3>2. Lengthened[k + 1] = (22 * Lengthened[(k + 1) - 1]) \div 10 /\ (k + 1) - 1 = k
      BY <2>1, <3>1, LengthenedStarts
    <3>3. Lengthened[k + 1] = (22 * Lengthened[k]) \div 10
      BY <3>2
    <3>4. Lengthened[k + 1] \in Nat
      BY <2>1, <3>1, <3>3
    <3> QED BY <2>1, <3>4
  <2> QED BY <2>1, <2>2
<1>3. T = Nat
  <2> HIDE DEF T
  <2> QED BY <1>1, <1>2, SetInduction DEF T
<1> QED BY <1>3, ExternalAssumption

(* The pause ahead follows k others.                                       *)
Capped(d) == IF d > MaxDelay THEN MaxDelay ELSE d

PauseFollows(k) ==
  /\ delay >= Capped(Doubled[k])
  /\ delay <= Lengthened[k]
  /\ delay < LongestDelay

PauseOK ==
  /\ At(External, "handle") => PauseFollows(attempt)
  /\ op[External].event.type \in LoopTypes =>
       Writing(External) /\ attempt > 0 /\ PauseFollows(attempt - 1)

LEMMA NextPauseFollows ==
  ASSUME DelayOK, NEW k \in 0..(MaxAttempts - 1), PauseFollows(k), NEW d \in NextDelays(delay)
  PROVE  d >= Capped(Doubled[k + 1]) /\ d <= Lengthened[k + 1] /\ d < LongestDelay
<1>1. /\ MaxAttempts \in Nat /\ MaxDelay \in Nat /\ 10 <= MaxDelay
      /\ InitialDelay \in Nat /\ 5 <= InitialDelay /\ delay \in Nat /\ InitialDelay <= delay
  BY ExternalAssumption DEF DelayOK, LongestDelay
<1>2. PICK x \in Nat : x = Doubled[k]
  <2>1. k \in 0..MaxAttempts
    BY <1>1
  <2> QED BY <2>1, DoubledIsNat
<1>3. Doubled[k + 1] = 2 * x
  <2>1. k + 1 \in 1..MaxAttempts /\ (k + 1) - 1 = k
    BY <1>1
  <2> QED BY <1>2, <2>1, DoubledStarts
<1>4. PICK capped \in Nat : capped = Capped(2 * delay)
  BY <1>1 DEF Capped
<1>5. PICK jitter \in 0..(capped \div 10 - 1) : d = capped + jitter
  BY <1>4 DEF NextDelays, Capped
<1>6. capped >= Capped(2 * x)
  BY <1>1, <1>2, <1>4 DEF PauseFollows, Capped
<1>7. capped <= MaxDelay /\ capped \div 10 <= MaxDelay \div 10
      /\ capped \div 10 \in Nat /\ MaxDelay \div 10 \in Nat
  BY <1>1, <1>4 DEF Capped
<1>8. d < LongestDelay
  BY <1>1, <1>5, <1>7 DEF LongestDelay
<1>9. d >= capped
  BY <1>5
<1>10. Capped(2 * x) \in Nat
  BY <1>1 DEF Capped
<1>11. d <= Lengthened[k + 1]
  <2>1. k \in 0..MaxAttempts /\ k + 1 \in 1..MaxAttempts /\ (k + 1) - 1 = k
    BY <1>1
  <2>2. PICK y \in Nat : y = Lengthened[k]
    BY <2>1, LengthenedIsNat
  <2>3. Lengthened[k + 1] = (22 * y) \div 10 /\ delay <= y
    BY <2>1, <2>2, LengthenedStarts DEF PauseFollows
  <2>4. capped <= 2 * y
    BY <1>1, <1>4, <2>2, <2>3 DEF Capped
  <2>5. 10 * jitter <= capped
    BY <1>4, <1>5
  <2>6. 10 * d <= 22 * y
    BY <1>4, <1>5, <2>2, <2>4, <2>5
  <2> QED BY <1>4, <1>5, <2>2, <2>3, <2>6
<1> QED BY <1>3, <1>5, <1>6, <1>8, <1>9, <1>10, <1>11

LEMMA NoEventEndsLoop == NoEvent.type \notin LoopTypes
BY DEF NoEvent, NewBaseEvent, NewBalanceEvent, LoopTypes

(* Steps that leave the consumer no attempt and no event of its loop.      *)
LEMMA PauseOver ==
  ASSUME op'[External].at # "handle", op'[External].event.type \notin LoopTypes PROVE PauseOK'
BY DEF PauseOK, At

(* The loop goes on from event e.                                          *)
LEMMA LoopStepPauses == ASSUME CardInv, DelayOK, PauseOK, LoopStep PROVE PauseOK'
<1>0. RuntimeInv /\ External \in Actors /\ attempt \in 0..MaxAttempts /\ MaxAttempts \in Nat \ {0}
  BY CardCast, ExternalAssumption DEF CardInv, SagaInv, CounterOK
<1>1. PICK e : e = op[External].event
  OBVIOUS
<1>2. Writing(External) /\ attempt' = attempt
  BY DEF LoopStep, ExternalStoreFails, PublishSent, PublishOther, ExternalPublishFails,
         externalVars, Writing
<1>3. CASE PublishSent
  <2>1. PICK h \in Webhooks : \E w : op' = [op EXCEPT ![External] = After(e), ![h] = w]
    BY <1>1, <1>3 DEF PublishSent
  <2>2. op'[External] = After(e)
    BY <1>0, <2>1, CardCast DEF RuntimeInv, RuntimeTypeOK
  <2>3. After(e) = [at |-> "commit", event |-> NoEvent]
    BY <1>1, <1>3 DEF PublishSent, After
  <2> QED BY <2>2, <2>3, NoEventEndsLoop, PauseOver
<1>4. CASE ExternalStoreFails \/ PublishOther \/ ExternalPublishFails
  <2>1. op' = [op EXCEPT ![External] = After(e)] /\ PauseAfter(e)
    BY <1>1, <1>4 DEF ExternalStoreFails, PublishOther, ExternalPublishFails
  <2>2. op'[External] = After(e)
    BY <1>0, <2>1 DEF RuntimeInv, RuntimeTypeOK
  <2>3. CASE e.type = "PaymentGatewayTimeout"
    <3>1. attempt > 0 /\ PauseFollows(attempt - 1)
      BY <1>1, <2>3 DEF PauseOK, LoopTypes
    <3>2. delay' = delay
      BY <2>1, <2>3 DEF PauseAfter
    <3>3. PauseFollows(attempt - 1)'
      BY <1>2, <3>1, <3>2 DEF PauseFollows, Capped, LongestDelay
    <3>4. op'[External].at = "save"
      BY <2>2, <2>3 DEF After
    <3>5. At(External, "handle")' = FALSE /\ Writing(External)'
      BY <3>4 DEF At, Writing
    <3> QED BY <1>2, <3>1, <3>3, <3>5 DEF PauseOK
  <2>4. CASE e.type = "PaymentRetryRequested"
    <3>1. attempt > 0 /\ PauseFollows(attempt - 1)
      BY <1>1, <2>4 DEF PauseOK, LoopTypes
    <3>2. delay' \in NextDelays(delay)
      BY <2>1, <2>4 DEF PauseAfter
    <3>3. attempt - 1 \in 0..(MaxAttempts - 1) /\ (attempt - 1) + 1 = attempt
      BY <1>0, <3>1
    <3>4. delay' >= Capped(Doubled[attempt]) /\ delay' <= Lengthened[attempt] /\ delay' < LongestDelay
      BY <3>1, <3>2, <3>3, NextPauseFollows
    <3>5. PauseFollows(attempt)'
      BY <1>2, <3>4 DEF PauseFollows, Capped, LongestDelay
    <3>6. op'[External] = [at |-> "handle", event |-> NoEvent]
      BY <2>2, <2>4 DEF After
    <3> QED BY <3>5, <3>6, NoEventEndsLoop DEF PauseOK
  <2>5. CASE e.type \notin LoopTypes
    <3>1. op'[External] = [at |-> "commit", event |-> NoEvent]
      BY <2>2, <2>5 DEF After, LoopTypes
    <3> QED BY <3>1, NoEventEndsLoop, PauseOver
  <2> QED BY <2>3, <2>4, <2>5 DEF LoopTypes
<1> QED BY <1>3, <1>4 DEF LoopStep

LEMMA PauseNext == CardInv /\ DelayOK /\ PauseOK /\ [CardNext]_cardVars => PauseOK'
<1> SUFFICES ASSUME CardInv, DelayOK, PauseOK, [CardNext]_cardVars PROVE PauseOK'
  OBVIOUS
<1>0. RuntimeInv /\ External \in Actors /\ External \in Groups /\ attempt \in Nat
  BY CardCast, ExternalAssumption DEF CardInv, SagaInv, CounterOK
<1>1. ASSUME NEW step, NEW f, Goto(External, step, f)
      PROVE  op'[External] = [at |-> step, event |-> f]
  BY <1>0, <1>1 DEF Goto, RuntimeInv, RuntimeTypeOK
<1>2. CASE ExternalReceive
  <2>1. Goto(External, "handle", NoEvent) /\ attempt' = 0 /\ delay' = InitialDelay
    BY <1>2 DEF ExternalReceive, Receive
  <2>2. op'[External] = [at |-> "handle", event |-> NoEvent]
    BY <1>1, <2>1
  <2>3. InitialDelay >= Capped(Doubled[0]) /\ InitialDelay <= Lengthened[0]
    BY DoubledStarts, LengthenedStarts, ExternalAssumption DEF Capped
  <2>4. InitialDelay < LongestDelay
    BY ExternalAssumption DEF LongestDelay
  <2>5. PauseFollows(attempt)'
    BY <2>1, <2>3, <2>4 DEF PauseFollows, Capped, LongestDelay
  <2> QED BY <2>2, <2>5, NoEventEndsLoop DEF PauseOK
<1>3. CASE ExternalIgnore \/ Elsewhere
  <2>1. op'[External] = op[External] /\ UNCHANGED <<attempt, delay>>
    BY <1>3 DEF ExternalIgnore, Ignore, Elsewhere, externalVars
  <2>2. \A k : PauseFollows(k)' = PauseFollows(k)
    BY <2>1 DEF PauseFollows, Capped, LongestDelay
  <2> QED BY <2>1, <2>2 DEF PauseOK, At, Writing
<1>4. CASE ProcessPayment
  <2>1. PICK f : Goto(External, "save", f)
    BY <1>4 DEF ProcessPayment, Build
  <2>2. op'[External] = [at |-> "save", event |-> f]
    BY <1>1, <2>1
  <2>3. attempt' = attempt + 1 /\ delay' = delay /\ PauseFollows(attempt)
    BY <1>4 DEF ProcessPayment, PauseOK
  <2>4. attempt' - 1 = attempt /\ attempt' > 0
    BY <1>0, <2>3
  <2>5. PauseFollows(attempt - 1)'
    BY <2>3, <2>4 DEF PauseFollows, Capped, LongestDelay
  <2> QED BY <2>2, <2>4, <2>5 DEF PauseOK, At, Writing
<1>5. CASE ExternalSave
  <2>1. /\ Goto(External, "publish", op[External].event) /\ At(External, "save")
        /\ UNCHANGED <<attempt, delay>>
    BY <1>5 DEF ExternalSave, Save, externalVars
  <2>2. op'[External] = [at |-> "publish", event |-> op[External].event]
    BY <1>1, <2>1
  <2>3. \A k : PauseFollows(k)' = PauseFollows(k)
    BY <2>1 DEF PauseFollows, Capped, LongestDelay
  <2> QED BY <2>1, <2>2, <2>3 DEF PauseOK, At, Writing
<1>6. CASE LoopStep
  BY <1>6, LoopStepPauses
<1>7. CASE ExternalCommit
  <2>1. op'[External] = [at |-> "idle", event |-> NoEvent]
    BY <1>1, <1>7 DEF ExternalCommit, CommitMessage
  <2> QED BY <2>1, NoEventEndsLoop, PauseOver
<1>8. CASE ExternalCrash
  <2>1. op'[External] = [at |-> "idle", event |-> NoEvent]
    BY <1>0, <1>8, CrashEnds DEF ExternalCrash
  <2> QED BY <2>1, NoEventEndsLoop, PauseOver
<1> QED BY <1>2, <1>3, <1>4, <1>5, <1>6, <1>7, <1>8, ServiceMovesOrNot

LEMMA PauseInit == CardInit => PauseOK
<1> SUFFICES ASSUME CardInit PROVE PauseOK
  OBVIOUS
<1>1. op[External] = [at |-> "idle", event |-> NoEvent]
  BY CardCast DEF CardInit, RuntimeInit
<1> QED BY <1>1, NoEventEndsLoop DEF PauseOK, At

(* The pauses follow the policy, for every initial delay, cap and number   *)
(* of attempts: the jitter the loop of service.go adds to one pause, and   *)
(* which the next doubles, takes none below the doubled initial delay or   *)
(* the cap, lengthens none by more than a tenth for each time it was       *)
(* added, and takes none to a tenth above the cap.                         *)
THEOREM PausesDouble == CardSpec => []PausesFollowPolicy
<1>1. CardInv /\ PauseOK => PausesFollowPolicy
  <2> SUFFICES ASSUME CardInv, PauseOK,
                      At(External, "handle") \/ op[External].event.type \in LoopTypes
               PROVE  PauseFollows(PausesMade)
    BY DEF PausesFollowPolicy, PauseFollows, Capped, LoopTypes
  <2>1. CASE At(External, "handle")
    BY <2>1 DEF PausesMade, PauseOK
  <2>2. CASE ~At(External, "handle")
    BY <2>2 DEF PausesMade, PauseOK
  <2> QED BY <2>1, <2>2
<1> QED BY <1>1, PauseInit, PauseNext, CardSpecInv, DelayBounded, PTL DEF CardSpec

=============================================================================
