-------------------------- MODULE OrchestratorProofs --------------------------
(***************************************************************************)
(* Lemmas about the orchestrator: how the saga it rebuilds goes through a  *)
(* payment's log and which answers that saga refuses, that what it builds  *)
(* is an event of the payment it has in hand, and that its steps leave the *)
(* other consumers alone.                                                  *)
(***************************************************************************)
EXTENDS Orchestrator, ServiceRuntimeProofs

HandIsAnswer == ~At(Orchestrator, "idle") => InHand(Orchestrator).type \in HandledTypes

SagaInv == RuntimeInv /\ HandIsAnswer

----
(* The saga rebuilt from the first n events of a log moves with event n,   *)
(* as the loop of the code does.                                           *)
LEMMA StateBeforeFirst ==
  ASSUME NEW log \in Seq(Event)
  PROVE  StateBefore(log, 1) = "INITIALIZED"
<1>1. {i \in Moves(log) : i < 1} = {}
  BY LenProperties DEF Moves
<1> QED BY <1>1 DEF StateBefore

LEMMA StateBeforeNext ==
  ASSUME NEW log \in Seq(Event), NEW n \in 1..Len(log)
  PROVE  StateBefore(log, n + 1) =
           IF log[n].type \in MovingTypes THEN Target[log[n].type] ELSE StateBefore(log, n)
<1> DEFINE earlier(k) == {i \in Moves(log) : i < k}
<1>1. Moves(log) \subseteq 1..Len(log) /\ Len(log) \in Nat /\ DOMAIN log = 1..Len(log)
  BY LenProperties DEF Moves
<1>2. CASE log[n].type \in MovingTypes
  <2>1. n \in earlier(n + 1) /\ earlier(n + 1) \in SUBSET (1..n)
    BY <1>1, <1>2 DEF Moves
  <2>2. Max(earlier(n + 1)) = n
    <3> HIDE DEF earlier
    <3>1. n \in Nat
      BY <1>1
    <3>2. Max(earlier(n + 1)) \in earlier(n + 1) /\ Max(earlier(n + 1)) >= n
      BY <2>1, <3>1, MaxIsMember
    <3> QED BY <2>1, <3>1, <3>2
  <2> QED BY <1>2, <2>1, <2>2 DEF StateBefore
<1>3. CASE log[n].type \notin MovingTypes
  <2>1. earlier(n + 1) = earlier(n)
    BY <1>1, <1>3 DEF Moves
  <2> QED BY <1>3, <2>1 DEF StateBefore
<1> QED BY <1>2, <1>3

(* After a move the next one, if there is any, starts where it ended.      *)
LEMMA NextMoveStarts ==
  ASSUME NEW log \in Seq(Event), NEW i \in Moves(log), NEW j \in Moves(log), i < j
  PROVE  \E n \in Moves(log) :
           i < n /\ n <= j /\ StateBefore(log, n) = Target[log[i].type]
<1>1. Moves(log) \subseteq 1..Len(log) /\ Len(log) \in Nat
  BY LenProperties DEF Moves
<1> DEFINE later == {n \in Moves(log) : i < n}
<1>2. later \in SUBSET Nat /\ j \in later
  BY <1>1
<1>3. PICK n \in later : \A m \in later : n <= m
  BY <1>2, MinIsMember
<1> DEFINE earlier == {m \in Moves(log) : m < n}
<1>4. i \in earlier /\ earlier \in SUBSET (1..Len(log)) /\ \A m \in earlier : m <= i
  BY <1>1, <1>3
<1>5. Max(earlier) = i
  <2> HIDE DEF earlier
  <2>1. PICK x : x = Max(earlier)
    OBVIOUS
  <2>2. x \in earlier /\ x >= i /\ x <= i
    BY <1>1, <1>4, <2>1, MaxIsMember
  <2>3. x \in Nat /\ i \in Nat
    BY <1>1, <1>4, <2>2
  <2> QED BY <2>1, <2>2, <2>3
<1>6. StateBefore(log, n) = Target[log[i].type]
  BY <1>4, <1>5 DEF StateBefore
<1> QED BY <1>1, <1>2, <1>3, <1>6

(* A response that is in a payment's log has moved its saga already: it is *)
(* not accepted a second time.                                             *)
LEMMA ResponseRefused ==
  ASSUME NEW log \in Seq(Event), NEW k \in DOMAIN log, log[k].type = "PaymentGatewayResponse",
         NEW m, m.type = "PaymentGatewayResponse"
  PROVE  ~Accepts(m, log)
<1> SUFFICES ASSUME MovesAllowed(log), CanTransitionTo(StateOf(log), "AWAITING_RESPONSE")
             PROVE  FALSE
  <2>1. Target[m.type] = "AWAITING_RESPONSE"
    BY DEF Target
  <2> QED BY <2>1 DEF Accepts, CanRebuild
<1>1. Moves(log) \in SUBSET (1..Len(log)) /\ Len(log) \in Nat /\ DOMAIN log = 1..Len(log)
  BY LenProperties DEF Moves
<1>2. k \in Moves(log) /\ Target[log[k].type] = "AWAITING_RESPONSE"
  BY DEF Moves, MovingTypes, Target
<1>3. PICK j \in Moves(log) : (\A i \in Moves(log) : i <= j) /\ StateOf(log) = Target[log[j].type]
  <2>1. {i \in Moves(log) : i < Len(log) + 1} = Moves(log)
    BY <1>1
  <2>2. StateOf(log) = Target[log[Max(Moves(log))].type]
    BY <1>2, <2>1 DEF StateOf, StateBefore
  <2>3. Max(Moves(log)) \in Moves(log) /\ \A i \in Moves(log) : Max(Moves(log)) >= i
    BY <1>1, <1>2, MaxIsMember
  <2> QED BY <1>1, <2>2, <2>3
<1>4. Target[log[j].type] = "SENT_TO_GATEWAY"
  <2>1. log[j].type \in DOMAIN Target
    BY DEF Moves, MovingTypes
  <2> QED BY <1>3, <2>1 DEF Target, CanTransitionTo, ValidTransitions
<1>5. k < j
  BY <1>1, <1>2, <1>3, <1>4
<1>6. PICK n \in Moves(log) : k < n /\ n <= j /\ StateBefore(log, n) = "AWAITING_RESPONSE"
  BY <1>2, <1>5, NextMoveStarts
<1>7. Target[log[n].type] \in TerminalStates
  BY <1>6 DEF MovesAllowed, CanTransitionTo, ValidTransitions, TerminalStates
<1>8. n < j
  BY <1>1, <1>4, <1>6, <1>7 DEF TerminalStates
<1>9. PICK l \in Moves(log) : StateBefore(log, l) = Target[log[n].type]
  BY <1>8, NextMoveStarts
<1> QED BY <1>7, <1>9 DEF MovesAllowed, CanTransitionTo, ValidTransitions, TerminalStates

(* A log that begins with a request is of the request's user.              *)
LEMMA FirstRequestOwns ==
  ASSUME NEW log \in Seq(Event), log # <<>>, log[1].type \in RequestTypes
  PROVE  Requests(log) # {} /\ Min(Requests(log)) = 1
<1>1. 1 \in DOMAIN log /\ DOMAIN log = 1..Len(log) /\ Len(log) \in Nat
  BY EmptySeq, LenProperties
<1>2. 1 \in Requests(log) /\ Requests(log) \in SUBSET Nat /\ \A i \in Requests(log) : i >= 1
  BY <1>1 DEF Requests
<1> QED BY <1>2, MinIsMember

(* The owner of a log that can be rebuilt is a user.                       *)
LEMMA OwnerIsUser ==
  ASSUME NEW log \in Seq(Event), CanRebuild(log)
  PROVE  log[Min(Requests(log))].user \in Users
<1>1. Requests(log) # {} /\ Requests(log) \in SUBSET Nat
  BY LenProperties DEF CanRebuild, HasOwner, Requests
<1>2. Min(Requests(log)) \in DOMAIN log
  BY <1>1, MinIsMember DEF Requests
<1>3. log[Min(Requests(log))] \in Event
  BY <1>2, ElementOfSeq, LenProperties
<1> QED BY <1>3 DEF Event

(* The event that concludes a payment is one.                              *)
LEMMA ConclusionIsEvent ==
  ASSUME NEW m \in Event, m.type \in HandledTypes, NEW u \in Users
  PROVE  Conclusion(m, u) \in Event
<1>1. m.payment \in Payments /\ m.amount \in Nat
  BY DEF Event, HandledTypes, ProcessedTypes, DecodedTypes
<1> USE DEF Event, EventTypes
<1>2. CASE m.type = "FundsDebited"
  <2>1. Conclusion(m, u) =
          [type |-> "WalletPaymentCompleted", payment |-> m.payment, user |-> u,
           amount |-> m.amount, before |-> 0, after |-> 0, success |-> TRUE]
    BY <1>2 DEF Conclusion, NewWalletPaymentCompleted, NewBaseEvent, NewBalanceEvent
  <2> QED BY <1>1, <2>1
<1>3. CASE m.type = "FundsInsufficient"
  <2>1. Conclusion(m, u) =
          [type |-> "WalletPaymentFailed", payment |-> m.payment, user |-> u,
           amount |-> m.amount, before |-> 0, after |-> 0, success |-> TRUE]
    BY <1>3 DEF Conclusion, NewWalletPaymentFailed, NewBaseEvent, NewBalanceEvent
  <2> QED BY <1>1, <2>1
<1>4. CASE m.type = "PaymentGatewayResponse"
  <2>1. CASE m.success
    <3>1. Conclusion(m, u) =
            [type |-> "ExternalPaymentCompleted", payment |-> m.payment, user |-> u,
             amount |-> 0, before |-> 0, after |-> 0, success |-> TRUE]
      BY <1>4, <2>1 DEF Conclusion, NewExternalPaymentCompleted, NewBaseEvent, NewBalanceEvent
    <3> QED BY <1>1, <3>1
  <2>2. CASE ~m.success
    <3>1. Conclusion(m, u) =
            [type |-> "ExternalPaymentFailed", payment |-> m.payment, user |-> u,
             amount |-> 0, before |-> 0, after |-> 0, success |-> FALSE]
      BY <1>4, <2>2 DEF Conclusion, NewExternalPaymentFailed, NewVerdictEvent
    <3> QED BY <1>1, <3>1
  <2> QED BY <2>1, <2>2
<1> QED BY <1>2, <1>3, <1>4 DEF HandledTypes, ProcessedTypes, DecodedTypes

(* A request of the HTTP calls is an event.                                *)
LEMMA RequestIsEvent ==
  ASSUME NEW p \in Payments, NEW u \in Users, NEW a \in Amounts
  PROVE  /\ NewWalletPaymentRequested(p, u, a) \in Event
         /\ NewExternalPaymentRequested(p, u, a) \in Event
BY EventsAssumption
DEF NewWalletPaymentRequested, NewExternalPaymentRequested, NewBaseEvent, NewBalanceEvent,
    Event, EventTypes

----
(* The orchestrator's own steps.                                           *)
LEMMA AnswerStep == ASSUME SagaInv, HandleAnswer PROVE SagaInv'
<1> DEFINE m == InHand(Orchestrator)
           e == Conclusion(m, store[m.payment][Min(Requests(store[m.payment]))].user)
<1>1. RuntimeInv /\ Orchestrator \in Groups /\ ~At(Orchestrator, "idle")
  BY OrchestratorAssumption DEF SagaInv, HandleAnswer, At
<1>2. m \in Event /\ m.type \in HandledTypes /\ m.payment \in Payments
  <2>1. m \in Event /\ m.type \in HandledTypes
    BY <1>1, InHandIsEvent DEF SagaInv, HandIsAnswer
  <2> QED BY <2>1 DEF Event, HandledTypes, ProcessedTypes, DecodedTypes
<1>3. RuntimeInv' /\ UNCHANGED busVars
  <2>1. CASE Accepts(m, store[m.payment])
    <3>1. store[m.payment] \in Seq(Event)
      BY <1>1, <1>2 DEF RuntimeInv, RuntimeTypeOK, Aggregates
    <3>2. e \in Event
      BY <1>2, <2>1, <3>1, OwnerIsUser, ConclusionIsEvent DEF Accepts
    <3>3. Build(Orchestrator, e)
      BY <2>1 DEF HandleAnswer, LoadEvents
    <3> HIDE DEF e, m
    <3>4. Orchestrator \in Actors /\ UNCHANGED busVars
      BY <1>1, <3>3 DEF Actors, Build
    <3> QED BY <1>1, <3>2, <3>3, <3>4, BuildKeepsInv
  <2>2. CASE ~Accepts(m, store[m.payment])
    <3>1. Refuse(Orchestrator)
      BY <2>2 DEF HandleAnswer, LoadEvents
    <3> QED BY <1>1, <3>1, RefuseKeepsInv DEF Refuse
  <2> QED BY <2>1, <2>2
<1>4. InHand(Orchestrator)' = InHand(Orchestrator)
  BY <1>3 DEF InHand, busVars
<1> QED BY <1>2, <1>3, <1>4 DEF SagaInv, HandIsAnswer

(* What a step leaves of the message consumer g has in hand, if it leaves  *)
(* g's place in the topic.                                                 *)
LEMMA SagaHandKept ==
  ASSUME SagaInv, RuntimeInv', HandKept(Orchestrator) PROVE SagaInv'
BY HandSame, OrchestratorAssumption DEF SagaInv, HandIsAnswer

LEMMA SagaStepInv == ASSUME SagaInv, SagaStep PROVE SagaInv'
<1>1. Orchestrator \in Groups /\ Orchestrator \in Actors /\ SagaActors \subseteq Actors /\ RuntimeInv
  BY OrchestratorAssumption DEF SagaActors, Actors, Calls, SagaInv
<1>2. CASE SagaReceive
  BY <1>1, <1>2, ReceiveKeepsInv, ReceiveHands DEF SagaReceive, SagaInv, HandIsAnswer
<1>3. CASE SagaIgnore
  <2>1. RuntimeInv' /\ At(Orchestrator, "idle")'
    BY <1>1, <1>3, IgnoreKeepsInv DEF SagaIgnore, Ignore, At
  <2> QED BY <2>1 DEF SagaInv, HandIsAnswer
<1>4. CASE HandleAnswer
  BY <1>4, AnswerStep
<1>5. ASSUME NEW a \in SagaActors, Save(a) \/ StoreFails(a) \/ Publish(a) PROVE SagaInv'
  <2>1. RuntimeInv' /\ HandKept(Orchestrator)
    BY <1>1, <1>5, SaveKeepsInv, StoreFailsKeepsInv, PublishKeepsInv, WritesKeepHands
  <2> QED BY <2>1, SagaHandKept
<1>6. CASE CommitMessage(Orchestrator)
  <2>1. RuntimeInv'
    BY <1>1, <1>6, CommitKeepsInv
  <2>2. At(Orchestrator, "idle")'
    BY <1>1, <1>6 DEF CommitMessage, Goto, At, RuntimeInv, RuntimeTypeOK
  <2> QED BY <2>1, <2>2 DEF SagaInv, HandIsAnswer
<1>7. CASE Crash(Orchestrator)
  <2>1. RuntimeInv' /\ At(Orchestrator, "idle")'
    BY <1>1, <1>7, CrashKeepsInv, CrashEnds DEF At
  <2> QED BY <2>1 DEF SagaInv, HandIsAnswer
<1> QED BY <1>2, <1>3, <1>4, <1>5, <1>6, <1>7 DEF SagaStep

(* They leave every other consumer where it is.                            *)
LEMMA SagaStepElsewhere ==
  ASSUME SagaInv, SagaStep, NEW g \in Groups \ {Orchestrator}
  PROVE  HandKept(g) /\ op'[g] = op[g]
<1>1. /\ Orchestrator \in Groups /\ SagaActors \subseteq Actors /\ g \notin SagaActors
      /\ RuntimeInv
  BY OrchestratorAssumption, RuntimeAssumption DEF SagaActors, Actors, Calls, SagaInv
<1>2. CASE SagaReceive \/ SagaIgnore \/ CommitMessage(Orchestrator) \/ Crash(Orchestrator)
  BY <1>1, <1>2, ConsumersKeepHands DEF SagaReceive, SagaIgnore
<1>3. CASE HandleAnswer
  <2>1. UNCHANGED busVars
    BY <1>3 DEF HandleAnswer, Build, Refuse
  <2>2. op'[g] = op[g]
    BY <1>1, <1>3 DEF HandleAnswer, Build, Refuse, Goto, RuntimeInv, RuntimeTypeOK, Actors
  <2> QED BY <2>1, <2>2, StillKeepsHands
<1>4. ASSUME NEW a \in SagaActors, Save(a) \/ StoreFails(a) \/ Publish(a)
      PROVE  HandKept(g) /\ op'[g] = op[g]
  <2>1. HandKept(g)
    BY <1>1, <1>4, WritesKeepHands
  <2>2. op'[g] = op[g]
    BY <1>1, <1>4 DEF Save, StoreFails, Publish, Goto, RuntimeInv, RuntimeTypeOK, Actors
  <2> QED BY <2>1, <2>2
<1> QED BY <1>2, <1>3, <1>4 DEF SagaStep

=============================================================================
