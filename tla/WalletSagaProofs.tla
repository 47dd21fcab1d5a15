--------------------------- MODULE WalletSagaProofs ---------------------------
(***************************************************************************)
(* A wallet payment from end to end, for any number of users, payments,    *)
(* HTTP calls, partitions and faults.                                      *)
(*                                                                         *)
(* PaymentInv says what a payment's log can be - its request, then perhaps *)
(* one conclusion, decided in the wallet of its user - and that whatever   *)
(* is on its way matches the request.  SagaSystemInv joins it with the     *)
(* invariants of the wallet service, which the orchestrator's steps keep   *)
(* as well.  OnceInv, where no process crashes and no message is written   *)
(* twice, adds that a payment is asked for and answered once; with it the  *)
(* saga implements the abstract payment.                                   *)
(***************************************************************************)
EXTENDS WalletSaga, WalletServiceProofs, OrchestratorProofs, FiniteSetTheorems

(* What a conclusion says has been decided in the wallet of its user.      *)
Decided(e, type) ==
  \E j \in DOMAIN store[e.user] :
    /\ store[e.user][j].type = type
    /\ store[e.user][j].payment = e.payment
    /\ store[e.user][j].amount = e.amount

Justified(e) ==
  /\ e.type = "WalletPaymentCompleted" => Decided(e, "FundsDebited")
  /\ e.type = "WalletPaymentFailed" => Decided(e, "FundsInsufficient")

(* e is of the user and the amount its payment was requested with.         *)
Matches(e) ==
  /\ e.payment \in Payments
  /\ store[e.payment] # <<>>
  /\ e.user = store[e.payment][1].user
  /\ e.amount = store[e.payment][1].amount

ConclusionTypes == {"WalletPaymentCompleted", "WalletPaymentFailed"}

(* What each actor builds.                                                 *)
BuiltBy(a, e) ==
  \/ a \in Payments /\ e.type = "WalletPaymentRequested" /\ e.payment = a
  \/ a = Wallet /\ e.type \in AnswerTypes /\ Matches(e)
  \/ a \in WalletCalls /\ e.type = "FundsCredited"
  \/ a = Orchestrator /\ e.type \in ConclusionTypes /\ Matches(e) /\ Justified(e)

OpsOK ==
  \A a \in Actors :
    /\ At(a, "save") \/ At(a, "publish") => BuiltBy(a, op[a].event)
    /\ a \in Payments /\ At(a, "publish") => Matches(op[a].event)
    /\ a \in Payments /\ (At(a, "idle") \/ At(a, "save")) => store[a] = <<>>
    /\ a = Orchestrator /\ At(a, "save") => Len(store[op[a].event.payment]) = 1

(* A payment's log is its request, and perhaps one justified conclusion.   *)
PaymentLog(p) ==
  store[p] # <<>> =>
    /\ Len(store[p]) <= 2
    /\ store[p][1].type = "WalletPaymentRequested"
    /\ store[p][1].payment = p
    /\ Len(store[p]) = 2 =>
         /\ store[p][2].type \in ConclusionTypes
         /\ store[p][2].payment = p
         /\ Matches(store[p][2])
         /\ Justified(store[p][2])

WalletLog(u) ==
  \A i \in DOMAIN store[u] :
    /\ store[u][i].type \in WalletTypes
    /\ store[u][i].user = u
    /\ store[u][i].type \in AnswerTypes => Matches(store[u][i])

LogsOK == (\A p \in Payments : PaymentLog(p)) /\ (\A u \in Users : WalletLog(u))

TopicOK ==
  \A e \in Published :
    /\ e.type \in WalletEvents
    /\ e.type # "FundsCredited" => Matches(e)

PaymentInv == LogsOK /\ OpsOK /\ TopicOK

----
(* Who takes part.                                                         *)
LEMMA Cast ==
  /\ Orchestrator \in Groups /\ Wallet \in Groups /\ Orchestrator # Wallet
  /\ Groups \subseteq Actors /\ Payments \subseteq Actors /\ WalletCalls \subseteq Actors
  /\ Groups \cap Payments = {} /\ Groups \cap WalletCalls = {} /\ Payments \cap WalletCalls = {}
  /\ SagaActors \subseteq Actors /\ WalletActors \subseteq Actors
  /\ Users \subseteq Aggregates /\ Payments \subseteq Aggregates /\ Users \cap Payments = {}
BY OrchestratorAssumption, WalletAssumption, RuntimeAssumption, EventsAssumption
DEF Orchestrator, Wallet, Actors, Calls, SagaActors, WalletActors, Aggregates

LEMMA LogIsSeq ==
  ASSUME RuntimeInv, NEW x \in Aggregates
  PROVE  /\ store[x] \in Seq(Event) /\ Len(store[x]) \in Nat
         /\ DOMAIN store[x] = 1..Len(store[x])
         /\ store[x] = <<>> <=> Len(store[x]) = 0
         /\ \A i \in 1..Len(store[x]) : store[x][i] \in Event
<1>1. store[x] \in Seq(Event)
  BY DEF RuntimeInv, RuntimeTypeOK
<1> QED BY <1>1, LenProperties, EmptySeq, ElementOfSeq

(* A payment in progress, and one that has ended.                          *)
LEMMA RequestedLog ==
  ASSUME NEW log \in Seq(Event), Len(log) = 1, log[1].type = "WalletPaymentRequested"
  PROVE  MovesAllowed(log) /\ StateOf(log) = "VALIDATING_BALANCE"
<1>1. 1 \in 1..Len(log) /\ DOMAIN log = 1..1
  BY LenProperties
<1>2. log[1].type \in MovingTypes /\ Target[log[1].type] = "VALIDATING_BALANCE"
  BY DEF MovingTypes, Target
<1>3. StateBefore(log, 1) = "INITIALIZED" /\ StateBefore(log, 1 + 1) = "VALIDATING_BALANCE"
  BY <1>1, <1>2, StateBeforeFirst, StateBeforeNext
<1>4. CanTransitionTo("INITIALIZED", "VALIDATING_BALANCE")
  BY DEF CanTransitionTo, ValidTransitions
<1>5. Moves(log) \subseteq {1}
  BY <1>1 DEF Moves
<1> QED BY <1>2, <1>3, <1>4, <1>5 DEF MovesAllowed, StateOf

LEMMA ConcludedLog ==
  ASSUME NEW log \in Seq(Event), Len(log) = 2, log[1].type = "WalletPaymentRequested",
         log[2].type \in ConclusionTypes
  PROVE  /\ MovesAllowed(log)
         /\ StateOf(log) = IF log[2].type = "WalletPaymentCompleted" THEN "COMPLETED" ELSE "FAILED"
<1>1. 1 \in 1..Len(log) /\ 2 \in 1..Len(log) /\ DOMAIN log = 1..2
  BY LenProperties
<1>2. /\ log[1].type \in MovingTypes /\ Target[log[1].type] = "VALIDATING_BALANCE"
      /\ log[2].type \in MovingTypes
      /\ Target[log[2].type] = IF log[2].type = "WalletPaymentCompleted" THEN "COMPLETED" ELSE "FAILED"
  BY DEF MovingTypes, Target, ConclusionTypes
<1>3. /\ StateBefore(log, 1) = "INITIALIZED"
      /\ StateBefore(log, 1 + 1) = Target[log[1].type]
      /\ StateBefore(log, 2 + 1) = Target[log[2].type]
  BY <1>1, <1>2, StateBeforeFirst, StateBeforeNext
<1>4. /\ CanTransitionTo("INITIALIZED", "VALIDATING_BALANCE")
      /\ CanTransitionTo("VALIDATING_BALANCE", "COMPLETED")
      /\ CanTransitionTo("VALIDATING_BALANCE", "FAILED")
  BY DEF CanTransitionTo, ValidTransitions
<1>5. Moves(log) \subseteq {1, 2}
  BY <1>1 DEF Moves
<1>6. \A i \in Moves(log) : CanTransitionTo(StateBefore(log, i), Target[log[i].type])
  BY <1>2, <1>3, <1>4, <1>5
<1> QED BY <1>2, <1>3, <1>6 DEF MovesAllowed, StateOf

----
(* Logs only grow, so what matched a request or was decided stays so.      *)
Grown ==
  \A x \in Aggregates : \A i \in DOMAIN store[x] :
    i \in DOMAIN store'[x] /\ store'[x][i] = store[x][i]

LEMMA SaveGrows == ASSUME RuntimeInv, NEW a \in Actors, Save(a) PROVE Grown
BY LogsGrow DEF Grown

LEMMA GrownKeeps ==
  ASSUME RuntimeInv, Grown
  PROVE  /\ \A e : Matches(e) => Matches(e)'
         /\ \A e : e.user \in Users /\ Justified(e) => Justified(e)'
<1>1. ASSUME NEW e, Matches(e) PROVE Matches(e)'
  <2>1. e.payment \in Aggregates /\ 1 \in DOMAIN store[e.payment]
    BY <1>1, Cast, LogIsSeq DEF Matches
  <2>2. 1 \in DOMAIN store'[e.payment] /\ store'[e.payment][1] = store[e.payment][1]
    BY <2>1 DEF Grown
  <2>3. store'[e.payment] # <<>>
    BY <2>2, EmptySeq
  <2> QED BY <1>1, <2>2, <2>3 DEF Matches
<1>2. ASSUME NEW e, NEW type, e.user \in Users, Decided(e, type) PROVE Decided(e, type)'
  BY <1>2, Cast DEF Decided, Grown
<1> QED BY <1>1, <1>2 DEF Justified

(* What a consumer has in hand is on the topic.                            *)
LEMMA InHandPublished ==
  ASSUME RuntimeInv, NEW g \in Groups, ~At(g, "idle")
  PROVE  InHand(g) \in Published
<1>1. current[g] \in Partitions /\ position[g][current[g]] \in 1..Len(topic[current[g]])
  BY DEF RuntimeInv, RuntimeTypeOK, OffsetsOK, HandOK
<1>2. position[g][current[g]] \in DOMAIN topic[current[g]]
  BY <1>1, LenProperties DEF RuntimeInv, RuntimeTypeOK
<1> QED BY <1>1, <1>2 DEF InHand, Published

----
(* A step that writes nothing and lets operations end, but not begin anew. *)
Quiet ==
  /\ UNCHANGED <<store, topic>>
  /\ \A a \in Actors :
       \/ op'[a] = op[a]
       \/ op'[a].at \notin {"save", "publish"} /\ (a \in Payments => op'[a].at # "idle")

LEMMA SameEverywhere ==
  ASSUME UNCHANGED store
  PROVE  /\ \A e : Matches(e) <=> Matches(e)'
         /\ \A e : Justified(e) <=> Justified(e)'
         /\ LogsOK <=> LogsOK'
BY DEF Matches, Justified, Decided, LogsOK, PaymentLog, WalletLog

LEMMA QuietKeepsPayments == ASSUME PaymentInv, Quiet PROVE PaymentInv'
<1>1. /\ \A e : Matches(e) <=> Matches(e)'
      /\ \A e : Justified(e) <=> Justified(e)'
      /\ LogsOK'
  BY SameEverywhere DEF Quiet, PaymentInv
<1>2. TopicOK'
  BY <1>1 DEF Quiet, PaymentInv, TopicOK, Published
<1>3. OpsOK'
  <2> SUFFICES ASSUME NEW a \in Actors
               PROVE  /\ At(a, "save")' \/ At(a, "publish")' => BuiltBy(a, op[a].event)'
                      /\ a \in Payments /\ At(a, "publish")' => Matches(op[a].event)'
                      /\ a \in Payments /\ (At(a, "idle")' \/ At(a, "save")') => store'[a] = <<>>
                      /\ a = Orchestrator /\ At(a, "save")' =>
                           Len(store'[op'[a].event.payment]) = 1
    BY DEF OpsOK
  <2>1. CASE op'[a] = op[a]
    BY <1>1, <2>1 DEF Quiet, PaymentInv, OpsOK, BuiltBy, At
  <2>2. CASE op'[a].at \notin {"save", "publish"} /\ (a \in Payments => op'[a].at # "idle")
    BY <2>2, Cast DEF At
  <2> QED BY <2>1, <2>2 DEF Quiet
<1> QED BY <1>1, <1>2, <1>3 DEF PaymentInv

(* An actor builds what it should.                                         *)
LEMMA BuildKeepsPayments ==
  ASSUME RuntimeInv, PaymentInv, NEW a \in Actors, NEW e \in Event, Build(a, e), BuiltBy(a, e),
         a \in Payments => At(a, "idle"),
         a = Orchestrator => Len(store[e.payment]) = 1
  PROVE  PaymentInv'
<1>1. /\ op'[a] = [at |-> "save", event |-> e]
      /\ \A b \in Actors \ {a} : op'[b] = op[b]
      /\ UNCHANGED <<store, topic>>
  <2>1. "save" \in Steps BY DEF Steps
  <2> QED BY <2>1, GotoTyped DEF Build, busVars
<1>2. /\ \A x : Matches(x) <=> Matches(x)'
      /\ \A x : Justified(x) <=> Justified(x)'
      /\ LogsOK'
  BY <1>1, SameEverywhere DEF PaymentInv
<1>3. TopicOK'
  BY <1>1, <1>2 DEF PaymentInv, TopicOK, Published
<1>4. OpsOK'
  <2> SUFFICES ASSUME NEW b \in Actors
               PROVE  /\ At(b, "save")' \/ At(b, "publish")' => BuiltBy(b, op[b].event)'
                      /\ b \in Payments /\ At(b, "publish")' => Matches(op[b].event)'
                      /\ b \in Payments /\ (At(b, "idle")' \/ At(b, "save")') => store'[b] = <<>>
                      /\ b = Orchestrator /\ At(b, "save")' =>
                           Len(store'[op'[b].event.payment]) = 1
    BY DEF OpsOK
  <2>1. CASE b # a
    BY <1>1, <1>2, <2>1 DEF PaymentInv, OpsOK, BuiltBy, At
  <2>2. CASE b = a
    <3>1. BuiltBy(b, op[b].event)'
      BY <1>1, <1>2, <2>2 DEF BuiltBy
    <3>2. b \in Payments => store'[b] = <<>>
      BY <1>1, <2>2 DEF PaymentInv, OpsOK
    <3> QED BY <1>1, <2>2, <3>1, <3>2 DEF At
  <2> QED BY <2>1, <2>2
<1> QED BY <1>2, <1>3, <1>4 DEF PaymentInv

(* A publication puts on the topic what was built.                         *)
LEMMA PublishKeepsPayments ==
  ASSUME RuntimeInv, PaymentInv, NEW a \in Actors, Publish(a)
  PROVE  PaymentInv'
<1> DEFINE e == op[a].event
<1>1. e \in Event /\ BuiltBy(a, e) /\ (a \in Payments => Matches(e)) /\ Send(e) /\ UNCHANGED store
  BY DEF Publish, RuntimeInv, BuiltOK, PaymentInv, OpsOK
<1>2. /\ op'[a].at \notin {"idle", "save", "publish"}
      /\ \A b \in Actors \ {a} : op'[b] = op[b]
  BY DEF Publish, Goto, Ended, RuntimeInv, RuntimeTypeOK
<1>3. /\ \A x : Matches(x) <=> Matches(x)'
      /\ \A x : Justified(x) <=> Justified(x)'
      /\ LogsOK'
  BY <1>1, SameEverywhere DEF PaymentInv
<1> HIDE DEF e
<1>4. TopicOK'
  <2>1. Published' \subseteq Published \cup {e}
    BY <1>1, SendPublishes
  <2>2. e.type \in WalletEvents /\ (e.type # "FundsCredited" => Matches(e))
    BY <1>1 DEF BuiltBy, WalletEvents, AnswerTypes, ConclusionTypes
  <2> QED BY <1>3, <2>1, <2>2 DEF PaymentInv, TopicOK
<1>5. OpsOK'
  <2> SUFFICES ASSUME NEW b \in Actors
               PROVE  /\ At(b, "save")' \/ At(b, "publish")' => BuiltBy(b, op[b].event)'
                      /\ b \in Payments /\ At(b, "publish")' => Matches(op[b].event)'
                      /\ b \in Payments /\ (At(b, "idle")' \/ At(b, "save")') => store'[b] = <<>>
                      /\ b = Orchestrator /\ At(b, "save")' =>
                           Len(store'[op'[b].event.payment]) = 1
    BY DEF OpsOK
  <2>1. CASE b # a
    BY <1>1, <1>2, <1>3, <2>1 DEF PaymentInv, OpsOK, BuiltBy, At
  <2>2. CASE b = a
    BY <1>2, <2>2 DEF At
  <2> QED BY <2>1, <2>2
<1> QED BY <1>3, <1>4, <1>5 DEF PaymentInv

(* A save adds the event to the log it belongs to.                         *)
LEMMA SaveKeepsPayments ==
  ASSUME RuntimeInv, PaymentInv, NEW a \in Actors, Save(a)
  PROVE  PaymentInv'
<1> PICK e : e = op[a].event
  OBVIOUS
<1>1. /\ e \in Event /\ At(a, "save") /\ BuiltBy(a, e) /\ Grown /\ UNCHANGED busVars
      /\ \A x \in Aggregates :
           store'[x] = IF x = Aggregate(e) THEN Append(store[x], e) ELSE store[x]
      /\ a \in Payments => store[a] = <<>>
      /\ a = Orchestrator => Len(store[e.payment]) = 1
  BY SaveAppends, SaveGrows DEF Save, PaymentInv, OpsOK
<1>2. /\ op'[a] = [at |-> "publish", event |-> e]
      /\ \A b \in Actors \ {a} : op'[b] = op[b]
  <2>1. "publish" \in Steps BY DEF Steps
  <2> QED BY <1>1, <2>1, GotoTyped DEF Save
<1>3. /\ \A x : Matches(x) => Matches(x)'
      /\ \A x : x.user \in Users /\ Justified(x) => Justified(x)'
  BY <1>1, GrownKeeps
<1>4. TopicOK'
  BY <1>1, <1>3 DEF PaymentInv, TopicOK, Published, busVars
<1>5. e.user \in Users
  BY <1>1 DEF Event
<1>6. CASE a \in Payments
  <2>1. /\ e.type = "WalletPaymentRequested" /\ e.payment = a /\ Aggregate(e) = a
    BY <1>1, <1>6, Cast DEF BuiltBy, Aggregate, WalletTypes
  <2>2. store'[a] = Append(<<>>, e) /\ \A x \in Aggregates \ {a} : store'[x] = store[x]
    BY <1>1, <1>6, <2>1, Cast
  <2>3. Len(store'[a]) = 1 /\ store'[a][1] = e /\ store'[a] # <<>>
    <3>1. <<>> \in Seq(Event) /\ Len(<<>>) = 0
      BY EmptySeq
    <3> QED BY <1>1, <2>2, <3>1, AppendProperties, EmptySeq
  <2>4. PaymentLog(a)'
    BY <2>1, <2>3 DEF PaymentLog
  <2>5. \A x : x = e => Matches(x)'
    BY <1>6, <2>1, <2>3 DEF Matches
  <2>6. ASSUME NEW p \in Payments \ {a} PROVE PaymentLog(p)'
    <3>1. store'[p] = store[p] /\ PaymentLog(p)
      BY <1>6, <2>2, <2>6, Cast DEF PaymentInv, LogsOK
    <3>2. Len(store[p]) = 2 => store[p][2].user \in Users
      <4>1. store[p] \in Seq(Event)
        BY <2>6, Cast, LogIsSeq
      <4>2. Len(store[p]) = 2 => store[p][2] \in Event
        BY <4>1, ElementOfSeq
      <4> QED BY <4>2 DEF Event
    <3> QED BY <1>3, <3>1, <3>2 DEF PaymentLog
  <2>7. \A u \in Users : WalletLog(u)'
    BY <1>3, <1>6, <2>2, Cast DEF PaymentInv, LogsOK, WalletLog
  <2>8. OpsOK'
    <3> SUFFICES ASSUME NEW b \in Actors
                 PROVE  /\ At(b, "save")' \/ At(b, "publish")' => BuiltBy(b, op[b].event)'
                        /\ b \in Payments /\ At(b, "publish")' => Matches(op[b].event)'
                        /\ b \in Payments /\ (At(b, "idle")' \/ At(b, "save")') => store'[b] = <<>>
                        /\ b = Orchestrator /\ At(b, "save")' =>
                             Len(store'[op'[b].event.payment]) = 1
      BY DEF OpsOK
    <3>1. CASE b = a
      BY <1>1, <1>2, <1>6, <2>1, <2>5, <3>1, Cast DEF At, BuiltBy
    <3>2. CASE b # a
      <4>1. op'[b] = op[b] /\ (b \in Payments => store'[b] = store[b])
        BY <1>2, <2>2, <3>2, Cast
      <4>2. At(b, "save") \/ At(b, "publish") => op[b].event \in Event /\ BuiltBy(b, op[b].event)
        BY DEF PaymentInv, OpsOK, RuntimeInv, BuiltOK
      <4>3. \A x \in Event : BuiltBy(b, x) => BuiltBy(b, x)'
        BY <1>3 DEF BuiltBy, Event
      <4>4. b = Orchestrator /\ At(b, "save") =>
              Len(store'[op[b].event.payment]) = 1
        <5> SUFFICES ASSUME b = Orchestrator, At(b, "save")
                     PROVE  Len(store'[op[b].event.payment]) = 1
          OBVIOUS
        <5>1. Matches(op[b].event) /\ Len(store[op[b].event.payment]) = 1
          BY Cast DEF PaymentInv, OpsOK, BuiltBy
        <5>2. op[b].event.payment # a /\ op[b].event.payment \in Payments
          BY <1>1, <1>6, <5>1 DEF Matches
        <5> QED BY <2>2, <5>1, <5>2, Cast
      <4> QED BY <1>3, <4>1, <4>2, <4>3, <4>4 DEF PaymentInv, OpsOK, At
    <3> QED BY <3>1, <3>2
  <2> QED BY <1>4, <2>4, <2>6, <2>7, <2>8 DEF PaymentInv, LogsOK
<1>7. CASE a = Orchestrator
  <2>1. /\ e.type \in ConclusionTypes /\ Matches(e) /\ Justified(e) /\ Aggregate(e) = e.payment
    BY <1>1, <1>7, Cast DEF BuiltBy, Aggregate, WalletTypes, ConclusionTypes
  <2> PICK q : q = e.payment
    OBVIOUS
  <2>2. /\ q \in Payments /\ store'[q] = Append(store[q], e) /\ Len(store[q]) = 1
        /\ \A x \in Aggregates \ {q} : store'[x] = store[x]
    BY <1>1, <1>7, <2>1, Cast DEF Matches
  <2>3. /\ Len(store'[q]) = 2 /\ store'[q][1] = store[q][1] /\ store'[q][2] = e
        /\ store'[q] # <<>>
    <3>1. store[q] \in Seq(Event)
      BY <2>2, Cast, LogIsSeq
    <3> QED BY <1>1, <2>2, <3>1, AppendProperties, EmptySeq
  <2>4. \A x : x = e => Matches(x)' /\ Justified(x)'
    BY <1>3, <1>5, <2>1
  <2>5. PaymentLog(q)'
    <3>1. PaymentLog(q) /\ store[q] # <<>>
      BY <2>1, <2>2 DEF PaymentInv, LogsOK, Matches
    <3>2. \A x : x = store'[q][2] => Matches(x)' /\ Justified(x)' /\ x.type \in ConclusionTypes
      BY <2>1, <2>3, <2>4
    <3> QED BY <2>3, <3>1, <3>2 DEF PaymentLog
  <2>6. ASSUME NEW p \in Payments \ {q} PROVE PaymentLog(p)'
    <3>1. store'[p] = store[p] /\ PaymentLog(p)
      BY <2>2, <2>6, Cast DEF PaymentInv, LogsOK
    <3>2. Len(store[p]) = 2 => store[p][2].user \in Users
      <4>1. store[p] \in Seq(Event)
        BY <2>6, Cast, LogIsSeq
      <4>2. Len(store[p]) = 2 => store[p][2] \in Event
        BY <4>1, ElementOfSeq
      <4> QED BY <4>2 DEF Event
    <3> QED BY <1>3, <3>1, <3>2 DEF PaymentLog
  <2>7. \A u \in Users : WalletLog(u)'
    BY <1>3, <2>2, Cast DEF PaymentInv, LogsOK, WalletLog
  <2>8. OpsOK'
    <3> SUFFICES ASSUME NEW b \in Actors
                 PROVE  /\ At(b, "save")' \/ At(b, "publish")' => BuiltBy(b, op[b].event)'
                        /\ b \in Payments /\ At(b, "publish")' => Matches(op[b].event)'
                        /\ b \in Payments /\ (At(b, "idle")' \/ At(b, "save")') => store'[b] = <<>>
                        /\ b = Orchestrator /\ At(b, "save")' =>
                             Len(store'[op'[b].event.payment]) = 1
      BY DEF OpsOK
    <3>1. CASE b = a
      BY <1>1, <1>2, <1>7, <2>1, <2>4, <3>1, Cast DEF At, BuiltBy
    <3>2. CASE b # a
      <4>1. op'[b] = op[b] /\ b # Orchestrator
        BY <1>2, <1>7, <3>2
      <4>2. At(b, "save") \/ At(b, "publish") => op[b].event \in Event /\ BuiltBy(b, op[b].event)
        BY DEF PaymentInv, OpsOK, RuntimeInv, BuiltOK
      <4>3. \A x \in Event : BuiltBy(b, x) => BuiltBy(b, x)'
        BY <1>3 DEF BuiltBy, Event
      <4>4. b \in Payments /\ store[b] = <<>> => store'[b] = <<>>
        BY <2>1, <2>2, Cast DEF Matches
      <4> QED BY <1>3, <4>1, <4>2, <4>3, <4>4 DEF PaymentInv, OpsOK, At
    <3> QED BY <3>1, <3>2
  <2> QED BY <1>4, <2>5, <2>6, <2>7, <2>8 DEF PaymentInv, LogsOK
<1>8. CASE a = Wallet \/ a \in WalletCalls
  <2>1. e.type \in WalletTypes /\ Aggregate(e) = e.user
        /\ (e.type \in AnswerTypes => Matches(e))
    BY <1>1, <1>8, Cast DEF BuiltBy, Aggregate, WalletTypes, AnswerTypes
  <2>2. /\ store'[e.user] = Append(store[e.user], e)
        /\ \A x \in Aggregates \ {e.user} : store'[x] = store[x]
        /\ \A p \in Payments : store'[p] = store[p]
    BY <1>1, <1>5, <2>1, Cast
  <2>3. ASSUME NEW p \in Payments PROVE PaymentLog(p)'
    <3>1. store'[p] = store[p] /\ PaymentLog(p)
      BY <2>2, <2>3 DEF PaymentInv, LogsOK
    <3>2. Len(store[p]) = 2 => store[p][2].user \in Users
      <4>1. store[p] \in Seq(Event)
        BY <2>3, Cast, LogIsSeq
      <4>2. Len(store[p]) = 2 => store[p][2] \in Event
        BY <4>1, ElementOfSeq
      <4> QED BY <4>2 DEF Event
    <3> QED BY <1>3, <3>1, <3>2 DEF PaymentLog
  <2>4. ASSUME NEW u \in Users PROVE WalletLog(u)'
    <3>1. CASE u # e.user
      BY <1>3, <2>2, <2>4, <3>1, Cast DEF PaymentInv, LogsOK, WalletLog
    <3>2. CASE u = e.user
      <4>1. store[u] \in Seq(Event) /\ DOMAIN store[u] = 1..Len(store[u]) /\ Len(store[u]) \in Nat
        BY <2>4, Cast, LogIsSeq
      <4>2. /\ DOMAIN store'[u] = 1..(Len(store[u]) + 1)
            /\ \A i \in 1..Len(store[u]) : store'[u][i] = store[u][i]
            /\ store'[u][Len(store[u]) + 1] = e
        BY <1>1, <2>2, <3>2, <4>1, AppendProperties, LenProperties
      <4>3. ASSUME NEW i \in DOMAIN store'[u]
            PROVE  store'[u][i] = e \/ (i \in DOMAIN store[u] /\ store'[u][i] = store[u][i])
        BY <4>1, <4>2
      <4>4. \A i \in DOMAIN store[u] :
              /\ store[u][i].type \in WalletTypes /\ store[u][i].user = u
              /\ store[u][i].type \in AnswerTypes => Matches(store[u][i])
        BY DEF PaymentInv, LogsOK, WalletLog
      <4>5. ASSUME NEW i \in DOMAIN store'[u], NEW x, x = store'[u][i]
            PROVE  /\ x.type \in WalletTypes /\ x.user = u
                   /\ x.type \in AnswerTypes => Matches(x)'
        BY <1>3, <2>1, <3>2, <4>3, <4>4, <4>5
      <4> QED BY <4>5 DEF WalletLog
    <3> QED BY <3>1, <3>2
  <2>5. OpsOK'
    <3> SUFFICES ASSUME NEW b \in Actors
                 PROVE  /\ At(b, "save")' \/ At(b, "publish")' => BuiltBy(b, op[b].event)'
                        /\ b \in Payments /\ At(b, "publish")' => Matches(op[b].event)'
                        /\ b \in Payments /\ (At(b, "idle")' \/ At(b, "save")') => store'[b] = <<>>
                        /\ b = Orchestrator /\ At(b, "save")' =>
                             Len(store'[op'[b].event.payment]) = 1
      BY DEF OpsOK
    <3>1. CASE b = a
      <4>1. \A x \in Event : BuiltBy(a, x) => BuiltBy(a, x)'
        BY <1>3 DEF BuiltBy, Event
      <4> QED BY <1>1, <1>2, <1>8, <3>1, <4>1, Cast DEF At
    <3>2. CASE b # a
      <4>1. op'[b] = op[b]
        BY <1>2, <3>2
      <4>2. At(b, "save") \/ At(b, "publish") => op[b].event \in Event /\ BuiltBy(b, op[b].event)
        BY DEF PaymentInv, OpsOK, RuntimeInv, BuiltOK
      <4>3. \A x \in Event : BuiltBy(b, x) => BuiltBy(b, x)'
        BY <1>3 DEF BuiltBy, Event
      <4>4. b = Orchestrator /\ At(b, "save") => op[b].event.payment \in Payments
        BY Cast DEF PaymentInv, OpsOK, BuiltBy, Matches
      <4> QED BY <1>3, <2>2, <4>1, <4>2, <4>3, <4>4 DEF PaymentInv, OpsOK, At
    <3> QED BY <3>1, <3>2
  <2> QED BY <1>4, <2>3, <2>4, <2>5 DEF PaymentInv, LogsOK
<1> QED BY <1>1, <1>6, <1>7, <1>8 DEF BuiltBy

----
(* What the wallet builds for the request in hand.                         *)
LEMMA WalletBuilds ==
  ASSUME WalletInv, PaymentInv, HandleWalletPaymentRequested PROVE PaymentInv'
<1>1. RuntimeInv /\ ~At(Wallet, "idle")
  BY DEF WalletInv, HandleWalletPaymentRequested, At
<1>2. PICK m : m = InHand(Wallet)
  OBVIOUS
<1>3. m \in Event /\ m.type = "WalletPaymentRequested" /\ m \in Published
  BY <1>1, <1>2, InHandIsEvent, InHandPublished, Cast DEF WalletInv, HandIsRequest
<1>4. Matches(m) /\ m.user \in Users
  BY <1>3 DEF PaymentInv, TopicOK, Event
<1>5. PICK e : e = Answer(m, Balance(store[m.user]))
  OBVIOUS
<1>6. Build(Wallet, e)
  BY <1>2, <1>5 DEF HandleWalletPaymentRequested, LoadEvents
<1>7. /\ e.type \in AnswerTypes /\ e.payment = m.payment
      /\ e.user = m.user /\ e.amount = m.amount
  BY <1>5 DEF Answer, NewFundsDebited, NewFundsInsufficient, NewBalanceEvent, AnswerTypes
<1>8. e \in Event
  BY <1>3, <1>4, <1>5, BalanceNotNegative, AnswerIsSound DEF Event
<1>9. BuiltBy(Wallet, e)
  BY <1>4, <1>7 DEF BuiltBy, Matches
<1> QED BY <1>1, <1>6, <1>8, <1>9, BuildKeepsPayments, Cast

(* An answer the orchestrator receives is in the log of its user's wallet, *)
(* and if the saga accepts it the payment has not been concluded yet.      *)
LEMMA AnswerIsStored ==
  ASSUME RuntimeInv, PaymentInv, NEW m \in Stored, m.type \in AnswerTypes
  PROVE  \E j \in DOMAIN store[m.user] : store[m.user][j] = m
<1>1. PICK x \in Aggregates : \E i \in DOMAIN store[x] : store[x][i] = m
  BY DEF Stored
<1>2. PICK i \in DOMAIN store[x] : store[x][i] = m
  BY <1>1
<1>3. CASE x \in Payments
  <2>1. PaymentLog(x) /\ i \in 1..Len(store[x]) /\ Len(store[x]) \in Nat /\ store[x] # <<>>
    BY <1>3, LogIsSeq, EmptySeq DEF PaymentInv, LogsOK
  <2>2. i = 1 \/ (i = 2 /\ Len(store[x]) = 2)
    <3>1. Len(store[x]) <= 2
      BY <2>1 DEF PaymentLog
    <3>2. PICK n : n = Len(store[x])
      OBVIOUS
    <3>3. i \in 1..n /\ n \in Nat /\ n <= 2
      BY <2>1, <3>1, <3>2
    <3>4. i = 1 \/ (i = 2 /\ n = 2)
      BY <3>3
    <3> QED BY <3>2, <3>4
  <2>3. m.type \in ConclusionTypes \cup {"WalletPaymentRequested"}
    BY <1>2, <2>1, <2>2 DEF PaymentLog
  <2> QED BY <2>3 DEF ConclusionTypes, AnswerTypes
<1>4. CASE x \in Users
  BY <1>2, <1>4 DEF PaymentInv, LogsOK, WalletLog
<1> QED BY <1>3, <1>4 DEF Aggregates

LEMMA AcceptedIsOpen ==
  ASSUME RuntimeInv, PaymentInv, NEW m \in Event, m.type \in AnswerTypes, Matches(m),
         Accepts(m, store[m.payment])
  PROVE  /\ Len(store[m.payment]) = 1
         /\ store[m.payment][Min(Requests(store[m.payment]))].user = m.user
<1> DEFINE log == store[m.payment]
<1>1. /\ log \in Seq(Event) /\ log # <<>> /\ Len(log) \in Nat /\ Len(log) # 0
      /\ Len(log) <= 2 /\ log[1].type = "WalletPaymentRequested"
      /\ Len(log) = 2 => log[2].type \in ConclusionTypes
      /\ log[1].user = m.user
  BY Cast, LogIsSeq DEF PaymentInv, LogsOK, PaymentLog, Matches
<1> HIDE DEF log
<1>2. Min(Requests(log)) = 1
  BY <1>1, FirstRequestOwns DEF RequestTypes
<1>3. Len(log) # 2
  <2> SUFFICES ASSUME Len(log) = 2 PROVE FALSE
    OBVIOUS
  <2>1. StateOf(log) \in TerminalStates
    BY <1>1, ConcludedLog DEF TerminalStates
  <2>2. ~CanTransitionTo(StateOf(log), Target[m.type])
    BY <2>1 DEF TerminalStates, CanTransitionTo, ValidTransitions
  <2> QED BY <2>2 DEF Accepts, log
<1>4. Len(log) = 1
  <2>1. PICK n : n = Len(log)
    OBVIOUS
  <2>2. n \in Nat /\ n # 0 /\ n <= 2 /\ n # 2
    BY <1>1, <1>3, <2>1
  <2> QED BY <2>1, <2>2
<1>5. log[Min(Requests(log))].user = m.user
  BY <1>1, <1>2
<1> QED BY <1>4, <1>5 DEF log

LEMMA OrchestratorBuilds ==
  ASSUME SagaInv, StoredInv, PaymentInv, HandleAnswer PROVE PaymentInv'
<1>1. RuntimeInv /\ ~At(Orchestrator, "idle")
  BY DEF SagaInv, HandleAnswer, At
<1>2. PICK m : m = InHand(Orchestrator)
  OBVIOUS
<1>3. m \in Event /\ m.type \in HandledTypes /\ m \in Published
  BY <1>1, <1>2, InHandIsEvent, InHandPublished, Cast DEF SagaInv, HandIsAnswer
<1>4. m.type \in AnswerTypes /\ Matches(m) /\ m \in Stored
  <2>1. m.type \in WalletEvents /\ (m.type # "FundsCredited" => Matches(m))
    BY <1>3 DEF PaymentInv, TopicOK
  <2>2. m.type \in AnswerTypes
    BY <1>3, <2>1 DEF HandledTypes, ProcessedTypes, DecodedTypes, WalletEvents, AnswerTypes
  <2> QED BY <1>3, <2>1, <2>2 DEF StoredInv, PublishedAreStored, AnswerTypes, WalletTypes
<1>5. CASE ~Accepts(m, store[m.payment])
  <2>1. Refuse(Orchestrator)
    BY <1>2, <1>5 DEF HandleAnswer, LoadEvents
  <2>2. Quiet
    BY <1>1, <2>1, Cast DEF Refuse, Goto, Quiet, busVars, RuntimeInv, RuntimeTypeOK
  <2> QED BY <2>2, QuietKeepsPayments
<1>6. CASE Accepts(m, store[m.payment])
  <2>1. PICK e : e = Conclusion(m, m.user)
    OBVIOUS
  <2>2. /\ Len(store[m.payment]) = 1
        /\ store[m.payment][Min(Requests(store[m.payment]))].user = m.user
    BY <1>1, <1>3, <1>4, <1>6, AcceptedIsOpen
  <2>3. Build(Orchestrator, e)
    BY <1>2, <1>6, <2>1, <2>2 DEF HandleAnswer, LoadEvents
  <2>4. /\ e.payment = m.payment /\ e.user = m.user /\ e.amount = m.amount
        /\ \/ m.type = "FundsDebited" /\ e.type = "WalletPaymentCompleted"
           \/ m.type = "FundsInsufficient" /\ e.type = "WalletPaymentFailed"
    BY <1>4, <2>1
    DEF Conclusion, NewWalletPaymentCompleted, NewWalletPaymentFailed, NewBaseEvent,
        NewBalanceEvent, AnswerTypes
  <2>5. e \in Event
    BY <1>3, <2>1, ConclusionIsEvent DEF Event
  <2>6. Matches(e)
    BY <1>4, <2>4 DEF Matches
  <2>7. Justified(e)
    BY <1>1, <1>4, <2>4, AnswerIsStored DEF Justified, Decided
  <2>8. BuiltBy(Orchestrator, e)
    BY <2>4, <2>6, <2>7 DEF BuiltBy, ConclusionTypes
  <2> QED BY <1>1, <2>2, <2>3, <2>4, <2>5, <2>8, BuildKeepsPayments, Cast
<1> QED BY <1>5, <1>6

----
(* The steps of the orchestrator's side, and what they leave of the        *)
(* wallet service: everything.                                             *)
LEMMA SagaStepPayments ==
  ASSUME SagaInv, StoredInv, PaymentInv, CreatePayment \/ SagaStep PROVE PaymentInv'
<1>0. RuntimeInv
  BY DEF SagaInv
<1> USE DEF RuntimeInv, RuntimeTypeOK
<1>1. CASE CreatePayment
  <2>1. PICK p \in Payments, u \in Users, x \in Amounts : CreateWalletPayment(p, u, x)
    BY <1>1 DEF CreatePayment
  <2>2. PICK e : e = NewWalletPaymentRequested(p, u, x)
    OBVIOUS
  <2>3. e \in Event /\ e.type = "WalletPaymentRequested" /\ e.payment = p
    BY <2>2, RequestIsEvent DEF NewWalletPaymentRequested, NewBaseEvent, NewBalanceEvent
  <2>4. Build(p, e) /\ At(p, "idle") /\ BuiltBy(p, e)
    BY <2>1, <2>2, <2>3 DEF CreateWalletPayment, BuiltBy
  <2> QED BY <1>0, <2>3, <2>4, BuildKeepsPayments, Cast
<1>2. CASE SagaReceive
  <2>1. Quiet
    BY <1>0, <1>2, Cast DEF SagaReceive, Receive, Fetch, Goto, Quiet
  <2> QED BY <2>1, QuietKeepsPayments
<1>3. CASE SagaIgnore
  <2>1. Quiet
    BY <1>0, <1>3, Cast DEF SagaIgnore, Ignore, Pass, Quiet
  <2> QED BY <2>1, QuietKeepsPayments
<1>4. CASE HandleAnswer
  BY <1>4, OrchestratorBuilds
<1>5. ASSUME NEW a \in SagaActors, Save(a) \/ StoreFails(a) \/ Publish(a) PROVE PaymentInv'
  <2>1. CASE StoreFails(a)
    <3>1. Quiet
      BY <1>0, <2>1, Cast DEF StoreFails, Goto, Ended, busVars, Quiet
    <3> QED BY <3>1, QuietKeepsPayments
  <2> QED BY <1>0, <1>5, <2>1, SaveKeepsPayments, PublishKeepsPayments, Cast
<1>6. CASE CommitMessage(Orchestrator)
  <2>1. Quiet
    BY <1>0, <1>6, Cast DEF CommitMessage, Commit, Goto, Quiet
  <2> QED BY <2>1, QuietKeepsPayments
<1>7. CASE Crash(Orchestrator)
  <2>1. Quiet
    BY <1>0, <1>7, Cast DEF Crash, Rejoin, Quiet
  <2> QED BY <2>1, QuietKeepsPayments
<1> QED BY <1>1, <1>2, <1>3, <1>4, <1>5, <1>6, <1>7 DEF SagaStep

LEMMA WalletStepPayments ==
  ASSUME WalletInv, PaymentInv, WalletStep PROVE PaymentInv'
<1>0. RuntimeInv
  BY DEF WalletInv
<1> USE DEF RuntimeInv, RuntimeTypeOK
<1>1. CASE WalletReceive
  <2>1. Quiet
    BY <1>0, <1>1, Cast DEF WalletReceive, Receive, Fetch, Goto, Quiet
  <2> QED BY <2>1, QuietKeepsPayments
<1>2. CASE WalletIgnore
  <2>1. Quiet
    BY <1>0, <1>2, Cast DEF WalletIgnore, Ignore, Pass, Quiet
  <2> QED BY <2>1, QuietKeepsPayments
<1>3. CASE HandleWalletPaymentRequested
  BY <1>3, WalletBuilds
<1>4. ASSUME NEW c \in WalletCalls, NEW u \in Users, NEW x \in Amounts,
             AddFunds(c, u, x) \/ \E p \in Payments : ProcessRefund(c, p, u, x)
      PROVE  PaymentInv'
  <2>1. PICK p \in Payments \cup {NoPayment} :
          Build(c, NewFundsCredited(p, u, x, Balance(store[u]), Balance(store[u]) + x))
    BY <1>4 DEF AddFunds, ProcessRefund, LoadEvents
  <2>2. PICK e : e = NewFundsCredited(p, u, x, Balance(store[u]), Balance(store[u]) + x)
    OBVIOUS
  <2>3. e \in Event
    BY <2>2, BalanceNotNegative, CreditIsSound
  <2>4. BuiltBy(c, e)
    BY <2>2 DEF BuiltBy, NewFundsCredited, NewBalanceEvent
  <2> QED BY <1>0, <2>1, <2>2, <2>3, <2>4, BuildKeepsPayments, Cast
<1>5. ASSUME NEW a \in WalletActors, WalletSave(a) \/ WalletStoreFails(a) \/ WalletPublish(a)
      PROVE  PaymentInv'
  <2>1. CASE WalletStoreFails(a)
    <3>1. Quiet
      BY <1>0, <2>1, Cast DEF WalletStoreFails, StoreFails, Goto, Ended, busVars, Quiet
    <3> QED BY <3>1, QuietKeepsPayments
  <2> QED BY <1>0, <1>5, <2>1, SaveKeepsPayments, PublishKeepsPayments, Cast
        DEF WalletSave, WalletPublish
<1>6. CASE WalletCommit
  <2>1. Quiet
    BY <1>0, <1>6, Cast DEF WalletCommit, CommitMessage, Commit, Goto, Quiet
  <2> QED BY <2>1, QuietKeepsPayments
<1>7. CASE WalletCrash
  <2>1. Quiet
    BY <1>0, <1>7, Cast DEF WalletCrash, Crash, Rejoin, Quiet
  <2> QED BY <2>1, QuietKeepsPayments
<1> QED BY <1>1, <1>2, <1>3, <1>4, <1>5, <1>6, <1>7 DEF WalletStep


(* The two services share nothing but the table and the topic, where they  *)
(* write to different logs and events of different types.                  *)
LEMMA Hosts ==
  /\ Host(Wallet) = Wallet /\ Host(Orchestrator) = Orchestrator
  /\ \A c \in WalletCalls : Host(c) = Wallet
  /\ \A p \in Payments : Host(p) = Orchestrator
  /\ WalletActors \cap SagaActors = {}
<1>1. \A c \in WalletCalls : c \notin Groups /\ c \notin Payments /\ c \notin Webhooks
  BY RuntimeAssumption DEF Calls
<1>2. \A p \in Payments : p \notin Groups /\ p \notin WalletCalls /\ p \notin Webhooks
  BY RuntimeAssumption DEF Calls
<1>3. \A g \in Groups : g \notin Payments /\ g \notin WalletCalls /\ g \notin Webhooks
  BY RuntimeAssumption DEF Calls
<1>4. Host(Wallet) = Wallet /\ Host(Orchestrator) = Orchestrator
  BY <1>3, Cast DEF Host
<1>5. \A c \in WalletCalls : Host(c) = Wallet
  BY <1>1 DEF Host
<1>6. \A p \in Payments : Host(p) = Orchestrator
  BY <1>2 DEF Host
<1>7. WalletActors \cap SagaActors = {}
  BY <1>1, <1>2, <1>3, Cast DEF WalletActors, SagaActors
<1> QED BY <1>4, <1>5, <1>6, <1>7

LEMMA SagaStepApart ==
  ASSUME SagaInv, PaymentInv, CreatePayment \/ SagaStep
  PROVE  /\ HandKept(Wallet)
         /\ \A a \in WalletActors : op'[a] = op[a]
         /\ \A u \in Users : store'[u] = store[u]
         /\ Stored \subseteq Stored'
         /\ \A e \in Published' : e \in Published \/ e.type \notin WalletTypes
<1>0. RuntimeInv /\ Wallet \in Groups \ {Orchestrator} /\ WalletActors \subseteq Actors
  BY Cast DEF SagaInv
<1>1. ASSUME UNCHANGED busVars
      PROVE  HandKept(Wallet) /\ Published' = Published
  BY <1>0, <1>1, StillKeepsHands DEF busVars, Published
<1>2. ASSUME UNCHANGED store PROVE Stored' = Stored /\ \A u \in Users : store'[u] = store[u]
  BY <1>2 DEF Stored
<1>3. ASSUME NEW a \in SagaActors, NEW step, NEW e, Goto(a, step, e)
      PROVE  \A b \in WalletActors : op'[b] = op[b]
  BY <1>0, <1>3, Hosts DEF Goto, RuntimeInv, RuntimeTypeOK
<1>4. Orchestrator \in SagaActors /\ Payments \subseteq SagaActors /\ SagaActors \subseteq Actors
  BY Cast DEF SagaActors
<1>5. CASE CreatePayment
  <2>1. PICK p \in Payments, u \in Users, x \in Amounts : CreateWalletPayment(p, u, x)
    BY <1>5 DEF CreatePayment
  <2>2. UNCHANGED <<store, busVars>> /\ \A b \in WalletActors : op'[b] = op[b]
    BY <1>3, <1>4, <2>1 DEF CreateWalletPayment, Build
  <2> QED BY <1>1, <1>2, <2>2
<1>6. CASE SagaReceive \/ SagaIgnore \/ CommitMessage(Orchestrator) \/ Crash(Orchestrator)
  <2>1. HandKept(Wallet)
    BY <1>0, <1>6, Cast, ConsumersKeepHands DEF SagaReceive, SagaIgnore
  <2>2. \A b \in WalletActors : op'[b] = op[b]
    <3>1. CASE Crash(Orchestrator)
      BY <1>0, <3>1, Hosts, Cast DEF Crash, WalletActors
    <3>2. CASE SagaReceive \/ SagaIgnore \/ CommitMessage(Orchestrator)
      BY <1>3, <1>4, <3>2 DEF SagaReceive, SagaIgnore, Receive, Ignore, CommitMessage
    <3> QED BY <1>6, <3>1, <3>2
  <2>3. UNCHANGED <<store, topic>>
    BY <1>6 DEF SagaReceive, SagaIgnore, Receive, Fetch, Ignore, Pass, CommitMessage, Commit, Crash, Rejoin
  <2>4. Published' = Published
    BY <2>3 DEF Published
  <2> QED BY <1>2, <2>1, <2>2, <2>3, <2>4
<1>7. CASE HandleAnswer
  <2>1. UNCHANGED <<store, busVars>> /\ \A b \in WalletActors : op'[b] = op[b]
    BY <1>3, <1>4, <1>7 DEF HandleAnswer, Build, Refuse
  <2> QED BY <1>1, <1>2, <2>1
<1>8. ASSUME NEW a \in SagaActors, Save(a)
      PROVE  /\ \A u \in Users : store'[u] = store[u]
             /\ Stored \subseteq Stored'
             /\ Published' = Published
  <2>1. PICK e : e = op[a].event
    OBVIOUS
  <2>2. BuiltBy(a, e)
    BY <1>4, <1>8, <2>1 DEF PaymentInv, OpsOK, Save
  <2>3. Aggregate(e) = e.payment /\ e.payment \in Payments
    BY <2>2, Cast DEF BuiltBy, Aggregate, WalletTypes, ConclusionTypes, Matches, SagaActors
  <2>4. \A x \in Aggregates : x # e.payment => store'[x] = store[x]
    BY <1>0, <1>4, <1>8, <2>1, <2>3, SaveAppends
  <2>5. \A u \in Users : store'[u] = store[u]
    BY <2>3, <2>4, Cast
  <2>6. Published' = Published
    BY <1>8 DEF Save, busVars, Published
  <2> QED BY <1>0, <1>4, <1>8, <2>5, <2>6, StoredGrows
<1>9. ASSUME NEW a \in SagaActors, Publish(a)
      PROVE  \A e \in Published' : e \in Published \/ e.type \notin WalletTypes
  <2>1. PICK e : e = op[a].event
    OBVIOUS
  <2>2. BuiltBy(a, e) /\ e \in Event /\ Send(e)
    BY <1>0, <1>4, <1>9, <2>1 DEF PaymentInv, OpsOK, Publish, RuntimeInv, BuiltOK
  <2>3. e.type \notin WalletTypes
    BY <2>2, Cast DEF BuiltBy, WalletTypes, ConclusionTypes, SagaActors
  <2>4. Published' \subseteq Published \cup {e}
    BY <1>0, <2>2, SendPublishes
  <2> QED BY <2>3, <2>4
<1>10. ASSUME NEW a \in SagaActors, Save(a) \/ StoreFails(a) \/ Publish(a)
       PROVE  HandKept(Wallet) /\ \A b \in WalletActors : op'[b] = op[b]
  <2>1. HandKept(Wallet)
    BY <1>0, <1>4, <1>10, WritesKeepHands
  <2>2. \A b \in WalletActors : op'[b] = op[b]
    BY <1>3, <1>10 DEF Save, StoreFails, Publish
  <2> QED BY <2>1, <2>2
<1>11. ASSUME NEW a \in SagaActors, StoreFails(a) PROVE UNCHANGED <<store, busVars>>
  BY <1>11 DEF StoreFails
<1>12. ASSUME NEW a \in SagaActors, Publish(a) PROVE UNCHANGED store
  BY <1>12 DEF Publish
<1>13. ASSUME NEW a \in SagaActors, Save(a) \/ StoreFails(a) \/ Publish(a)
       PROVE  /\ \A u \in Users : store'[u] = store[u]
              /\ Stored \subseteq Stored'
              /\ \A e \in Published' : e \in Published \/ e.type \notin WalletTypes
  BY <1>1, <1>2, <1>8, <1>9, <1>11, <1>12, <1>13
<1> QED BY <1>5, <1>6, <1>7, <1>10, <1>13 DEF SagaStep

LEMMA SameUsersSameAnswers ==
  ASSUME \A u \in Users : store'[u] = store[u] PROVE \A x : Answers(x)' = Answers(x)
BY DEF Answers

LEMMA SagaStepKeeps ==
  ASSUME WalletInv, SagaInv, StoredInv, PaymentInv, CreatePayment \/ SagaStep,
         UNCHANGED overlapped
  PROVE  /\ WalletInv' /\ SagaInv' /\ StoredInv' /\ PaymentInv'
         /\ ServedInv => ServedInv'
<1>0. RuntimeInv /\ Wallet \in Groups
  BY Cast DEF SagaInv
<1>1. SagaInv'
  <2>1. CASE CreatePayment
    <3>1. PICK p \in Payments, u \in Users, x \in Amounts : CreateWalletPayment(p, u, x)
      BY <2>1 DEF CreatePayment
    <3>2. /\ Build(p, NewWalletPaymentRequested(p, u, x)) /\ p \in Actors /\ p \notin Groups
          /\ NewWalletPaymentRequested(p, u, x) \in Event
      BY <3>1, Cast, RequestIsEvent DEF CreateWalletPayment
    <3>3. RuntimeInv'
      BY <1>0, <3>2, BuildKeepsInv
    <3>4. HandKept(Orchestrator)
      BY <3>2, Cast, StillKeepsHands DEF Build
    <3> QED BY <3>3, <3>4, SagaHandKept
  <2> QED BY <2>1, SagaStepInv
<1>2. PaymentInv'
  BY SagaStepPayments
<1>3. /\ HandKept(Wallet)
      /\ \A a \in WalletActors : op'[a] = op[a]
      /\ \A u \in Users : store'[u] = store[u]
      /\ Stored \subseteq Stored'
      /\ \A e \in Published' : e \in Published \/ e.type \notin WalletTypes
  BY SagaStepApart
<1>4. WalletInv'
  <2>1. RuntimeInv' BY <1>1 DEF SagaInv
  <2>2. HandIsRequest' BY <1>0, <1>3, <2>1, HandSame DEF WalletInv, HandIsRequest
  <2> QED BY <1>3, <2>1, <2>2, QuietStep
<1>5. StoredInv'
  BY <1>3, QuietStored
<1>6. ASSUME ServedInv PROVE ServedInv'
  <2>1. \A x : Answers(x)' = Answers(x)
    BY <1>3, SameUsersSameAnswers
  <2>2. \A p \in Partitions : position[Wallet][p] \in 0..Len(topic[p]) /\ Len(topic[p]) \in Nat
    BY WalletOffsets
  <2>3. \A p \in Partitions : \A i \in 1..position[Wallet][p] : topic'[p][i] = topic[p][i]
    BY <1>3, <2>2 DEF HandKept
  <2>4. op'[Wallet] = op[Wallet]
    BY <1>3 DEF WalletActors
  <2> QED BY <1>3, <1>6, <2>1, <2>3, <2>4, OthersServed DEF HandKept
<1> QED BY <1>1, <1>2, <1>4, <1>5, <1>6

(* The wallet's steps leave the orchestrator and the payments' logs alone. *)
LEMMA WalletStepApart ==
  ASSUME WalletInv, PaymentInv, WalletStep
  PROVE  /\ HandKept(Orchestrator)
         /\ \A a \in SagaActors : op'[a] = op[a]
         /\ \A p \in Payments : store'[p] = store[p]
<1>0. /\ RuntimeInv /\ Orchestrator \in Groups \ {Wallet} /\ SagaActors \subseteq Actors
      /\ Wallet \in WalletActors /\ WalletCalls \subseteq WalletActors /\ WalletActors \subseteq Actors
  BY Cast DEF WalletInv, WalletActors
<1>1. ASSUME NEW a \in WalletActors, NEW step, NEW e, Goto(a, step, e)
      PROVE  \A b \in SagaActors : op'[b] = op[b]
  BY <1>0, <1>1, Hosts DEF Goto, RuntimeInv, RuntimeTypeOK
<1>2. CASE WalletReceive \/ WalletIgnore \/ WalletCommit \/ WalletCrash
  <2>1. HandKept(Orchestrator)
    BY <1>0, <1>2, Cast, ConsumersKeepHands DEF WalletReceive, WalletIgnore, WalletCommit, WalletCrash
  <2>2. \A b \in SagaActors : op'[b] = op[b]
    <3>1. CASE WalletCrash
      BY <1>0, <3>1, Hosts, Cast DEF WalletCrash, Crash, SagaActors
    <3>2. CASE WalletReceive \/ WalletIgnore \/ WalletCommit
      BY <1>0, <1>1, <3>2
      DEF WalletReceive, WalletIgnore, WalletCommit, Receive, Ignore, CommitMessage
    <3> QED BY <1>2, <3>1, <3>2
  <2>3. UNCHANGED store
    BY <1>2 DEF WalletReceive, WalletIgnore, WalletCommit, WalletCrash,
                Receive, Ignore, CommitMessage, Crash
  <2> QED BY <2>1, <2>2, <2>3
<1>3. ASSUME NEW a \in WalletActors, NEW e, Build(a, e)
      PROVE  /\ HandKept(Orchestrator)
             /\ \A b \in SagaActors : op'[b] = op[b]
             /\ \A p \in Payments : store'[p] = store[p]
  BY <1>0, <1>1, <1>3, StillKeepsHands DEF Build
<1>4. CASE HandleWalletPaymentRequested \/ \E c \in WalletCalls, u \in Users, x \in Amounts :
             AddFunds(c, u, x) \/ \E p \in Payments : ProcessRefund(c, p, u, x)
  BY <1>0, <1>3, <1>4 DEF HandleWalletPaymentRequested, AddFunds, ProcessRefund
<1>5. ASSUME NEW a \in WalletActors, WalletSave(a) \/ WalletStoreFails(a) \/ WalletPublish(a)
      PROVE  /\ HandKept(Orchestrator)
             /\ \A b \in SagaActors : op'[b] = op[b]
             /\ \A p \in Payments : store'[p] = store[p]
  <2>1. HandKept(Orchestrator)
    BY <1>0, <1>5, WritesKeepHands DEF WalletSave, WalletStoreFails, WalletPublish
  <2>2. \A b \in SagaActors : op'[b] = op[b]
    BY <1>1, <1>5 DEF WalletSave, WalletStoreFails, WalletPublish, Save, StoreFails, Publish
  <2>3. CASE WalletSave(a)
    <3>1. PICK e : e = op[a].event
      OBVIOUS
    <3>2. Sound(e) /\ e \in Event
      BY <2>3, <3>1, <1>0 DEF WalletInv, BuiltAreSound, WalletSave, Save, RuntimeInv, BuiltOK
    <3>3. Aggregate(e) = e.user /\ e.user \in Users
      BY <3>2 DEF Sound, Aggregate, Event
    <3>4. \A x \in Aggregates : x # e.user => store'[x] = store[x]
      BY <1>0, <2>3, <3>1, <3>3, SaveAppends DEF WalletSave
    <3> QED BY <2>1, <2>2, <3>3, <3>4, Cast
  <2>4. CASE WalletStoreFails(a) \/ WalletPublish(a)
    BY <2>1, <2>2, <2>4 DEF WalletStoreFails, WalletPublish, StoreFails, Publish
  <2> QED BY <1>5, <2>3, <2>4
<1> QED BY <1>2, <1>4, <1>5 DEF WalletStep

LEMMA WalletStepKeeps ==
  ASSUME WalletInv, SagaInv, StoredInv, PaymentInv, WalletStep
  PROVE  /\ WalletInv' /\ SagaInv' /\ StoredInv' /\ PaymentInv'
         /\ "store" \notin FaultKinds /\ ServedInv => ServedInv'
<1>1. WalletInv' /\ StoredInv' /\ PaymentInv'
  BY WalletStepInv, WalletStepStored, WalletStepPayments
<1>2. SagaInv'
  BY <1>1, WalletStepApart, SagaHandKept DEF WalletInv
<1> QED BY <1>1, <1>2, WalletStepServed

----
SagaSystemInv ==
  /\ WalletInv /\ SagaInv /\ StoredInv /\ PaymentInv
  /\ "store" \notin FaultKinds => ServedInv

LEMMA SagaInitInv == SagaInit => SagaSystemInv
<1> SUFFICES ASSUME WalletInit PROVE SagaSystemInv
  BY DEF SagaInit
<1>1. WalletInv /\ StoredInv /\ ServedInv
  BY WalletInitInv, StoredInit, ServedInit
<1>2. \A a \in Actors : At(a, "idle") /\ ~At(a, "save") /\ ~At(a, "publish")
  BY DEF WalletInit, RuntimeInit, At
<1>3. \A x \in Aggregates : store[x] = <<>>
  BY DEF WalletInit, RuntimeInit, StoreInit
<1>4. SagaInv
  BY <1>1, <1>2, Cast DEF SagaInv, HandIsAnswer, WalletInv
<1>5. TopicOK
  <2>1. \A p \in Partitions : topic[p] = <<>>
    BY DEF WalletInit, RuntimeInit, BusInit
  <2>2. DOMAIN <<>> = {}
    OBVIOUS
  <2>3. Published = {}
    BY <2>1, <2>2 DEF Published
  <2> QED BY <2>3 DEF TopicOK
<1>6. OpsOK
  BY <1>2, <1>3, Cast DEF OpsOK
<1>7. LogsOK
  <2>1. DOMAIN <<>> = {}
    OBVIOUS
  <2> QED BY <1>3, <2>1, Cast DEF LogsOK, PaymentLog, WalletLog
<1> QED BY <1>1, <1>4, <1>5, <1>6, <1>7 DEF SagaSystemInv, PaymentInv

LEMMA SagaNextInv == SagaSystemInv /\ [SagaNext]_walletVars => SagaSystemInv'
<1> SUFFICES ASSUME SagaSystemInv, [SagaNext]_walletVars PROVE SagaSystemInv'
  OBVIOUS
<1>1. CASE (CreatePayment \/ SagaStep) /\ UNCHANGED overlapped
  BY <1>1, SagaStepKeeps DEF SagaSystemInv
<1>2. CASE WalletStep
  BY <1>2, WalletStepKeeps DEF SagaSystemInv
<1>3. CASE UNCHANGED walletVars
  <2>1. /\ UNCHANGED <<store, busVars, topic, position, committed, current, op, faults, overlapped>>
    BY <1>3 DEF walletVars, runtimeVars, busVars
  <2>2. RuntimeInv'
    BY <2>1 DEF SagaSystemInv, SagaInv, RuntimeInv, RuntimeTypeOK, OffsetsOK, HandOK, BuiltOK, At
  <2>3. SagaInv'
    BY <2>1, <2>2, Cast, StillKeepsHands, SagaHandKept DEF SagaSystemInv
  <2>4. HandIsRequest'
    BY <2>1 DEF SagaSystemInv, WalletInv, HandIsRequest, InHand, At
  <2>5. WalletInv'
    BY <2>1, <2>2, <2>4, QuietStep DEF SagaSystemInv
  <2>6. Stored' = Stored /\ Published' = Published
    BY <2>1 DEF Stored, Published
  <2>7. StoredInv'
    BY <2>1, <2>6, QuietStored DEF SagaSystemInv
  <2>8. PaymentInv'
    BY <2>1, QuietKeepsPayments DEF Quiet, SagaSystemInv
  <2>9. "store" \notin FaultKinds => ServedInv'
    <3>1. \A x : Answers(x)' = Answers(x)
      BY <2>1, SameUsersSameAnswers
    <3> QED BY <2>1, <3>1, OthersServed DEF SagaSystemInv
  <2> QED BY <2>3, <2>5, <2>7, <2>8, <2>9 DEF SagaSystemInv
<1> QED BY <1>1, <1>2, <1>3 DEF SagaNext

LEMMA SagaSystemInvHolds == SagaSpec => []SagaSystemInv
BY SagaInitInv, SagaNextInv, PTL DEF SagaSpec

(* Every reachable state of the wallet service, with the orchestrator      *)
(* beside it, is well typed: the logs and the topic hold events whose      *)
(* amounts and balances are whole and not negative.                        *)
THEOREM WalletTypeCorrect == SagaSpec => []WalletTypeOK
<1>1. SagaSystemInv => WalletTypeOK
  BY DEF SagaSystemInv, WalletInv, WalletTypeOK, RuntimeInv
<1> QED BY <1>1, SagaSystemInvHolds, PTL

(* However the consumer and the HTTP calls interleave, and whatever fails, *)
(* no wallet event leaves a negative balance or debits more than there was.*)
THEOREM NeverOverdrawn == SagaSpec => []NoOverdraft
<1>1. SagaSystemInv => NoOverdraft
  BY DEF SagaSystemInv, WalletInv
<1> QED BY <1>1, SagaSystemInvHolds, PTL

(* A wallet's log is an exact account unless two operations on it          *)
(* overlapped between their load and their save.                           *)
THEOREM ExactWithoutOverlap == SagaSpec => []ExactUnlessOverlapped
<1>1. SagaSystemInv => ExactUnlessOverlapped
  BY DEF SagaSystemInv, WalletInv, ExactInFlight, ExactUnlessOverlapped
<1> QED BY <1>1, SagaSystemInvHolds, PTL

(* A wallet event that other services can read is in its user's log: every *)
(* handler and HTTP call saves before it publishes, and no crash, failure  *)
(* or interleaving takes a saved event away.                               *)
THEOREM PublishedWereSaved == SagaSpec => []PublishedAreStored
<1>1. SagaSystemInv => PublishedAreStored
  BY DEF SagaSystemInv, StoredInv
<1> QED BY <1>1, SagaSystemInvHolds, PTL

(* Delivery to the wallet is at least once: unless the events table fails, *)
(* a payment request whose offset is committed has been answered in a log, *)
(* through any crash, lost or repeated message and failed commit.          *)
THEOREM RequestsAreAnswered == SagaSpec => []CommittedAreAnswered
<1>1. SagaSystemInv => CommittedAreAnswered
  BY SettledCommits DEF SagaSystemInv, CommittedAreAnswered
<1> QED BY <1>1, SagaSystemInvHolds, PTL

(* The orchestrator ends a payment only as the wallet has decided: it is   *)
(* completed only after a debit of the amount that was asked for from the  *)
(* wallet of the user that asked, and failed only after a refusal, however *)
(* often the wallet's answers are delivered and whatever crashes.          *)
THEOREM ConcludedAsDecided == SagaSpec => []ConclusionsJustified
<1>1. SagaSystemInv => ConclusionsJustified
  <2> SUFFICES ASSUME SagaSystemInv, NEW p \in Payments, NEW i \in DOMAIN store[p]
               PROVE  LET request == store[p][1]
                          e       == store[p][i]
                          D(type) == \E j \in DOMAIN store[request.user] :
                                       LET d == store[request.user][j]
                                       IN  /\ d.type = type
                                           /\ d.payment = p
                                           /\ d.amount = request.amount
                      IN  /\ e.type = "WalletPaymentCompleted" => D("FundsDebited")
                          /\ e.type = "WalletPaymentFailed" => D("FundsInsufficient")
                          /\ e.user = request.user /\ e.amount = request.amount
    BY DEF ConclusionsJustified
  <2>1. /\ PaymentLog(p) /\ Len(store[p]) \in Nat /\ i \in 1..Len(store[p])
        /\ store[p] # <<>>
    BY Cast, LogIsSeq DEF SagaSystemInv, SagaInv, PaymentInv, LogsOK
  <2>2. CASE i = 1
    BY <2>1, <2>2 DEF PaymentLog
  <2>3. CASE i # 1
    <3>1. i = 2 /\ Len(store[p]) = 2
      <4>1. PICK n : n = Len(store[p])
        OBVIOUS
      <4>2. n \in Nat /\ n <= 2 /\ i \in 1..n
        BY <2>1, <4>1 DEF PaymentLog
      <4>3. i = 2 /\ n = 2
        BY <2>3, <4>2
      <4> QED BY <4>1, <4>3
    <3>2. /\ store[p][2].payment = p /\ Matches(store[p][2]) /\ Justified(store[p][2])
      BY <2>1, <3>1 DEF PaymentLog
    <3> QED BY <3>1, <3>2 DEF Matches, Justified, Decided
  <2> QED BY <2>2, <2>3
<1> QED BY <1>1, SagaSystemInvHolds, PTL

(* A log whose request names a user is rebuilt, as what it holds says.     *)
LEMMA StatusOfLog ==
  ASSUME NEW log \in Seq(Event), log # <<>>, Len(log) <= 2,
         log[1].type = "WalletPaymentRequested", log[1].user # NoUser,
         Len(log) = 2 => log[2].type \in ConclusionTypes
  PROVE  /\ CanRebuild(log)
         /\ \/ Len(log) = 1 /\ PaymentStatus(log) = "VALIDATING_BALANCE"
            \/ /\ Len(log) = 2
               /\ log[2].type = "WalletPaymentCompleted" /\ PaymentStatus(log) = "COMPLETED"
            \/ /\ Len(log) = 2
               /\ log[2].type = "WalletPaymentFailed" /\ PaymentStatus(log) = "FAILED"
<1>1. Len(log) \in Nat /\ Len(log) # 0
  BY LenProperties, EmptySeq
<1>2. Requests(log) # {} /\ Min(Requests(log)) = 1
  BY FirstRequestOwns DEF RequestTypes
<1>3. HasOwner(log)
  BY <1>2 DEF HasOwner
<1>4. Len(log) = 1 \/ Len(log) = 2
  <2>1. PICK n : n = Len(log)
    OBVIOUS
  <2>2. n \in Nat /\ n # 0 /\ n <= 2
    BY <1>1, <2>1
  <2>3. n = 1 \/ n = 2
    BY <2>2
  <2> QED BY <2>1, <2>3
<1>5. CASE Len(log) = 1
  <2>1. MovesAllowed(log) /\ StateOf(log) = "VALIDATING_BALANCE"
    BY <1>5, RequestedLog
  <2> QED BY <1>3, <1>5, <2>1 DEF CanRebuild, PaymentStatus
<1>6. CASE Len(log) = 2
  <2>1. /\ MovesAllowed(log)
        /\ StateOf(log) = IF log[2].type = "WalletPaymentCompleted" THEN "COMPLETED" ELSE "FAILED"
    BY <1>6, ConcludedLog
  <2> QED BY <1>3, <1>6, <2>1 DEF CanRebuild, PaymentStatus, ConclusionTypes
<1> QED BY <1>4, <1>5, <1>6

LEMMA PaymentLogRebuilds ==
  ASSUME RuntimeInv, PaymentInv, NEW p \in Payments, store[p] # <<>>, NoUser \notin Users
  PROVE  /\ CanRebuild(store[p])
         /\ \/ Len(store[p]) = 1 /\ StatusNow(p) = "VALIDATING_BALANCE"
            \/ /\ Len(store[p]) = 2
               /\ store[p][2].type = "WalletPaymentCompleted" /\ StatusNow(p) = "COMPLETED"
            \/ /\ Len(store[p]) = 2
               /\ store[p][2].type = "WalletPaymentFailed" /\ StatusNow(p) = "FAILED"
<1>1. /\ store[p] \in Seq(Event) /\ Len(store[p]) <= 2
      /\ store[p][1].type = "WalletPaymentRequested"
      /\ Len(store[p]) = 2 => store[p][2].type \in ConclusionTypes
  BY Cast, LogIsSeq DEF PaymentInv, LogsOK, PaymentLog
<1>2. store[p][1].user # NoUser
  <2>1. 1 \in 1..Len(store[p])
    BY Cast, LogIsSeq
  <2>2. store[p][1] \in Event
    BY <1>1, <2>1, ElementOfSeq
  <2> QED BY <2>2 DEF Event
<1> QED BY <1>1, <1>2, StatusOfLog DEF StatusNow

(* A wallet payment can always be rebuilt from its events, whatever is     *)
(* delivered twice: the orchestrator concludes it once.  (Of a payment     *)
(* for the empty user id this is not true: the rebuild finds no owner.)    *)
THEOREM WalletPaymentsRebuild ==
  ASSUME NoUser \notin Users
  PROVE  SagaSpec => []AlwaysRebuildable
<1>1. SagaSystemInv => AlwaysRebuildable
  BY PaymentLogRebuilds DEF SagaSystemInv, SagaInv, AlwaysRebuildable
<1> QED BY <1>1, SagaSystemInvHolds, PTL

(* Publish computes one partition for all events about one user that are   *)
(* on the topic or about to be put there, and refuses none of them.        *)
THEOREM OnePartitionPerUser ==
  ASSUME NoUser \notin Users
  PROVE  SagaSpec => []UserEventsTogether
<1>1. SagaSystemInv => UserEventsTogether
  <2> SUFFICES ASSUME SagaSystemInv, NEW e \in Outgoing, NEW f \in Outgoing, e.user = f.user
               PROVE  GetPartition(e) = GetPartition(f) /\ GetPartition(e) # Refused
    BY DEF UserEventsTogether
  <2>1. ASSUME NEW x \in Outgoing
        PROVE  x.type \in WalletEvents /\ x.user \in Users
    <3>1. CASE x \in Published
      <4>1. PICK q \in Partitions : \E i \in DOMAIN topic[q] : topic[q][i] = x
        BY <3>1 DEF Published
      <4>2. PICK i \in DOMAIN topic[q] : topic[q][i] = x
        BY <4>1
      <4>3. topic[q] \in Seq(Event) /\ i \in 1..Len(topic[q])
        BY LenProperties DEF SagaSystemInv, SagaInv, RuntimeInv, RuntimeTypeOK
      <4>4. x \in Event
        BY <4>2, <4>3, ElementOfSeq
      <4> QED BY <3>1, <4>4 DEF SagaSystemInv, PaymentInv, TopicOK, Event
    <3>2. CASE x \notin Published
      <4>1. PICK a \in Actors : At(a, "publish") /\ x = op[a].event
        BY <2>1, <3>2 DEF Outgoing
      <4>2. x \in Event /\ BuiltBy(a, x)
        BY <4>1 DEF SagaSystemInv, SagaInv, RuntimeInv, BuiltOK, PaymentInv, OpsOK
      <4> QED BY <4>2 DEF Event, BuiltBy, WalletEvents, AnswerTypes, ConclusionTypes
    <3> QED BY <3>1, <3>2
  <2>2. ASSUME NEW x \in Outgoing PROVE GetPartition(x) = Slot(x.user)
    <3>1. x.type \in WalletEvents /\ x.user # NoUser /\ x.user # NoPayment
      BY <2>1, <2>2, EventsAssumption
    <3> QED BY <3>1 DEF GetPartition
  <2>3. Slot(e.user) # Refused
    <3>1. HashKey[e.user] \in Nat
      BY <2>1, PartitionAssumption DEF Keys
    <3>2. PICK n \in Nat \ {0} : n = NumPartitions \div 2
      BY PartitionAssumption
    <3>3. Slot(e.user) >= 0
      BY <3>1, <3>2 DEF Slot
    <3> QED BY <3>3 DEF Refused
  <2> QED BY <2>2, <2>3
<1> QED BY <1>1, SagaSystemInvHolds, PTL

----
(* As long as no message is delivered twice, a payment is asked of the     *)
(* wallet once: until the call that creates it is done nothing of it is on *)
(* the topic, and while its request is unread or in service no wallet      *)
(* holds an answer to it.                                                  *)
IsRequest(q, i, p) ==
  /\ i \in 1..Len(topic[q])
  /\ topic[q][i].type = "WalletPaymentRequested"
  /\ topic[q][i].payment = p

Unserved(q, i) ==
  \/ i > position[Wallet][q]
  \/ InService /\ current[Wallet] = q /\ position[Wallet][q] = i

AskedOnce ==
  \A p \in Payments, q, r \in Partitions : \A i \in 1..Len(topic[q]), j \in 1..Len(topic[r]) :
    IsRequest(q, i, p) /\ IsRequest(r, j, p) => q = r /\ i = j

AskedByCall ==
  \A p \in Payments, q \in Partitions : \A i \in 1..Len(topic[q]) :
    IsRequest(q, i, p) => At(p, "done")

UnservedUnanswered ==
  \A p \in Payments, q \in Partitions : \A i \in 1..Len(topic[q]) :
    IsRequest(q, i, p) /\ Unserved(q, i) => Answers(p) = {}

AnsweredAsked ==
  \A p \in Payments :
    Answers(p) # {} => \E q \in Partitions : \E i \in 1..Len(topic[q]) : IsRequest(q, i, p)

OneAnswer == \A p \in Payments : \A x, y \in Answers(p) : x = y

SavesForHand == At(Wallet, "save") => op[Wallet].event.payment = InHand(Wallet).payment

OnceInv ==
  AskedOnce /\ AskedByCall /\ UnservedUnanswered /\ AnsweredAsked /\ OneAnswer /\ SavesForHand

(* What nothing but a new request, a fetch or an answer can disturb.       *)
LEMMA OnceKept ==
  ASSUME OnceInv,
         \A q \in Partitions : \A i : \A p \in Payments :
           IsRequest(q, i, p)' <=> IsRequest(q, i, p),
         \A q \in Partitions : \A i \in 1..Len(topic[q]) : Unserved(q, i)' => Unserved(q, i),
         \A p \in Payments : Answers(p)' = Answers(p),
         \A p \in Payments : op[p].at = "done" => op'[p].at = "done",
         SavesForHand'
  PROVE  OnceInv'
<1>0. \A q \in Partitions : \A i : \A p \in Payments :
        IsRequest(q, i, p)' => IsRequest(q, i, p) /\ i \in 1..Len(topic[q])
  <2>1. \A q \in Partitions : \A i : \A p \in Payments :
          IsRequest(q, i, p) => i \in 1..Len(topic[q])
    BY DEF IsRequest
  <2> QED BY <2>1
<1>1. AskedOnce'
  <2> SUFFICES ASSUME NEW p \in Payments, NEW q \in Partitions, NEW r \in Partitions,
                      NEW i \in 1..Len(topic'[q]), NEW j \in 1..Len(topic'[r]),
                      IsRequest(q, i, p)', IsRequest(r, j, p)'
               PROVE  q = r /\ i = j
    BY DEF AskedOnce
  <2>1. IsRequest(q, i, p) /\ i \in 1..Len(topic[q]) /\ IsRequest(r, j, p) /\ j \in 1..Len(topic[r])
    BY <1>0
  <2> QED BY <2>1 DEF OnceInv, AskedOnce
<1>2. AskedByCall'
  <2> SUFFICES ASSUME NEW p \in Payments, NEW q \in Partitions, NEW i \in 1..Len(topic'[q]),
                      IsRequest(q, i, p)'
               PROVE  At(p, "done")'
    BY DEF AskedByCall
  <2>1. IsRequest(q, i, p) /\ i \in 1..Len(topic[q])
    BY <1>0
  <2> QED BY <2>1 DEF OnceInv, AskedByCall, At
<1>3. UnservedUnanswered'
  <2> SUFFICES ASSUME NEW p \in Payments, NEW q \in Partitions, NEW i \in 1..Len(topic'[q]),
                      IsRequest(q, i, p)', Unserved(q, i)'
               PROVE  Answers(p)' = {}
    BY DEF UnservedUnanswered
  <2>1. IsRequest(q, i, p) /\ i \in 1..Len(topic[q])
    BY DEF IsRequest
  <2> QED BY <2>1 DEF OnceInv, UnservedUnanswered
<1>4. AnsweredAsked'
  <2> SUFFICES ASSUME NEW p \in Payments, Answers(p)' # {}
               PROVE  \E q \in Partitions : \E i \in 1..Len(topic'[q]) : IsRequest(q, i, p)'
    BY DEF AnsweredAsked
  <2>1. PICK q \in Partitions : \E i \in 1..Len(topic[q]) : IsRequest(q, i, p)
    BY DEF OnceInv, AnsweredAsked
  <2>2. PICK i \in 1..Len(topic[q]) : IsRequest(q, i, p)
    BY <2>1
  <2>3. IsRequest(q, i, p)'
    BY <2>2
  <2>4. i \in 1..Len(topic'[q])
    BY <2>3 DEF IsRequest
  <2> QED BY <2>3, <2>4
<1>5. OneAnswer'
  BY DEF OnceInv, OneAnswer
<1> QED BY <1>1, <1>2, <1>3, <1>4, <1>5 DEF OnceInv

LEMMA SameTopicSameRequests ==
  ASSUME UNCHANGED topic
  PROVE  \A q \in Partitions : \A i : \A p \in Payments : IsRequest(q, i, p)' <=> IsRequest(q, i, p)
BY DEF IsRequest

(* An event that asks nothing adds no request.                             *)
LEMMA SendAsksNothing ==
  ASSUME RuntimeInv, NEW m \in Event, Send(m), m.type # "WalletPaymentRequested"
  PROVE  \A q \in Partitions : \A i : \A p \in Payments : IsRequest(q, i, p)' <=> IsRequest(q, i, p)
<1> SUFFICES ASSUME NEW q \in Partitions, NEW i, NEW p \in Payments
             PROVE  IsRequest(q, i, p)' <=> IsRequest(q, i, p)
  OBVIOUS
<1>1. Len(topic[q]) \in Nat /\ Len(topic'[q]) \in Nat
  BY SendAppends, LenProperties DEF RuntimeInv, RuntimeTypeOK
<1>2. /\ Len(topic[q]) <= Len(topic'[q])
      /\ \A j \in 1..Len(topic[q]) : topic'[q][j] = topic[q][j]
      /\ \A j \in 1..Len(topic'[q]) : j > Len(topic[q]) => topic'[q][j] = m
  BY SendAppends
<1>3. ASSUME IsRequest(q, i, p) PROVE IsRequest(q, i, p)'
  BY <1>1, <1>2, <1>3 DEF IsRequest
<1>4. ASSUME IsRequest(q, i, p)' PROVE IsRequest(q, i, p)
  <2>1. i \in 1..Len(topic'[q]) /\ topic'[q][i] # m
    BY <1>4 DEF IsRequest
  <2>2. i \in 1..Len(topic[q])
    BY <1>1, <1>2, <2>1
  <2> QED BY <1>2, <1>4, <2>2 DEF IsRequest
<1> QED BY <1>3, <1>4

(* A message is written once or not at all when none is duplicated.        *)
LEMMA SendsOnce ==
  ASSUME "duplicate" \notin FaultKinds, NEW m, Send(m)
  PROVE  \/ UNCHANGED topic
         \/ \E q \in Partitions : topic' = [topic EXCEPT ![q] = Append(@, m)]
BY DEF Send, Fault

(* A step that leaves the wallet's consumer alone leaves what it has in    *)
(* hand, and what it has not served yet, apart from new messages.          *)
LEMMA ConsumerLeft ==
  ASSUME WalletInv, OnceInv, HandKept(Wallet), op'[Wallet] = op[Wallet]
  PROVE  SavesForHand' /\ \A q \in Partitions : \A i : Unserved(q, i)' => Unserved(q, i)
<1>1. \A q \in Partitions : \A i : Unserved(q, i)' => Unserved(q, i)
  BY DEF HandKept, Unserved, InService, At
<1>2. At(Wallet, "save") => InHand(Wallet)' = InHand(Wallet)
  <2> SUFFICES ASSUME At(Wallet, "save") PROVE InHand(Wallet)' = InHand(Wallet)
    OBVIOUS
  <2>1. current[Wallet] \in Partitions
    BY WalletOffsets DEF At
  <2>2. position[Wallet][current[Wallet]] \in 1..Len(topic[current[Wallet]])
    <3>1. current[Wallet] # NoPartition
      BY <2>1, BusAssumption
    <3> QED BY <2>1, <3>1, WalletOffsets DEF WalletInv, RuntimeInv, HandOK
  <2> QED BY <2>1, <2>2 DEF HandKept, InHand
<1>3. SavesForHand'
  BY <1>2 DEF OnceInv, SavesForHand, At
<1> QED BY <1>1, <1>3

(* A step of neither the wallet's consumer nor its topic.                  *)
LEMMA OthersOnce ==
  ASSUME WalletInv, OnceInv, HandKept(Wallet), op'[Wallet] = op[Wallet],
         \A q \in Partitions : \A i : \A p \in Payments :
           IsRequest(q, i, p)' <=> IsRequest(q, i, p),
         \A p \in Payments : Answers(p)' = Answers(p),
         \A p \in Payments : op[p].at = "done" => op'[p].at = "done"
  PROVE  OnceInv'
BY ConsumerLeft, OnceKept

LEMMA DoneStays ==
  ASSUME RuntimeInv, NEW a \in Actors, NEW step, NEW e, Goto(a, step, e),
         a \in Payments => ~At(a, "done")
  PROVE  \A p \in Payments : op[p].at = "done" => op'[p].at = "done"
BY Cast DEF Goto, At, RuntimeInv, RuntimeTypeOK

(* The request of payment p is published by the call that creates it.      *)
LEMMA PublishRequestOnce ==
  ASSUME WalletInv, SagaInv, PaymentInv, OnceInv, "duplicate" \notin FaultKinds,
         NEW p \in Payments, Publish(p)
  PROVE  OnceInv'
<1>0. RuntimeInv /\ p \in Actors /\ p \in SagaActors /\ p # Wallet /\ p \notin Groups
  BY Cast DEF SagaInv, SagaActors
<1>1. PICK m : m = op[p].event
  OBVIOUS
<1>2. m \in Event /\ m.type = "WalletPaymentRequested" /\ m.payment = p /\ Send(m) /\ At(p, "publish")
  BY <1>0, <1>1, Cast DEF Publish, RuntimeInv, BuiltOK, PaymentInv, OpsOK, BuiltBy
<1>3. op'[p].at = "done" /\ \A a \in Actors \ {p} : op'[a] = op[a]
  BY <1>0 DEF Publish, Goto, Ended, RuntimeInv, RuntimeTypeOK
<1>4. \A x : Answers(x)' = Answers(x)
  BY SameUsersSameAnswers DEF Publish
<1>5. HandKept(Wallet) /\ op'[Wallet] = op[Wallet]
  BY <1>0, <1>3, Cast, WritesKeepHands
<1>6. \A x \in Payments : op[x].at = "done" => op'[x].at = "done"
  BY <1>3, Cast
<1>7. CASE UNCHANGED topic
  BY <1>4, <1>5, <1>6, <1>7, SameTopicSameRequests, OthersOnce
<1>8. ASSUME NEW q \in Partitions, topic' = [topic EXCEPT ![q] = Append(@, m)]
      PROVE  OnceInv'
  <2> PICK k : k = Len(topic[q]) + 1
    OBVIOUS
  <2>1. \A r \in Partitions : \A i : \A x \in Payments :
          IsRequest(r, i, x)' <=> IsRequest(r, i, x) \/ (r = q /\ i = k /\ x = p)
    <3> SUFFICES ASSUME NEW r \in Partitions, NEW i, NEW x \in Payments
                 PROVE  IsRequest(r, i, x)' <=> IsRequest(r, i, x) \/ (r = q /\ i = k /\ x = p)
      OBVIOUS
    <3>1. topic[r] \in Seq(Event) /\ topic[q] \in Seq(Event) /\ Len(topic[r]) \in Nat
      BY <1>0, LenProperties DEF RuntimeInv, RuntimeTypeOK
    <3>2. CASE r # q
      <4>1. topic'[r] = topic[r]
        BY <1>0, <1>8, <3>2 DEF RuntimeInv, RuntimeTypeOK
      <4> QED BY <3>2, <4>1 DEF IsRequest
    <3>3. CASE r = q
      <4>1. topic'[q] = Append(topic[q], m)
        BY <1>0, <1>8 DEF RuntimeInv, RuntimeTypeOK
      <4>2. /\ Len(topic'[q]) = k /\ topic'[q][k] = m
            /\ \A j \in 1..Len(topic[q]) : topic'[q][j] = topic[q][j]
        BY <1>2, <3>1, <4>1, AppendProperties
      <4>3. i \in 1..k <=> i \in 1..Len(topic[q]) \/ i = k
        BY <3>1, <3>3
      <4>4. ~(k \in 1..Len(topic[q]))
        BY <3>1, <3>3
      <4> QED BY <1>2, <3>3, <4>2, <4>3, <4>4 DEF IsRequest
    <3> QED BY <3>2, <3>3
  <2>2. \A r \in Partitions : \A i : ~IsRequest(r, i, p)
    BY <1>2 DEF OnceInv, AskedByCall, At, IsRequest
  <2>3. Answers(p) = {}
    BY <2>2 DEF OnceInv, AnsweredAsked
  <2>4. SavesForHand' /\ \A r \in Partitions : \A i : Unserved(r, i)' => Unserved(r, i)
    BY <1>5, ConsumerLeft
  <2>5. \A r \in Partitions : \A i : \A x \in Payments : IsRequest(r, i, x) => i \in 1..Len(topic[r])
    BY DEF IsRequest
  <2>6. AskedOnce'
    <3> SUFFICES ASSUME NEW x \in Payments, NEW r \in Partitions, NEW s \in Partitions,
                        NEW i \in 1..Len(topic'[r]), NEW j \in 1..Len(topic'[s]),
                        IsRequest(r, i, x)', IsRequest(s, j, x)'
                 PROVE  r = s /\ i = j
      BY DEF AskedOnce
    <3>1. CASE x = p
      BY <2>1, <2>2, <3>1
    <3>2. CASE x # p
      <4>1. /\ IsRequest(r, i, x) /\ i \in 1..Len(topic[r])
            /\ IsRequest(s, j, x) /\ j \in 1..Len(topic[s])
        BY <2>1, <2>5, <3>2
      <4> QED BY <4>1 DEF OnceInv, AskedOnce
    <3> QED BY <3>1, <3>2
  <2>7. AskedByCall'
    <3> SUFFICES ASSUME NEW x \in Payments, NEW r \in Partitions, NEW i \in 1..Len(topic'[r]),
                        IsRequest(r, i, x)'
                 PROVE  op'[x].at = "done"
      BY DEF AskedByCall, At
    <3>1. CASE x = p
      BY <1>3, <3>1
    <3>2. CASE x # p
      <4>1. IsRequest(r, i, x) /\ i \in 1..Len(topic[r])
        BY <2>1, <2>5, <3>2
      <4> QED BY <1>6, <4>1 DEF OnceInv, AskedByCall, At
    <3> QED BY <3>1, <3>2
  <2>8. UnservedUnanswered'
    <3> SUFFICES ASSUME NEW x \in Payments, NEW r \in Partitions, NEW i \in 1..Len(topic'[r]),
                        IsRequest(r, i, x)', Unserved(r, i)'
                 PROVE  Answers(x)' = {}
      BY DEF UnservedUnanswered
    <3>1. CASE x = p
      BY <1>4, <2>3, <3>1
    <3>2. CASE x # p
      <4>1. IsRequest(r, i, x) /\ i \in 1..Len(topic[r]) /\ Unserved(r, i)
        BY <2>1, <2>4, <2>5, <3>2
      <4> QED BY <1>4, <4>1 DEF OnceInv, UnservedUnanswered
    <3> QED BY <3>1, <3>2
  <2>9. AnsweredAsked'
    <3> SUFFICES ASSUME NEW x \in Payments, Answers(x)' # {}
                 PROVE  \E r \in Partitions : \E i \in 1..Len(topic'[r]) : IsRequest(r, i, x)'
      BY DEF AnsweredAsked
    <3>1. Answers(x) # {}
      BY <1>4
    <3>2. PICK r \in Partitions : \E i \in 1..Len(topic[r]) : IsRequest(r, i, x)
      BY <3>1 DEF OnceInv, AnsweredAsked
    <3>3. PICK i \in 1..Len(topic[r]) : IsRequest(r, i, x)
      BY <3>2
    <3>4. IsRequest(r, i, x)'
      BY <2>1, <3>3
    <3>5. i \in 1..Len(topic'[r])
      BY <3>4 DEF IsRequest
    <3> QED BY <3>4, <3>5
  <2>10. OneAnswer'
    BY <1>4 DEF OnceInv, OneAnswer
  <2> QED BY <2>4, <2>6, <2>7, <2>8, <2>9, <2>10 DEF OnceInv
<1> QED BY <1>2, <1>7, <1>8, SendsOnce

LEMMA SagaStepOnce ==
  ASSUME WalletInv, SagaInv, PaymentInv, OnceInv, {"crash", "duplicate"} \cap FaultKinds = {},
         CreatePayment \/ SagaStep
  PROVE  OnceInv'
<1>0. RuntimeInv /\ Orchestrator \in Actors /\ Orchestrator \notin Payments /\ SagaActors \subseteq Actors
  BY Cast DEF SagaInv
<1>1. /\ HandKept(Wallet) /\ op'[Wallet] = op[Wallet]
      /\ \A x : Answers(x)' = Answers(x)
  BY SagaStepApart, SameUsersSameAnswers DEF WalletActors
<1>2. ASSUME NEW a \in Actors, NEW step, NEW e, Goto(a, step, e),
             a \in Payments => ~At(a, "done"), UNCHANGED topic
      PROVE  OnceInv'
  BY <1>0, <1>1, <1>2, DoneStays, SameTopicSameRequests, OthersOnce
<1>3. CASE CreatePayment
  <2>1. PICK p \in Payments, u \in Users, x \in Amounts : CreateWalletPayment(p, u, x)
    BY <1>3 DEF CreatePayment
  <2> QED BY <1>2, <2>1, Cast DEF CreateWalletPayment, Build, busVars, At
<1>4. CASE SagaReceive
  BY <1>0, <1>2, <1>4 DEF SagaReceive, Receive, Fetch
<1>5. CASE SagaIgnore
  BY <1>1, <1>5, SameTopicSameRequests, OthersOnce DEF SagaIgnore, Ignore, Pass
<1>6. CASE HandleAnswer
  BY <1>0, <1>2, <1>6 DEF HandleAnswer, Build, Refuse, busVars
<1>7. CASE CommitMessage(Orchestrator)
  BY <1>0, <1>2, <1>7 DEF CommitMessage, Commit
<1>8. ~Crash(Orchestrator)
  BY DEF Crash, Rejoin, Fault
<1>9. ASSUME NEW a \in SagaActors, Save(a) \/ StoreFails(a) PROVE OnceInv'
  BY <1>0, <1>2, <1>9 DEF Save, StoreFails, busVars, At
<1>10. ASSUME NEW p \in Payments, Publish(p) PROVE OnceInv'
  BY <1>10, PublishRequestOnce
<1>11. CASE Publish(Orchestrator)
  <2>1. PICK m : m = op[Orchestrator].event
    OBVIOUS
  <2>2. m \in Event /\ Send(m) /\ m.type # "WalletPaymentRequested"
    BY <1>0, <1>11, <2>1, Cast
    DEF Publish, RuntimeInv, BuiltOK, PaymentInv, OpsOK, BuiltBy, ConclusionTypes, AnswerTypes
  <2>3. \A p \in Payments : op[p].at = "done" => op'[p].at = "done"
    BY <1>0, <1>11, DoneStays DEF Publish
  <2> QED BY <1>0, <1>1, <2>2, <2>3, SendAsksNothing, OthersOnce
<1> QED BY <1>3, <1>4, <1>5, <1>6, <1>7, <1>8, <1>9, <1>10, <1>11 DEF SagaStep, SagaActors

(* What a save by the wallet service adds to its logs.                     *)
LEMMA WalletLogGrows ==
  ASSUME WalletInv, NEW a \in WalletActors, WalletSave(a)
  PROVE  \E n : \A u \in Users : \A j :
           /\ j \in DOMAIN store'[u] <=>
                j \in DOMAIN store[u] \/ (u = op[a].event.user /\ j = n)
           /\ j \in DOMAIN store[u] =>
                store'[u][j] = store[u][j] /\ ~(u = op[a].event.user /\ j = n)
           /\ u = op[a].event.user /\ j = n => store'[u][j] = op[a].event
<1>1. PICK e : e = op[a].event
  OBVIOUS
<1>2. /\ RuntimeInv /\ a \in Actors /\ Save(a) /\ e \in Event /\ Sound(e)
  BY <1>1, WalletActorsAreActors
  DEF WalletInv, WalletSave, Save, BuiltAreSound, RuntimeInv, BuiltOK
<1>3. e.user \in Users /\ Aggregate(e) = e.user
  BY <1>2 DEF Sound, Event, Aggregate
<1>4. /\ store'[e.user] = Append(store[e.user], e)
      /\ \A u \in Users : u # e.user => store'[u] = store[u]
  BY <1>1, <1>2, <1>3, Cast, SaveAppends
<1>5. store[e.user] \in Seq(Event) /\ Len(store[e.user]) \in Nat
      /\ DOMAIN store[e.user] = 1..Len(store[e.user])
  BY <1>2, <1>3, Cast, LogIsSeq
<1>6. PICK k : k = Len(store[e.user])
  OBVIOUS
<1>7. /\ DOMAIN store'[e.user] = 1..(k + 1) /\ store'[e.user][k + 1] = e
      /\ \A j \in 1..k : store'[e.user][j] = store[e.user][j]
  BY <1>2, <1>4, <1>5, <1>6, AppendProperties, LenProperties
<1>8. k \in Nat /\ \A j : (j \in 1..(k + 1) <=> j \in 1..k \/ j = k + 1) /\ (j \in 1..k => j # k + 1)
  BY <1>5, <1>6
<1>9. ASSUME NEW u \in Users, NEW j
      PROVE  /\ j \in DOMAIN store'[u] <=> j \in DOMAIN store[u] \/ (u = e.user /\ j = k + 1)
             /\ j \in DOMAIN store[u] =>
                  store'[u][j] = store[u][j] /\ ~(u = e.user /\ j = k + 1)
             /\ u = e.user /\ j = k + 1 => store'[u][j] = e
  <2>1. CASE u # e.user
    BY <1>4, <2>1
  <2>2. CASE u = e.user
    BY <1>5, <1>6, <1>7, <1>8, <2>2
  <2> QED BY <2>1, <2>2
<1>10. \A u \in Users : \A j :
         /\ j \in DOMAIN store'[u] <=> j \in DOMAIN store[u] \/ (u = e.user /\ j = k + 1)
         /\ j \in DOMAIN store[u] =>
              store'[u][j] = store[u][j] /\ ~(u = e.user /\ j = k + 1)
         /\ u = e.user /\ j = k + 1 => store'[u][j] = e
  BY <1>9
<1> QED BY <1>1, <1>10

LEMMA AnswersOfSave ==
  ASSUME WalletInv, NEW a \in WalletActors, WalletSave(a)
  PROVE  \E n : \A p :
           /\ Answers(p)' = Answers(p) \cup
                (IF op[a].event.type \in AnswerTypes /\ op[a].event.payment = p
                 THEN {<<op[a].event.user, n>>} ELSE {})
           /\ Debits(p)' = Debits(p) \cup
                (IF op[a].event.type = "FundsDebited" /\ op[a].event.payment = p
                 THEN {<<op[a].event.user, n>>} ELSE {})
<1>1. PICK e : e = op[a].event
  OBVIOUS
<1>2. e.user \in Users
  BY <1>1, WalletActorsAreActors DEF WalletInv, WalletSave, Save, RuntimeInv, BuiltOK, Event
<1>3. PICK n : \A u \in Users : \A j :
        /\ j \in DOMAIN store'[u] <=> j \in DOMAIN store[u] \/ (u = e.user /\ j = n)
        /\ j \in DOMAIN store[u] => store'[u][j] = store[u][j] /\ ~(u = e.user /\ j = n)
        /\ u = e.user /\ j = n => store'[u][j] = e
  BY <1>1, WalletLogGrows
<1>4. \A u \in Users : \A j, p :
        <<u, j>> \in Answers(p)' <=>
          j \in DOMAIN store'[u] /\ store'[u][j].type \in AnswerTypes /\ store'[u][j].payment = p
  BY DEF Answers
<1>5. \A u \in Users : \A j, p :
        <<u, j>> \in Answers(p) <=>
          j \in DOMAIN store[u] /\ store[u][j].type \in AnswerTypes /\ store[u][j].payment = p
  BY DEF Answers
<1>6. \A p : /\ \A x \in Answers(p) : \E u \in Users : \E j : x = <<u, j>>
             /\ \A x \in Answers(p)' : \E u \in Users : \E j : x = <<u, j>>
  BY DEF Answers
<1>7. ASSUME NEW p
      PROVE  Answers(p)' = Answers(p) \cup
               (IF e.type \in AnswerTypes /\ e.payment = p THEN {<<e.user, n>>} ELSE {})
  <2>1. \A u \in Users : \A j :
          <<u, j>> \in Answers(p)' <=>
            <<u, j>> \in Answers(p) \/ (u = e.user /\ j = n /\ e.type \in AnswerTypes /\ e.payment = p)
    BY <1>3, <1>4, <1>5
  <2> QED BY <1>2, <1>6, <2>1
<1>8. ASSUME NEW p
      PROVE  Debits(p)' = Debits(p) \cup
               (IF e.type = "FundsDebited" /\ e.payment = p THEN {<<e.user, n>>} ELSE {})
  <2>1. \A u \in Users : \A j :
          /\ <<u, j>> \in Debits(p) <=>
               <<u, j>> \in Answers(p) /\ store[u][j].type = "FundsDebited"
          /\ <<u, j>> \in Debits(p)' <=>
               <<u, j>> \in Answers(p)' /\ store'[u][j].type = "FundsDebited"
    BY DEF Debits
  <2>2. \A u \in Users : \A j :
          <<u, j>> \in Debits(p)' <=>
            <<u, j>> \in Debits(p) \/ (u = e.user /\ j = n /\ e.type = "FundsDebited" /\ e.payment = p)
    <3>1. "FundsDebited" \in AnswerTypes
      BY DEF AnswerTypes
    <3> SUFFICES ASSUME NEW u \in Users, NEW j
                 PROVE  <<u, j>> \in Debits(p)' <=>
                          \/ <<u, j>> \in Debits(p)
                          \/ (u = e.user /\ j = n /\ e.type = "FundsDebited" /\ e.payment = p)
      OBVIOUS
    <3>2. CASE u = e.user /\ j = n
      <4>1. store'[u][j] = e /\ j \in DOMAIN store'[u] /\ j \notin DOMAIN store[u]
        BY <1>3, <3>2
      <4>2. <<u, j>> \in Debits(p)' <=> e.type = "FundsDebited" /\ e.payment = p
        BY <1>4, <2>1, <3>1, <4>1
      <4>3. <<u, j>> \notin Debits(p)
        BY <1>5, <2>1, <4>1
      <4> QED BY <3>2, <4>2, <4>3
    <3>3. CASE ~(u = e.user /\ j = n)
      <4>1. j \in DOMAIN store'[u] <=> j \in DOMAIN store[u]
        BY <1>3, <3>3
      <4>2. j \in DOMAIN store[u] => store'[u][j] = store[u][j]
        BY <1>3
      <4>3. <<u, j>> \in Debits(p)' <=> <<u, j>> \in Debits(p)
        BY <1>4, <1>5, <2>1, <4>1, <4>2
      <4> QED BY <3>3, <4>3
    <3> QED BY <3>2, <3>3
  <2>3. /\ \A x \in Debits(p) : \E u \in Users : \E j : x = <<u, j>>
        /\ \A x \in Debits(p)' : \E u \in Users : \E j : x = <<u, j>>
    BY <1>6 DEF Debits
  <2> QED BY <1>2, <2>2, <2>3
<1>9. \A p :
        /\ Answers(p)' = Answers(p) \cup
             (IF e.type \in AnswerTypes /\ e.payment = p THEN {<<e.user, n>>} ELSE {})
        /\ Debits(p)' = Debits(p) \cup
             (IF e.type = "FundsDebited" /\ e.payment = p THEN {<<e.user, n>>} ELSE {})
  BY <1>7, <1>8
<1> QED BY <1>1, <1>9

(* The request in hand is in service, and unanswered.                      *)
LEMMA HandUnanswered ==
  ASSUME WalletInv, PaymentInv, OnceInv, At(Wallet, "save")
  PROVE  /\ op[Wallet].event.payment \in Payments
         /\ op[Wallet].event.type \in AnswerTypes
         /\ current[Wallet] \in Partitions
         /\ IsRequest(current[Wallet], position[Wallet][current[Wallet]], op[Wallet].event.payment)
         /\ Answers(op[Wallet].event.payment) = {}
<1>1. PICK e : e = op[Wallet].event
  OBVIOUS
<1>2. PICK q : q = current[Wallet]
  OBVIOUS
<1>3. PICK i : i = position[Wallet][q]
  OBVIOUS
<1>4. RuntimeInv /\ Wallet \in Groups /\ ~At(Wallet, "idle")
  BY Cast DEF WalletInv, At
<1>5. e.type \in AnswerTypes /\ e.payment \in Payments
  BY <1>1, Cast DEF PaymentInv, OpsOK, BuiltBy, Matches
<1>6. q \in Partitions /\ i \in 1..Len(topic[q])
  <2>1. q \in Partitions /\ q # NoPartition
    BY <1>2, <1>4, WalletOffsets, BusAssumption
  <2> QED BY <1>2, <1>3, <1>4, <2>1, WalletOffsets DEF RuntimeInv, HandOK
<1>7. InHand(Wallet) = topic[q][i]
  BY <1>2, <1>3 DEF InHand
<1>8. topic[q][i].type = "WalletPaymentRequested" /\ topic[q][i].payment = e.payment
  BY <1>1, <1>4, <1>7 DEF WalletInv, HandIsRequest, OnceInv, SavesForHand
<1>9. IsRequest(q, i, e.payment) /\ Unserved(q, i)
  BY <1>2, <1>3, <1>6, <1>8 DEF IsRequest, Unserved, InService
<1>10. Answers(e.payment) = {}
  BY <1>5, <1>6, <1>9 DEF OnceInv, UnservedUnanswered
<1> QED BY <1>1, <1>2, <1>3, <1>5, <1>6, <1>9, <1>10

LEMMA AnswerSavedOnce ==
  ASSUME WalletInv, PaymentInv, OnceInv, WalletSave(Wallet) PROVE OnceInv'
<1>0. RuntimeInv /\ Wallet \in Actors /\ Wallet \in WalletActors /\ At(Wallet, "save")
  BY Cast DEF WalletInv, WalletActors, WalletSave, Save
<1>1. PICK p \in Payments : p = op[Wallet].event.payment
  BY <1>0, HandUnanswered
<1>2. PICK q \in Partitions : q = current[Wallet]
  BY <1>0, HandUnanswered
<1>3. PICK i : i = position[Wallet][q]
  OBVIOUS
<1>4. /\ IsRequest(q, i, p) /\ Answers(p) = {} /\ op[Wallet].event.type \in AnswerTypes
      /\ i \in 1..Len(topic[q])
  BY <1>0, <1>1, <1>2, <1>3, HandUnanswered DEF IsRequest
<1>5. UNCHANGED <<topic, position, committed, current>>
  BY DEF WalletSave, Save, busVars
<1>6. op'[Wallet].at = "publish" /\ \A a \in Payments : op'[a] = op[a]
  BY <1>0, Cast DEF WalletSave, Save, Goto, RuntimeInv, RuntimeTypeOK
<1>7. /\ \E n : Answers(p)' = {n}
      /\ \A x \in Payments \ {p} : Answers(x)' = Answers(x)
  <2>1. PICK n : \A x :
          Answers(x)' = Answers(x) \cup
            (IF op[Wallet].event.type \in AnswerTypes /\ op[Wallet].event.payment = x
             THEN {<<op[Wallet].event.user, n>>} ELSE {})
    BY <1>0, AnswersOfSave
  <2>2. Answers(p)' = {<<op[Wallet].event.user, n>>}
    BY <1>1, <1>4, <2>1
  <2>3. \A x \in Payments \ {p} : Answers(x)' = Answers(x)
    BY <1>1, <2>1
  <2> QED BY <2>2, <2>3
<1>8. \A r \in Partitions : \A j : \A x \in Payments : IsRequest(r, j, x)' <=> IsRequest(r, j, x)
  BY <1>5, SameTopicSameRequests
<1>9. AskedOnce'
  BY <1>5, <1>8 DEF OnceInv, AskedOnce
<1>10. AskedByCall'
  BY <1>5, <1>6, <1>8 DEF OnceInv, AskedByCall, At
<1>11. UnservedUnanswered'
  <2> SUFFICES ASSUME NEW x \in Payments, NEW r \in Partitions, NEW j \in 1..Len(topic'[r]),
                      IsRequest(r, j, x)', Unserved(r, j)'
               PROVE  Answers(x)' = {}
    BY DEF UnservedUnanswered
  <2>1. j > position[Wallet][r]
    BY <1>5, <1>6 DEF Unserved, InService, At
  <2>2. IsRequest(r, j, x) /\ Unserved(r, j) /\ j \in 1..Len(topic[r])
    BY <1>5, <1>8, <2>1 DEF Unserved
  <2>3. x # p
    <3> SUFFICES ASSUME x = p PROVE FALSE
      OBVIOUS
    <3>1. r = q /\ j = i
      BY <1>4, <2>2 DEF OnceInv, AskedOnce
    <3>2. i \in Nat
      BY <1>3, WalletOffsets
    <3> QED BY <1>3, <2>1, <3>1, <3>2
  <2>4. Answers(x) = {}
    BY <2>2 DEF OnceInv, UnservedUnanswered
  <2> QED BY <1>7, <2>3, <2>4
<1>12. AnsweredAsked'
  <2> SUFFICES ASSUME NEW x \in Payments, Answers(x)' # {}
               PROVE  \E r \in Partitions : \E j \in 1..Len(topic[r]) : IsRequest(r, j, x)
    BY <1>5, <1>8 DEF AnsweredAsked
  <2>1. CASE x = p
    BY <1>4, <2>1
  <2>2. CASE x # p
    BY <1>7, <2>2 DEF OnceInv, AnsweredAsked
  <2> QED BY <2>1, <2>2
<1>13. OneAnswer'
  <2> SUFFICES ASSUME NEW x \in Payments PROVE \A y, z \in Answers(x)' : y = z
    BY DEF OneAnswer
  <2>1. CASE x = p
    BY <1>7, <2>1
  <2>2. CASE x # p
    BY <1>7, <2>2 DEF OnceInv, OneAnswer
  <2> QED BY <2>1, <2>2
<1>14. SavesForHand'
  BY <1>6 DEF SavesForHand, At
<1> QED BY <1>9, <1>10, <1>11, <1>12, <1>13, <1>14 DEF OnceInv

LEMMA WalletStepOnce ==
  ASSUME WalletInv, PaymentInv, OnceInv, {"crash", "duplicate"} \cap FaultKinds = {}, WalletStep
  PROVE  OnceInv'
<1>0. /\ RuntimeInv /\ Wallet \in Actors /\ WalletActors \subseteq Actors /\ Wallet \in Groups
      /\ Wallet \in WalletActors
  BY Cast DEF WalletInv, WalletActors
<1>1. \A p \in Payments : op[p].at = "done" => op'[p].at = "done"
  BY WalletStepApart DEF SagaActors
<1>2. ASSUME UNCHANGED store PROVE \A x : Answers(x)' = Answers(x)
  BY <1>2, SameUsersSameAnswers
<1>3. CASE WalletReceive
  <2>1. PICK q \in Partitions : Fetch(Wallet, q)
    BY <1>3 DEF WalletReceive, Receive
  <2>2. /\ UNCHANGED <<store, topic>> /\ op'[Wallet].at = "handle"
        /\ position'[Wallet][q] = position[Wallet][q] + 1
        /\ \A r \in Partitions \ {q} : position'[Wallet][r] = position[Wallet][r]
        /\ current'[Wallet] = q
    BY <1>0, <1>3, <2>1
    DEF WalletReceive, Receive, Fetch, Goto, RuntimeInv, RuntimeTypeOK
  <2>3. \A r \in Partitions : \A i \in 1..Len(topic[r]) : Unserved(r, i)' => Unserved(r, i)
    <3> SUFFICES ASSUME NEW r \in Partitions, NEW i \in 1..Len(topic[r]), Unserved(r, i)'
                 PROVE  i > position[Wallet][r]
      BY DEF Unserved
    <3>1. position[Wallet][r] \in Nat
      BY WalletOffsets
    <3>2. CASE r = q
      BY <2>2, <3>1, <3>2 DEF Unserved
    <3>3. CASE r # q
      BY <2>2, <3>3 DEF Unserved
    <3> QED BY <3>2, <3>3
  <2>4. SavesForHand'
    BY <2>2 DEF SavesForHand, At
  <2> QED BY <1>1, <1>2, <2>2, <2>3, <2>4, SameTopicSameRequests, OnceKept
<1>4. CASE WalletIgnore
  <2>1. PICK q \in Partitions : Pass(Wallet, q)
    BY <1>4 DEF WalletIgnore, Ignore
  <2>2. /\ UNCHANGED <<store, topic, op>> /\ At(Wallet, "idle")
        /\ position'[Wallet][q] = position[Wallet][q] + 1
        /\ \A r \in Partitions \ {q} : position'[Wallet][r] = position[Wallet][r]
    BY <1>0, <1>4, <2>1
    DEF WalletIgnore, Ignore, Pass, RuntimeInv, RuntimeTypeOK
  <2>3. \A r \in Partitions : \A i \in 1..Len(topic[r]) : Unserved(r, i)' => Unserved(r, i)
    <3> SUFFICES ASSUME NEW r \in Partitions, NEW i \in 1..Len(topic[r]), Unserved(r, i)'
                 PROVE  i > position[Wallet][r]
      BY DEF Unserved
    <3>1. position[Wallet][r] \in Nat /\ i > position'[Wallet][r]
      BY <2>2, WalletOffsets DEF Unserved, InService, At
    <3>2. CASE r = q
      BY <2>2, <3>1, <3>2
    <3>3. CASE r # q
      BY <2>2, <3>1, <3>3
    <3> QED BY <3>2, <3>3
  <2>4. SavesForHand'
    BY <2>2 DEF SavesForHand, At
  <2> QED BY <1>1, <1>2, <2>2, <2>3, <2>4, SameTopicSameRequests, OnceKept
<1>5. CASE HandleWalletPaymentRequested
  <2>1. PICK m : m = InHand(Wallet)
    OBVIOUS
  <2>2. PICK e : e = Answer(m, Balance(LoadEvents(m.user)))
    OBVIOUS
  <2>3. At(Wallet, "handle") /\ Build(Wallet, e)
    BY <1>5, <2>1, <2>2 DEF HandleWalletPaymentRequested
  <2>4. /\ op'[Wallet].at = "save" /\ op'[Wallet].event = e
        /\ UNCHANGED <<store, topic, position, current>>
    BY <1>0, <2>3 DEF Build, Goto, busVars, RuntimeInv, RuntimeTypeOK
  <2>5. e.payment = m.payment
    BY <2>2 DEF Answer, NewFundsDebited, NewFundsInsufficient, NewBalanceEvent
  <2>6. SavesForHand'
    <3>1. InHand(Wallet)' = m
      BY <2>1, <2>4 DEF InHand
    <3> QED BY <2>4, <2>5, <3>1 DEF SavesForHand
  <2>7. \A r \in Partitions : \A i \in 1..Len(topic[r]) : Unserved(r, i)' => Unserved(r, i)
    BY <2>3, <2>4 DEF Unserved, InService, At
  <2> QED BY <1>1, <1>2, <2>4, <2>6, <2>7, SameTopicSameRequests, OnceKept
<1>6. ASSUME NEW c \in WalletCalls, NEW e, Build(c, e) PROVE OnceInv'
  <2>1. UNCHANGED <<store, topic, busVars>> /\ op'[Wallet] = op[Wallet]
    BY <1>0, <1>6, Cast DEF Build, Goto, busVars, RuntimeInv, RuntimeTypeOK
  <2>2. HandKept(Wallet)
    BY <1>0, <2>1, StillKeepsHands
  <2> QED BY <1>1, <1>2, <2>1, <2>2, SameTopicSameRequests, OthersOnce
<1>7. CASE \E c \in WalletCalls, u \in Users, x \in Amounts :
             AddFunds(c, u, x) \/ \E p \in Payments : ProcessRefund(c, p, u, x)
  BY <1>6, <1>7 DEF AddFunds, ProcessRefund
<1>8. ASSUME NEW a \in WalletActors, a # Wallet,
             WalletSave(a) \/ WalletStoreFails(a) \/ WalletPublish(a)
      PROVE  OnceInv'
  <2>1. HandKept(Wallet) /\ op'[Wallet] = op[Wallet]
    <3>1. HandKept(Wallet)
      BY <1>0, <1>8, WritesKeepHands DEF WalletSave, WalletStoreFails, WalletPublish
    <3>2. op'[Wallet] = op[Wallet]
      BY <1>0, <1>8
      DEF WalletSave, WalletStoreFails, WalletPublish, Save, StoreFails, Publish, Goto,
          RuntimeInv, RuntimeTypeOK
    <3> QED BY <3>1, <3>2
  <2>2. At(a, "save") \/ At(a, "publish") =>
          op[a].event \in Event /\ op[a].event.type = "FundsCredited"
    BY <1>0, <1>8, Cast DEF WalletActors, PaymentInv, OpsOK, BuiltBy, RuntimeInv, BuiltOK
  <2>3. CASE WalletSave(a)
    <3>1. \A p \in Payments : Answers(p)' = Answers(p)
      <4>1. PICK n : \A x :
              Answers(x)' = Answers(x) \cup
                (IF op[a].event.type \in AnswerTypes /\ op[a].event.payment = x
                 THEN {<<op[a].event.user, n>>} ELSE {})
        BY <1>8, <2>3, AnswersOfSave
      <4>2. op[a].event.type \notin AnswerTypes
        BY <2>2, <2>3 DEF WalletSave, Save, AnswerTypes
      <4> QED BY <4>1, <4>2
    <3>2. UNCHANGED topic
      BY <2>3 DEF WalletSave, Save, busVars
    <3> QED BY <1>1, <2>1, <3>1, <3>2, SameTopicSameRequests, OthersOnce
  <2>4. CASE WalletStoreFails(a)
    <3>1. UNCHANGED <<store, topic>>
      BY <2>4 DEF WalletStoreFails, StoreFails, busVars
    <3> QED BY <1>1, <1>2, <2>1, <3>1, SameTopicSameRequests, OthersOnce
  <2>5. CASE WalletPublish(a)
    <3>1. PICK m : m = op[a].event
      OBVIOUS
    <3>2. m \in Event /\ m.type # "WalletPaymentRequested" /\ Send(m) /\ UNCHANGED store
      BY <2>2, <2>5, <3>1 DEF WalletPublish, Publish
    <3> QED BY <1>0, <1>1, <1>2, <2>1, <3>2, SendAsksNothing, OthersOnce
  <2> QED BY <1>8, <2>3, <2>4, <2>5
<1>9. CASE WalletSave(Wallet)
  BY <1>9, AnswerSavedOnce
<1>10. ASSUME op'[Wallet].at = "commit" \/ op'[Wallet].at = "idle", UNCHANGED <<store, position>>,
              \A q \in Partitions : \A i : \A p \in Payments :
                IsRequest(q, i, p)' <=> IsRequest(q, i, p)
       PROVE  OnceInv'
  <2>1. \A r \in Partitions : \A i \in 1..Len(topic[r]) : Unserved(r, i)' => Unserved(r, i)
    BY <1>10 DEF Unserved, InService, At
  <2>2. SavesForHand'
    BY <1>10 DEF SavesForHand, At
  <2> QED BY <1>1, <1>2, <1>10, <2>1, <2>2, OnceKept
<1>11. CASE WalletStoreFails(Wallet)
  <2>1. op'[Wallet].at = "commit" /\ UNCHANGED <<store, topic, position>>
    BY <1>0, <1>11
    DEF WalletStoreFails, StoreFails, Goto, Ended, busVars, RuntimeInv, RuntimeTypeOK
  <2> QED BY <1>10, <2>1, SameTopicSameRequests
<1>12. CASE WalletPublish(Wallet)
  <2>1. PICK m : m = op[Wallet].event
    OBVIOUS
  <2>2. m \in Event /\ m.type # "WalletPaymentRequested" /\ Send(m)
    BY <1>0, <1>12, <2>1, Cast
    DEF WalletPublish, Publish, RuntimeInv, BuiltOK, PaymentInv, OpsOK, BuiltBy, AnswerTypes
  <2>3. op'[Wallet].at = "commit" /\ UNCHANGED <<store, position>>
    BY <1>0, <1>12, <2>2
    DEF WalletPublish, Publish, Goto, Ended, Send, RuntimeInv, RuntimeTypeOK
  <2> QED BY <1>0, <1>10, <2>2, <2>3, SendAsksNothing
<1>13. CASE WalletCommit
  <2>1. op'[Wallet].at = "idle" /\ UNCHANGED <<store, topic, position>>
    BY <1>0, <1>13 DEF WalletCommit, CommitMessage, Commit, Goto, RuntimeInv, RuntimeTypeOK
  <2> QED BY <1>10, <2>1, SameTopicSameRequests
<1>14. ~WalletCrash
  BY DEF WalletCrash, Crash, Rejoin, Fault
<1> QED BY <1>3, <1>4, <1>5, <1>7, <1>8, <1>9, <1>11, <1>12, <1>13, <1>14 DEF WalletStep

OnceWhenDeliveredOnce == {"crash", "duplicate"} \cap FaultKinds = {} => OnceInv

LEMMA OnceInit == SagaInit => OnceWhenDeliveredOnce
<1> SUFFICES ASSUME WalletInit PROVE OnceInv
  BY DEF SagaInit, OnceWhenDeliveredOnce
<1>1. \A q \in Partitions : topic[q] = <<>>
  BY DEF WalletInit, RuntimeInit, BusInit
<1>2. \A q \in Partitions : \A i, p : ~IsRequest(q, i, p)
  <2>1. 1..Len(<<>>) = {}
    OBVIOUS
  <2> QED BY <1>1, <2>1 DEF IsRequest
<1>3. \A p : Answers(p) = {}
  <2>1. \A u \in Users : store[u] = <<>>
    BY Cast DEF WalletInit, RuntimeInit, StoreInit
  <2>2. DOMAIN <<>> = {}
    OBVIOUS
  <2> QED BY <2>1, <2>2 DEF Answers
<1>4. ~At(Wallet, "save")
  BY Cast DEF WalletInit, RuntimeInit, At
<1> QED
  BY <1>2, <1>3, <1>4
  DEF OnceInv, AskedOnce, AskedByCall, UnservedUnanswered, AnsweredAsked, OneAnswer, SavesForHand

LEMMA OnceNext ==
  SagaSystemInv /\ OnceWhenDeliveredOnce /\ [SagaNext]_walletVars => OnceWhenDeliveredOnce'
<1> SUFFICES ASSUME SagaSystemInv, OnceInv, {"crash", "duplicate"} \cap FaultKinds = {},
                    [SagaNext]_walletVars
             PROVE  OnceInv'
  BY DEF OnceWhenDeliveredOnce
<1>1. CASE (CreatePayment \/ SagaStep) /\ UNCHANGED overlapped
  BY <1>1, SagaStepOnce DEF SagaSystemInv
<1>2. CASE WalletStep
  BY <1>2, WalletStepOnce DEF SagaSystemInv
<1>3. CASE UNCHANGED walletVars
  <2>1. UNCHANGED <<store, busVars, topic, op>>
    BY <1>3 DEF walletVars, runtimeVars, busVars
  <2>2. HandKept(Wallet) /\ \A p : Answers(p)' = Answers(p)
    BY <2>1, Cast, StillKeepsHands, SameUsersSameAnswers
  <2> QED BY <2>1, <2>2, SameTopicSameRequests, OthersOnce DEF SagaSystemInv
<1> QED BY <1>1, <1>2, <1>3 DEF SagaNext

LEMMA OnceHolds == SagaSpec => []OnceWhenDeliveredOnce
BY OnceInit, OnceNext, SagaSystemInvHolds, PTL DEF SagaSpec

LEMMA AtMostOne ==
  ASSUME NEW S, \A x, y \in S : x = y
  PROVE  /\ S = {} => Cardinality(S) = 0
         /\ S # {} => Cardinality(S) = 1
<1>1. CASE S = {}
  BY <1>1, FS_EmptySet
<1>2. CASE S # {}
  <2>1. PICK x : S = {x}
    BY <1>2
  <2> QED BY <1>2, <2>1, FS_Singleton
<1> QED BY <1>1, <1>2

(* As long as no consumer crashes and no message is written twice, the     *)
(* wallet answers a payment at most once, in whatever order its consumer   *)
(* and the calls run and however many messages, inserts and commits fail:  *)
(* the offsets, which nothing but a crash sets back, are all that sees to  *)
(* it.                                                                     *)
THEOREM WalletAnswersOnce == SagaSpec => []AnsweredOnce
<1>1. OnceWhenDeliveredOnce => AnsweredOnce
  <2> SUFFICES ASSUME OnceInv, NEW p \in Payments PROVE Cardinality(Answers(p)) <= 1
    BY DEF OnceWhenDeliveredOnce, AnsweredOnce
  <2>1. Cardinality(Answers(p)) = 0 \/ Cardinality(Answers(p)) = 1
    BY AtMostOne DEF OnceInv, OneAnswer
  <2> QED BY <2>1
<1> QED BY <1>1, OnceHolds, PTL

----
(* The refinement of the abstract payment, one lemma for each step that is *)
(* not a stutter.                                                          *)
Status == [p \in Payments |-> StatusNow(p)]

Taken == [p \in Payments |-> Cardinality(Debits(p))]

LEMMA SameUsersSameDebits ==
  ASSUME \A u \in Users : store'[u] = store[u]
  PROVE  /\ \A p : Debits(p)' = Debits(p)
         /\ Taken' = Taken
<1>1. \A p : Debits(p)' = Debits(p)
  <2> SUFFICES ASSUME NEW p PROVE Debits(p)' = Debits(p)
    OBVIOUS
  <2>1. Answers(p)' = Answers(p)
    BY SameUsersSameAnswers
  <2>2. \A x \in Answers(p) : x[1] \in Users
    BY DEF Answers
  <2> QED BY <2>1, <2>2 DEF Debits
<1> QED BY <1>1 DEF Taken

LEMMA SamePaymentsSameStatus ==
  ASSUME \A p \in Payments : store'[p] = store[p]
  PROVE  Status' = Status
BY DEF Status, StatusNow

(* What has been decided of a payment is an answer to it.                  *)
LEMMA DecidedIsAnswer ==
  ASSUME NEW e, e.user \in Users, NEW type \in AnswerTypes, Decided(e, type)
  PROVE  \E j : /\ <<e.user, j>> \in Answers(e.payment)
                /\ store[e.user][j].type = type
BY DEF Decided, Answers

(* The save of a request makes a payment.                                  *)
LEMMA RequestRefines ==
  ASSUME SagaInv, PaymentInv, NoUser \notin Users, NEW p \in Payments, Save(p)
  PROVE  Lifecycle!Request(p)
<1>0. RuntimeInv /\ p \in Actors /\ p \in Aggregates /\ p \in SagaActors
  BY Cast DEF SagaInv, SagaActors
<1>1. PICK e : e = op[p].event
  OBVIOUS
<1>2. /\ e \in Event /\ e.type = "WalletPaymentRequested" /\ e.payment = p /\ Aggregate(e) = p
      /\ store[p] = <<>>
  BY <1>0, <1>1, Cast
  DEF Save, RuntimeInv, BuiltOK, PaymentInv, OpsOK, BuiltBy, Aggregate, WalletTypes
<1>3. store'[p] = Append(<<>>, e) /\ \A x \in Aggregates \ {p} : store'[x] = store[x]
  BY <1>0, <1>1, <1>2, SaveAppends
<1>4. PICK log : log = store'[p]
  OBVIOUS
<1>5. log \in Seq(Event) /\ Len(log) = 1 /\ log[1] = e /\ log # <<>>
  <2>1. <<>> \in Seq(Event) /\ Len(<<>>) = 0
    BY EmptySeq
  <2> QED BY <1>2, <1>3, <1>4, <2>1, AppendProperties, EmptySeq
<1>6. log[1].user # NoUser
  BY <1>2, <1>5 DEF Event
<1>7. PaymentStatus(log) = "VALIDATING_BALANCE"
  <2>1. Len(log) <= 2 /\ Len(log) # 2 /\ log[1].type = "WalletPaymentRequested"
    BY <1>2, <1>5
  <2> QED BY <1>5, <1>6, <2>1, StatusOfLog
<1>8. PaymentStatus(<<>>) = "NOT_FOUND"
  <2>1. Requests(<<>>) = {}
    <3>1. DOMAIN <<>> = {}
      OBVIOUS
    <3> QED BY <3>1 DEF Requests
  <2> QED BY <2>1 DEF PaymentStatus, CanRebuild, HasOwner
<1>9. StatusNow(p) = "NOT_FOUND" /\ StatusNow(p)' = "VALIDATING_BALANCE"
  BY <1>2, <1>4, <1>7, <1>8 DEF StatusNow
<1>10. \A x \in Payments \ {p} : StatusNow(x)' = StatusNow(x)
  BY <1>3, Cast DEF StatusNow
<1>11. Status[p] = "NOT_FOUND" /\ Status' = [Status EXCEPT ![p] = "VALIDATING_BALANCE"]
  BY <1>9, <1>10 DEF Status
<1>12. Taken' = Taken
  BY <1>3, Cast, SameUsersSameDebits
<1> QED BY <1>11, <1>12 DEF Lifecycle!Request, Status, Taken

(* The save of a conclusion ends it, after one debit or after none.        *)
LEMMA ConclusionRefines ==
  ASSUME SagaInv, PaymentInv, OnceInv, NoUser \notin Users, Save(Orchestrator)
  PROVE  \E p \in Payments : Lifecycle!Complete(p) \/ Lifecycle!Fail(p)
<1>0. RuntimeInv /\ Orchestrator \in Actors /\ Orchestrator \in SagaActors
  BY Cast DEF SagaInv, SagaActors
<1>1. PICK e : e = op[Orchestrator].event
  OBVIOUS
<1>2. /\ e \in Event /\ e.user \in Users /\ e.type \in ConclusionTypes
      /\ Matches(e) /\ Justified(e) /\ e.payment \in Payments /\ Aggregate(e) = e.payment
      /\ Len(store[e.payment]) = 1
  BY <1>0, <1>1, Cast
  DEF Save, RuntimeInv, BuiltOK, PaymentInv, OpsOK, BuiltBy, Aggregate, WalletTypes,
      ConclusionTypes, AnswerTypes, Matches, Event
<1>3. PICK p \in Payments : p = e.payment
  BY <1>2
<1>4. /\ store'[p] = Append(store[p], e)
      /\ \A x \in Aggregates \ {p} : store'[x] = store[x]
  BY <1>0, <1>1, <1>2, <1>3, Cast, SaveAppends
<1>5. PICK log : log = store'[p]
  OBVIOUS
<1>6. /\ store[p] \in Seq(Event) /\ store[p] # <<>> /\ Len(store[p]) = 1
      /\ store[p][1].type = "WalletPaymentRequested"
  BY <1>0, <1>2, <1>3, Cast, LogIsSeq DEF PaymentInv, LogsOK, PaymentLog, Matches
<1>7. /\ log \in Seq(Event) /\ Len(log) = 2 /\ log[1] = store[p][1] /\ log[2] = e /\ log # <<>>
  BY <1>2, <1>4, <1>5, <1>6, AppendProperties, EmptySeq
<1>8. StatusNow(p) = "VALIDATING_BALANCE"
  BY <1>0, <1>6, PaymentLogRebuilds
<1>9. StatusNow(p)' = IF e.type = "WalletPaymentCompleted" THEN "COMPLETED" ELSE "FAILED"
  <2>1. log[1].user # NoUser
    <3>1. store[p][1] \in Event
      BY <1>6, ElementOfSeq
    <3> QED BY <1>7, <3>1 DEF Event
  <2>2. PaymentStatus(log) = IF e.type = "WalletPaymentCompleted" THEN "COMPLETED" ELSE "FAILED"
    <3>1. /\ Len(log) <= 2 /\ Len(log) # 1 /\ log[1].type = "WalletPaymentRequested"
          /\ log[2].type \in ConclusionTypes
      BY <1>2, <1>6, <1>7
    <3>2. \/ log[2].type = "WalletPaymentCompleted" /\ PaymentStatus(log) = "COMPLETED"
          \/ log[2].type = "WalletPaymentFailed" /\ PaymentStatus(log) = "FAILED"
      BY <1>7, <2>1, <3>1, StatusOfLog
    <3> QED BY <1>7, <3>2
  <2> QED BY <1>5, <2>2 DEF StatusNow
<1>10. \A x \in Payments \ {p} : StatusNow(x)' = StatusNow(x)
  BY <1>4, Cast DEF StatusNow
<1>11. /\ Status[p] = "VALIDATING_BALANCE"
       /\ Status' = [Status EXCEPT ![p] =
                       IF e.type = "WalletPaymentCompleted" THEN "COMPLETED" ELSE "FAILED"]
  BY <1>8, <1>9, <1>10 DEF Status
<1>12. Taken' = Taken
  BY <1>4, Cast, SameUsersSameDebits
<1>13. \A x, y \in Answers(p) : x = y
  BY DEF OnceInv, OneAnswer
<1>14. \A x, y \in Debits(p) : x = y
  BY <1>13 DEF Debits
<1>15. CASE e.type = "WalletPaymentCompleted"
  <2>1. PICK j : <<e.user, j>> \in Answers(p) /\ store[e.user][j].type = "FundsDebited"
    BY <1>2, <1>3, <1>15, DecidedIsAnswer DEF Justified, AnswerTypes
  <2>2. <<e.user, j>> \in Debits(p)
    BY <2>1 DEF Debits
  <2>3. Taken[p] = 1
    BY <1>14, <2>2, AtMostOne DEF Taken
  <2>4. Lifecycle!Complete(p)
    BY <1>11, <1>12, <1>15, <2>3 DEF Lifecycle!Complete, Status, Taken
  <2> QED BY <2>4
<1>16. CASE e.type = "WalletPaymentFailed"
  <2>1. PICK j : <<e.user, j>> \in Answers(p) /\ store[e.user][j].type = "FundsInsufficient"
    BY <1>2, <1>3, <1>16, DecidedIsAnswer DEF Justified, AnswerTypes
  <2>2. Debits(p) = {}
    BY <1>13, <2>1 DEF Debits
  <2>3. Taken[p] = 0
    BY <1>14, <2>2, AtMostOne DEF Taken
  <2>4. Lifecycle!Fail(p)
    BY <1>11, <1>12, <1>16, <2>3 DEF Lifecycle!Fail, Status, Taken
  <2> QED BY <2>4
<1> QED BY <1>2, <1>15, <1>16 DEF ConclusionTypes

(* A payment that has no answer yet is in progress.                        *)
LEMMA UnansweredIsOpen ==
  ASSUME RuntimeInv, PaymentInv, NoUser \notin Users, NEW p \in Payments,
         store[p] # <<>>, Answers(p) = {}
  PROVE  StatusNow(p) = "VALIDATING_BALANCE"
<1>1. PICK e : e = store[p][2]
  OBVIOUS
<1>2. Len(store[p]) # 2
  <2> SUFFICES ASSUME Len(store[p]) = 2 PROVE FALSE
    OBVIOUS
  <2>1. e.type \in ConclusionTypes /\ e.payment = p /\ Justified(e)
    BY <1>1 DEF PaymentInv, LogsOK, PaymentLog
  <2>2. e.user \in Users
    <3>1. 2 \in 1..Len(store[p]) /\ store[p] \in Seq(Event)
      BY Cast, LogIsSeq
    <3>2. e \in Event
      BY <1>1, <3>1, ElementOfSeq
    <3> QED BY <3>2 DEF Event
  <2>3. Decided(e, "FundsDebited") \/ Decided(e, "FundsInsufficient")
    BY <2>1 DEF ConclusionTypes, Justified
  <2> QED BY <2>1, <2>2, <2>3, DecidedIsAnswer DEF AnswerTypes
<1> QED BY <1>2, PaymentLogRebuilds

(* The save of a debit takes the money, once.                              *)
LEMMA DebitRefines ==
  ASSUME WalletInv, PaymentInv, OnceInv, NoUser \notin Users, NEW a \in WalletActors, WalletSave(a)
  PROVE  \/ \E p \in Payments : Lifecycle!Take(p)
         \/ Status' = Status /\ Taken' = Taken
<1>0. RuntimeInv /\ WalletActors \subseteq Actors /\ At(a, "save")
  BY Cast DEF WalletInv, WalletSave, Save
<1>1. PICK e : e = op[a].event
  OBVIOUS
<1>2. PICK n : \A p :
        Debits(p)' = Debits(p) \cup
          (IF e.type = "FundsDebited" /\ e.payment = p THEN {<<e.user, n>>} ELSE {})
  <2>1. PICK n : \A p :
          Debits(p)' = Debits(p) \cup
            (IF op[a].event.type = "FundsDebited" /\ op[a].event.payment = p
             THEN {<<op[a].event.user, n>>} ELSE {})
    BY AnswersOfSave
  <2> QED BY <1>1, <2>1
<1>3. \A p \in Payments : store'[p] = store[p]
  BY <1>0, WalletStepApart DEF WalletStep
<1>4. Status' = Status
  BY <1>3, SamePaymentsSameStatus
<1>5. CASE e.type # "FundsDebited"
  <2>1. \A p : Debits(p)' = Debits(p)
    BY <1>2, <1>5
  <2> QED BY <1>4, <2>1 DEF Taken
<1>6. CASE e.type = "FundsDebited"
  <2>1. a = Wallet
    BY <1>0, <1>1, <1>6, Cast DEF WalletActors, PaymentInv, OpsOK, BuiltBy
  <2>2. PICK p \in Payments : p = e.payment
    BY <1>0, <1>1, <2>1, HandUnanswered
  <2>3. Answers(p) = {}
    BY <1>0, <1>1, <2>1, <2>2, HandUnanswered
  <2>4. store[p] # <<>>
    BY <1>0, <1>1, <2>1, <2>2, Cast DEF PaymentInv, OpsOK, BuiltBy, Matches
  <2>5. StatusNow(p) = "VALIDATING_BALANCE"
    BY <1>0, <2>3, <2>4, UnansweredIsOpen
  <2>6. Debits(p) = {}
    BY <2>3 DEF Debits
  <2>7. Debits(p)' = {<<e.user, n>>} /\ \A x \in Payments \ {p} : Debits(x)' = Debits(x)
    BY <1>2, <1>6, <2>2, <2>6
  <2>8. Cardinality(Debits(p)) = 0 /\ Cardinality(Debits(p))' = 1
    BY <2>6, <2>7, FS_EmptySet, FS_Singleton
  <2>9. Taken[p] = 0 /\ Taken' = [Taken EXCEPT ![p] = 1]
    BY <2>7, <2>8 DEF Taken
  <2>10. Status[p] = "VALIDATING_BALANCE"
    BY <2>5 DEF Status
  <2>11. Lifecycle!Take(p)
    BY <1>4, <2>9, <2>10 DEF Lifecycle!Take, Status, Taken
  <2> QED BY <2>11
<1> QED BY <1>5, <1>6

LEMMA StepRefines ==
  ASSUME SagaSystemInv, OnceInv, NoUser \notin Users, [SagaNext]_walletVars
  PROVE  Lifecycle!LifecycleNext \/ (Status' = Status /\ Taken' = Taken)
<1>1. ASSUME UNCHANGED store PROVE Status' = Status /\ Taken' = Taken
  BY <1>1, SameUsersSameDebits, SamePaymentsSameStatus
<1>2. ASSUME NEW a \in SagaActors, Save(a) PROVE Lifecycle!LifecycleNext
  <2>1. CASE a \in Payments
    BY <1>2, <2>1, RequestRefines DEF SagaSystemInv, Lifecycle!LifecycleNext
  <2>2. CASE a = Orchestrator
    BY <1>2, <2>2, ConclusionRefines DEF SagaSystemInv, Lifecycle!LifecycleNext
  <2> QED BY <2>1, <2>2 DEF SagaActors
<1>3. CASE CreatePayment \/ SagaStep
  <2>1. UNCHANGED store \/ \E a \in SagaActors : Save(a)
    BY <1>3
    DEF CreatePayment, CreateWalletPayment, SagaStep, SagaReceive, Receive, SagaIgnore, Ignore,
        HandleAnswer, Build, Refuse, StoreFails, Publish, CommitMessage, Crash
  <2> QED BY <1>1, <1>2, <2>1
<1>4. CASE WalletStep
  <2>1. UNCHANGED store \/ \E a \in WalletActors : WalletSave(a)
    BY <1>4
    DEF WalletStep, WalletReceive, Receive, WalletIgnore, Ignore, HandleWalletPaymentRequested,
        AddFunds, ProcessRefund, Build, WalletStoreFails, StoreFails, WalletPublish, Publish,
        WalletCommit, CommitMessage, WalletCrash, Crash
  <2>2. ASSUME NEW a \in WalletActors, WalletSave(a)
        PROVE  Lifecycle!LifecycleNext \/ (Status' = Status /\ Taken' = Taken)
    BY <2>2, DebitRefines DEF SagaSystemInv, Lifecycle!LifecycleNext
  <2> QED BY <1>1, <2>1, <2>2
<1>5. CASE UNCHANGED walletVars
  BY <1>1, <1>5 DEF walletVars, runtimeVars
<1> QED BY <1>3, <1>4, <1>5 DEF SagaNext

LEMMA InitRefines == SagaInit => Lifecycle!LifecycleInit
<1> SUFFICES ASSUME WalletInit PROVE Lifecycle!LifecycleInit
  BY DEF SagaInit
<1>1. \A x \in Aggregates : store[x] = <<>>
  BY DEF WalletInit, RuntimeInit, StoreInit
<1>2. DOMAIN <<>> = {}
  OBVIOUS
<1>3. \A p \in Payments : StatusNow(p) = "NOT_FOUND"
  <2>1. Requests(<<>>) = {}
    BY <1>2 DEF Requests
  <2> QED BY <1>1, <2>1, Cast DEF StatusNow, PaymentStatus, CanRebuild, HasOwner
<1>4. \A p \in Payments : Cardinality(Debits(p)) = 0
  <2>1. \A p : Answers(p) = {}
    BY <1>1, <1>2, Cast DEF Answers
  <2> QED BY <2>1, FS_EmptySet DEF Debits
<1> QED BY <1>3, <1>4 DEF Lifecycle!LifecycleInit

(* The system implements the abstract payment: it is requested once, its   *)
(* money is taken at most once and only while it is in progress, it is     *)
(* completed only when the money has been taken and failed only when not,  *)
(* and what has ended stays ended.  This takes that no consumer crashes,   *)
(* that no message is written twice, and that no request names the empty   *)
(* user; messages may be lost and inserts and commits may fail.            *)
THEOREM SagaImplementsLifecycle ==
  ASSUME {"crash", "duplicate"} \cap FaultKinds = {}, NoUser \notin Users
  PROVE  SagaSpec => ImplementsLifecycle
<1>1. SagaInit => Lifecycle!LifecycleInit
  BY InitRefines
<1>2. SagaSystemInv /\ OnceWhenDeliveredOnce /\ [SagaNext]_walletVars
        => [Lifecycle!LifecycleNext]_Lifecycle!lifecycleVars
  BY StepRefines DEF OnceWhenDeliveredOnce, Lifecycle!lifecycleVars, Status, Taken
<1> QED BY <1>1, <1>2, SagaSystemInvHolds, OnceHolds, PTL
        DEF SagaSpec, ImplementsLifecycle, Lifecycle!LifecycleSpec
=============================================================================
