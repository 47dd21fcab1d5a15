------------------------- MODULE WalletServiceProofs -------------------------
(***************************************************************************)
(* The steps of the wallet service, for any number of users, payments,     *)
(* HTTP calls, partitions and faults.  They keep WalletInv (no wallet is   *)
(* overdrawn, only overlapping operations break the account of a wallet),  *)
(* StoredInv (what is published has been saved) and ServedInv (what is     *)
(* committed has been answered).  WalletSagaProofs shows the same of the   *)
(* orchestrator's steps, and so of the system.                             *)
(***************************************************************************)
EXTENDS WalletService, ServiceRuntimeProofs

(* The balance is that of some balance event, none of which is later, or 0.*)
LEMMA BalanceIsLast ==
  ASSUME NEW log \in Seq(Event), BalanceEvents(log) # {}
  PROVE  \E i \in BalanceEvents(log) :
           /\ Balance(log) = log[i].after
           /\ \A j \in BalanceEvents(log) : j <= i
<1>1. Len(log) \in Nat /\ BalanceEvents(log) \in SUBSET (1..Len(log))
  BY LenProperties DEF BalanceEvents
<1>2. /\ Max(BalanceEvents(log)) \in BalanceEvents(log)
      /\ \A j \in BalanceEvents(log) : Max(BalanceEvents(log)) >= j
  BY <1>1, MaxIsMember
<1> QED BY <1>1, <1>2 DEF Balance

LEMMA BalanceIsInt ==
  ASSUME NEW log \in Seq(Event)
  PROVE  Balance(log) \in Int
<1>1. CASE BalanceEvents(log) = {}
  BY <1>1 DEF Balance
<1>2. CASE BalanceEvents(log) # {}
  <2>1. PICK i \in BalanceEvents(log) : Balance(log) = log[i].after
    BY <1>2, BalanceIsLast
  <2>2. log[i] \in Event
    BY ElementOfSeq, LenProperties DEF BalanceEvents
  <2> QED BY <2>1, <2>2 DEF Event
<1> QED BY <1>1, <1>2

(* If no balance event leaves a negative balance, the balance is not one.  *)
LEMMA BalanceIsNat ==
  ASSUME NEW log \in Seq(Event), \A i \in BalanceEvents(log) : log[i].after >= 0
  PROVE  Balance(log) >= 0
BY BalanceIsLast DEF Balance

LEMMA BalanceEventsOfAppend ==
  ASSUME NEW log \in Seq(Event), NEW e \in Event
  PROVE  /\ BalanceEvents(Append(log, e)) =
              BalanceEvents(log) \cup (IF e.type \in BalanceTypes THEN {Len(log) + 1} ELSE {})
         /\ \A i \in BalanceEvents(log) :
              /\ i \in 1..Len(log)
              /\ Append(log, e)[i] = log[i]
         /\ Append(log, e)[Len(log) + 1] = e
         /\ Len(log) \in Nat
<1>1. /\ Append(log, e) \in Seq(Event) /\ Len(Append(log, e)) = Len(log) + 1
      /\ \A i \in 1..Len(log) : Append(log, e)[i] = log[i]
      /\ Append(log, e)[Len(log) + 1] = e
  BY AppendProperties
<1>2. /\ Len(log) \in Nat /\ DOMAIN log = 1..Len(log)
      /\ DOMAIN Append(log, e) = 1..(Len(log) + 1)
  BY <1>1, LenProperties
<1> QED BY <1>1, <1>2 DEF BalanceEvents

(* A balance event brings the new balance, any other event none.           *)
LEMMA BalanceOfAppend ==
  ASSUME NEW log \in Seq(Event), NEW e \in Event
  PROVE  Balance(Append(log, e)) =
           IF e.type \in BalanceTypes THEN e.after ELSE Balance(log)
<1> DEFINE longer == Append(log, e)
<1>1. longer \in Seq(Event)
  BY AppendProperties
<1>2. CASE e.type \in BalanceTypes
  <2>1. BalanceEvents(longer) # {} /\ Len(log) + 1 \in BalanceEvents(longer)
    BY <1>2, BalanceEventsOfAppend
  <2>2. PICK i \in BalanceEvents(longer) :
          /\ Balance(longer) = longer[i].after
          /\ \A j \in BalanceEvents(longer) : j <= i
    BY <1>1, <2>1, BalanceIsLast
  <2>3. i = Len(log) + 1
    BY <1>2, <2>1, <2>2, BalanceEventsOfAppend
  <2> QED BY <1>2, <2>2, <2>3, BalanceEventsOfAppend
<1>3. CASE e.type \notin BalanceTypes
  <2>1. BalanceEvents(longer) = BalanceEvents(log)
    BY <1>3, BalanceEventsOfAppend
  <2>2. CASE BalanceEvents(log) = {}
    BY <1>3, <2>1, <2>2 DEF Balance
  <2>3. CASE BalanceEvents(log) # {}
    <3>1. Max(BalanceEvents(log)) \in BalanceEvents(log)
      <4>1. Len(log) \in Nat /\ BalanceEvents(log) \in SUBSET (1..Len(log))
        BY LenProperties DEF BalanceEvents
      <4> QED BY <2>3, <4>1, MaxIsMember
    <3>2. longer[Max(BalanceEvents(log))] = log[Max(BalanceEvents(log))]
      BY <3>1, BalanceEventsOfAppend
    <3> QED BY <1>3, <2>1, <2>3, <3>2 DEF Balance
  <2> QED BY <2>2, <2>3
<1> QED BY <1>2, <1>3

LEMMA PrefixOfAppend ==
  ASSUME NEW log \in Seq(Event), NEW e \in Event, NEW n \in 0..Len(log)
  PROVE  SubSeq(Append(log, e), 1, n) = SubSeq(log, 1, n)
<1> DEFINE longer == Append(log, e)
<1>1. Len(log) \in Nat /\ \A i \in 1..Len(log) : longer[i] = log[i] /\ log[i] \in Event
  BY AppendProperties, ElementOfSeq, LenProperties
<1>2. \A i \in 1..n : longer[i] \in Event /\ log[i] \in Event
  BY <1>1
<1>3. /\ SubSeq(longer, 1, n) \in Seq(Event) /\ Len(SubSeq(longer, 1, n)) = n
      /\ \A i \in 1..n : SubSeq(longer, 1, n)[i] = longer[i]
  BY <1>1, <1>2, SubSeqProperties
<1>4. /\ SubSeq(log, 1, n) \in Seq(Event) /\ Len(SubSeq(log, 1, n)) = n
      /\ \A i \in 1..n : SubSeq(log, 1, n)[i] = log[i]
  BY <1>1, <1>2, SubSeqProperties
<1> QED BY <1>1, <1>3, <1>4, SeqEqual

(* A chain goes on when the next balance event starts from the balance.    *)
LEMMA ChainedAppend ==
  ASSUME NEW log \in Seq(Event), NEW e \in Event, Chained(log),
         e.type \in BalanceTypes => e.before = Balance(log)
  PROVE  Chained(Append(log, e))
<1> DEFINE longer == Append(log, e)
<1> SUFFICES ASSUME NEW i \in BalanceEvents(longer)
             PROVE  longer[i].before = Balance(SubSeq(longer, 1, i - 1))
  BY DEF Chained
<1>1. CASE i \in BalanceEvents(log)
  <2>1. i - 1 \in 0..Len(log) /\ longer[i] = log[i]
    BY <1>1, BalanceEventsOfAppend
  <2>2. SubSeq(longer, 1, i - 1) = SubSeq(log, 1, i - 1)
    BY <2>1, PrefixOfAppend
  <2> QED BY <1>1, <2>1, <2>2 DEF Chained
<1>2. CASE i \notin BalanceEvents(log)
  <2>1. i = Len(log) + 1 /\ e.type \in BalanceTypes /\ longer[i] = e /\ Len(log) \in Nat
    BY <1>2, BalanceEventsOfAppend
  <2>2. SubSeq(longer, 1, i - 1) = SubSeq(log, 1, Len(log))
    BY <2>1, PrefixOfAppend
  <2> QED BY <2>1, <2>2, SubSeqFull
<1> QED BY <1>1, <1>2

LEMMA StepsAppend ==
  ASSUME NEW log \in Seq(Event), NEW e \in Event, StepsByAmount(log),
         e.type \in BalanceTypes => e.after = e.before + Movement(e)
  PROVE  StepsByAmount(Append(log, e))
BY BalanceEventsOfAppend DEF StepsByAmount

----

(* A balance event as the handlers build it.                               *)
Sound(e) ==
  /\ e.type \in WalletTypes
  /\ e.type \in BalanceTypes =>
       /\ e.after >= 0
       /\ e.type = "FundsDebited" => e.amount <= e.before
       /\ e.after = e.before + Movement(e)

BuiltAreSound == \A a \in WalletActors : At(a, "save") => Sound(op[a].event)

HandIsRequest == ~At(Wallet, "idle") => InHand(Wallet).type = "WalletPaymentRequested"

(* As long as no two operations overlap on a user's log, the log is an     *)
(* exact account and an operation in flight still starts from its balance. *)
ExactInFlight ==
  \A u \in Users \ overlapped :
    /\ Chained(store[u]) /\ StepsByAmount(store[u])
    /\ \A a \in InFlight(u) : op[a].event.before = Balance(store[u])

WalletInv ==
  /\ RuntimeInv
  /\ overlapped \subseteq Users
  /\ HandIsRequest
  /\ BuiltAreSound
  /\ NoOverdraft
  /\ ExactInFlight

LEMMA WalletActorsAreActors == WalletActors \subseteq Actors
BY WalletAssumption DEF WalletActors, Actors, Calls

LEMMA LogsAreSeqs == ASSUME RuntimeInv, NEW u \in Users PROVE store[u] \in Seq(Event)
BY DEF RuntimeInv, RuntimeTypeOK, Aggregates

LEMMA BalanceNotNegative ==
  ASSUME WalletInv, NEW u \in Users
  PROVE  Balance(store[u]) \in Nat
<1>1. store[u] \in Seq(Event)
  BY LogsAreSeqs DEF WalletInv
<1>2. \A i \in BalanceEvents(store[u]) : store[u][i].after >= 0
  BY DEF WalletInv, NoOverdraft
<1> QED BY <1>1, <1>2, BalanceIsNat, BalanceIsInt

LEMMA WalletInitInv == WalletInit => WalletInv
<1> SUFFICES ASSUME WalletInit PROVE WalletInv
  OBVIOUS
<1>1. RuntimeInv
  BY RuntimeInitInv DEF WalletInit
<1>2. \A a \in WalletActors : At(a, "idle")
  BY WalletActorsAreActors DEF WalletInit, RuntimeInit, At
<1>3. \A u \in Users : store[u] = <<>>
  BY DEF WalletInit, RuntimeInit, StoreInit, Aggregates
<1>4. BalanceEvents(<<>>) = {}
  BY EmptySeq DEF BalanceEvents
<1>5. HandIsRequest /\ BuiltAreSound
  BY <1>2 DEF HandIsRequest, BuiltAreSound, WalletActors, At
<1>6. NoOverdraft
  BY <1>3, <1>4 DEF NoOverdraft
<1>7. ExactInFlight
  BY <1>2, <1>3, <1>4 DEF ExactInFlight, InFlight, At, Chained, StepsByAmount
<1> QED BY <1>1, <1>5, <1>6, <1>7 DEF WalletInv, WalletInit

----
(* A step that saves nothing in a wallet's log and builds nothing disturbs *)
(* no account.                                                             *)
LEMMA QuietStep ==
  ASSUME WalletInv, RuntimeInv', HandIsRequest', UNCHANGED overlapped,
         \A u \in Users : store'[u] = store[u],
         \A a \in WalletActors : op'[a] = op[a] \/ op'[a].at # "save"
  PROVE  WalletInv'
<1>1. BuiltAreSound'
  BY DEF WalletInv, BuiltAreSound, At
<1>2. NoOverdraft'
  BY DEF WalletInv, NoOverdraft
<1>3. ExactInFlight'
  <2>1. \A u \in Users : \A a \in InFlight(u)' : a \in InFlight(u) /\ op'[a] = op[a]
    BY DEF InFlight, At
  <2> QED BY <2>1 DEF WalletInv, ExactInFlight
<1> QED BY <1>1, <1>2, <1>3 DEF WalletInv

(* An event built from the balance of its user's log.                      *)
LEMMA BuildStep ==
  ASSUME WalletInv, NEW a \in WalletActors, a \in Groups => ~At(a, "idle"),
         NEW e \in Event, Build(a, e), Sound(e),
         e.type \in BalanceTypes => e.before = Balance(store[e.user]),
         UNCHANGED overlapped
  PROVE  WalletInv'
<1>1. a \in Actors /\ RuntimeInv /\ RuntimeInv'
  BY BuildKeepsInv, WalletActorsAreActors DEF WalletInv
<1>2. /\ op'[a] = [at |-> "save", event |-> e]
      /\ \A b \in Actors \ {a} : op'[b] = op[b]
      /\ UNCHANGED <<store, busVars>>
  <2>1. "save" \in Steps BY DEF Steps
  <2> QED BY <1>1, <2>1, GotoTyped DEF Build
<1>3. HandIsRequest'
  <2>1. InHand(Wallet)' = InHand(Wallet)
    BY <1>2 DEF InHand, busVars
  <2>2. ~At(Wallet, "idle")' => ~At(Wallet, "idle")
    BY <1>1, <1>2, WalletAssumption DEF At, Actors
  <2> QED BY <2>1, <2>2 DEF WalletInv, HandIsRequest
<1>4. BuiltAreSound'
  BY <1>2, WalletActorsAreActors DEF WalletInv, BuiltAreSound, At
<1>5. NoOverdraft'
  BY <1>2 DEF WalletInv, NoOverdraft
<1>6. ExactInFlight'
  <2>1. \A u \in Users : \A b \in InFlight(u)' :
          \/ b = a /\ e.user = u /\ e.type \in BalanceTypes
          \/ b # a /\ b \in InFlight(u) /\ op'[b] = op[b]
    BY <1>2, WalletActorsAreActors DEF InFlight, At
  <2> QED BY <1>2, <2>1 DEF WalletInv, ExactInFlight
<1> QED BY <1>1, <1>3, <1>4, <1>5, <1>6 DEF WalletInv

(* A save appends the event to its user's log.  When no other operation on *)
(* that log is in flight the account goes on; when one is, the user joins  *)
(* overlapped.                                                             *)
LEMMA SaveStep ==
  ASSUME WalletInv, NEW a \in WalletActors, WalletSave(a)
  PROVE  WalletInv'
<1> DEFINE e == op[a].event
<1>1. a \in Actors /\ RuntimeInv /\ RuntimeInv' /\ Save(a) /\ At(a, "save")
  BY SaveKeepsInv, WalletActorsAreActors DEF WalletInv, WalletSave, Save
<1>2. /\ op'[a] = [at |-> "publish", event |-> e]
      /\ \A b \in Actors \ {a} : op'[b] = op[b]
      /\ UNCHANGED busVars
  <2>1. "publish" \in Steps BY DEF Steps
  <2> QED BY <1>1, <2>1, GotoTyped, SaveAppends DEF Save
<1>3. e \in Event /\ Sound(e)
  BY <1>1, SaveAppends DEF WalletInv, BuiltAreSound
<1>4. e.user \in Users /\ e.user \in Aggregates
  BY <1>3 DEF Event, Aggregates
<1>5. /\ store'[e.user] = Append(store[e.user], e)
      /\ \A u \in Users \ {e.user} : store'[u] = store[u]
  BY <1>1, <1>3, <1>4, SaveAppends DEF Sound, Aggregate, Aggregates
<1>6. \A u \in Users : store[u] \in Seq(Event)
  BY <1>1, LogsAreSeqs
<1>7. overlapped \subseteq overlapped' /\ overlapped' \subseteq Users
  BY <1>4 DEF WalletSave, WalletInv
<1>8. HandIsRequest'
  <2>1. InHand(Wallet)' = InHand(Wallet)
    BY <1>2 DEF InHand, busVars
  <2>2. At(Wallet, "idle")' <=> At(Wallet, "idle")
    BY <1>1, <1>2, WalletAssumption DEF At, Actors
  <2> QED BY <2>1, <2>2 DEF WalletInv, HandIsRequest
<1>9. BuiltAreSound'
  BY <1>2, WalletActorsAreActors DEF WalletInv, BuiltAreSound, At
<1>10. NoOverdraft'
  <2> SUFFICES ASSUME NEW u \in Users, NEW i \in BalanceEvents(store'[u])
               PROVE  /\ store'[u][i].after >= 0
                      /\ store'[u][i].type = "FundsDebited" =>
                           store'[u][i].amount <= store'[u][i].before
    BY DEF NoOverdraft
  <2>1. CASE u # e.user
    BY <1>5, <2>1 DEF WalletInv, NoOverdraft
  <2>2. CASE u = e.user
    <3> HIDE DEF e
    <3>1. store[u] \in Seq(Event) /\ store'[u] = Append(store[u], e)
      BY <1>5, <1>6, <2>2
    <3>2. \/ i \in BalanceEvents(store[u]) /\ store'[u][i] = store[u][i]
          \/ e.type \in BalanceTypes /\ store'[u][i] = e
      BY <1>3, <3>1, BalanceEventsOfAppend
    <3>3. CASE i \in BalanceEvents(store[u]) /\ store'[u][i] = store[u][i]
      BY <3>3 DEF WalletInv, NoOverdraft
    <3>4. CASE e.type \in BalanceTypes /\ store'[u][i] = e
      BY <1>3, <3>4 DEF Sound
    <3> QED BY <3>2, <3>3, <3>4
  <2> QED BY <2>1, <2>2
<1>11. ExactInFlight'
  <2> SUFFICES ASSUME NEW u \in Users, u \notin overlapped'
               PROVE  /\ Chained(store'[u]) /\ StepsByAmount(store'[u])
                      /\ \A b \in InFlight(u)' : op'[b].event.before = Balance(store'[u])
    BY DEF ExactInFlight
  <2>1. /\ Chained(store[u]) /\ StepsByAmount(store[u])
        /\ \A b \in InFlight(u) : op[b].event.before = Balance(store[u])
    BY <1>7 DEF WalletInv, ExactInFlight
  <2>2. \A b \in InFlight(u)' : b # a /\ b \in InFlight(u) /\ op'[b] = op[b]
    BY <1>2, WalletActorsAreActors DEF InFlight, At
  <2>3. CASE u # e.user
    BY <1>5, <2>1, <2>2, <2>3
  <2>4. CASE u = e.user /\ e.type \in BalanceTypes
    <3>1. a \in InFlight(u)
      BY <1>1, <2>4 DEF InFlight
    <3>2. InFlight(u) = {a}
      BY <2>4, <3>1 DEF WalletSave
    <3>3. e.before = Balance(store[u]) /\ InFlight(u)' = {}
      BY <2>1, <2>2, <3>1, <3>2
    <3> HIDE DEF e
    <3>4. store[u] \in Seq(Event) /\ store'[u] = Append(store[u], e)
      BY <1>5, <1>6, <2>4
    <3>5. Chained(store'[u])
      BY <1>3, <2>1, <3>3, <3>4, ChainedAppend
    <3>6. StepsByAmount(store'[u])
      BY <1>3, <2>1, <2>4, <3>4, StepsAppend DEF Sound
    <3> QED BY <3>3, <3>5, <3>6
  <2>5. CASE u = e.user /\ e.type \notin BalanceTypes
    <3> HIDE DEF e
    <3>1. store[u] \in Seq(Event) /\ store'[u] = Append(store[u], e)
      BY <1>5, <1>6, <2>5
    <3>2. Chained(store'[u])
      BY <1>3, <2>1, <2>5, <3>1, ChainedAppend
    <3>3. StepsByAmount(store'[u])
      BY <1>3, <2>1, <2>5, <3>1, StepsAppend
    <3>4. Balance(store'[u]) = Balance(store[u])
      BY <1>3, <2>5, <3>1, BalanceOfAppend
    <3> QED BY <2>1, <2>2, <3>2, <3>3, <3>4
  <2> QED BY <2>3, <2>4, <2>5
<1> QED BY <1>1, <1>7, <1>8, <1>9, <1>10, <1>11 DEF WalletInv

----
LEMMA ReceiveStep == ASSUME WalletInv, WalletReceive PROVE WalletInv'
<1>1. RuntimeInv /\ Receive(Wallet, {"WalletPaymentRequested"}) /\ UNCHANGED overlapped
  BY DEF WalletInv, WalletReceive
<1>2. RuntimeInv'
  BY <1>1, ReceiveKeepsInv, WalletAssumption
<1>3. HandIsRequest'
  <2>1. InHand(Wallet)'.type = "WalletPaymentRequested"
    BY <1>1, ReceiveHands, WalletAssumption
  <2> QED BY <2>1 DEF HandIsRequest
<1>4. \A a \in WalletActors : op'[a] = op[a] \/ op'[a].at # "save"
  <2>1. "handle" \in Steps BY DEF Steps
  <2>2. Wallet \in Actors /\ Goto(Wallet, "handle", NoEvent)
    BY <1>1, WalletAssumption DEF Actors, Receive
  <2>3. /\ op'[Wallet] = [at |-> "handle", event |-> NoEvent]
        /\ \A b \in Actors \ {Wallet} : op'[b] = op[b]
    BY <1>1, <2>1, <2>2, GotoTyped
  <2> QED BY <2>3, WalletActorsAreActors
<1> QED BY <1>1, <1>2, <1>3, <1>4, QuietStep DEF Receive

LEMMA IgnoreStep == ASSUME WalletInv, WalletIgnore PROVE WalletInv'
<1>1. RuntimeInv /\ Ignore(Wallet, {"WalletPaymentRequested"}) /\ UNCHANGED overlapped
  BY DEF WalletInv, WalletIgnore
<1>2. RuntimeInv'
  BY <1>1, IgnoreKeepsInv, WalletAssumption
<1>3. HandIsRequest'
  BY <1>1 DEF HandIsRequest, Ignore, At
<1>4. UNCHANGED <<store, op>>
  BY <1>1 DEF Ignore
<1> QED BY <1>1, <1>2, <1>3, <1>4, QuietStep

(* The answer to a request is an event, and a sound one.                   *)
LEMMA AnswerIsSound ==
  ASSUME NEW m \in Event, m.payment \in Payments, NEW balance \in Nat
  PROVE  /\ Answer(m, balance) \in Event
         /\ Sound(Answer(m, balance))
         /\ Answer(m, balance).user = m.user
         /\ Answer(m, balance).before = balance
<1>1. m.payment \in Payments /\ m.user \in Users /\ m.amount \in Nat
  BY DEF Event
<1>2. CASE ValidateDebit(balance, m.amount)
  <2>1. Answer(m, balance) =
          [type |-> "FundsDebited", payment |-> m.payment, user |-> m.user,
           amount |-> m.amount, before |-> balance, after |-> balance - m.amount,
           success |-> TRUE]
    BY <1>2 DEF Answer, NewFundsDebited, NewBalanceEvent
  <2>2. balance >= m.amount
    BY <1>2 DEF ValidateDebit
  <2> QED BY <1>1, <2>1, <2>2 DEF Event, EventTypes, Sound, Movement, WalletTypes
<1>3. CASE ~ValidateDebit(balance, m.amount)
  <2>1. Answer(m, balance) =
          [type |-> "FundsInsufficient", payment |-> m.payment, user |-> m.user,
           amount |-> m.amount, before |-> balance, after |-> balance, success |-> TRUE]
    BY <1>3 DEF Answer, NewFundsInsufficient, NewBalanceEvent
  <2> QED BY <1>1, <2>1 DEF Event, EventTypes, Sound, BalanceTypes, WalletTypes
<1> QED BY <1>2, <1>3

LEMMA CreditIsSound ==
  ASSUME NEW p \in Payments \cup {NoPayment}, NEW u \in Users, NEW a \in Amounts,
         NEW balance \in Nat
  PROVE  LET e == NewFundsCredited(p, u, a, balance, balance + a)
         IN  e \in Event /\ Sound(e) /\ e.user = u /\ e.before = balance
<1> DEFINE e == NewFundsCredited(p, u, a, balance, balance + a)
<1>1. a \in Nat
  BY EventsAssumption
<1>2. e = [type |-> "FundsCredited", payment |-> p, user |-> u, amount |-> a,
           before |-> balance, after |-> balance + a, success |-> TRUE]
  BY DEF NewFundsCredited, NewBalanceEvent
<1> HIDE DEF e
<1>3. e \in Event
  BY <1>1, <1>2 DEF Event, EventTypes
<1>4. Sound(e)
  <2>1. Movement(e) = a
    BY <1>2 DEF Movement
  <2> QED BY <1>1, <1>2, <2>1 DEF Sound, WalletTypes
<1> QED BY <1>2, <1>3, <1>4 DEF e

LEMMA HandleStep == ASSUME WalletInv, HandleWalletPaymentRequested PROVE WalletInv'
<1> DEFINE m == InHand(Wallet)
           e == Answer(m, Balance(store[m.user]))
<1>1. RuntimeInv /\ ~At(Wallet, "idle") /\ Build(Wallet, e) /\ UNCHANGED overlapped
  BY DEF WalletInv, HandleWalletPaymentRequested, At, LoadEvents
<1>2. m \in Event /\ m.user \in Users /\ m.payment \in Payments
  <2>1. m \in Event /\ m.type = "WalletPaymentRequested"
    BY <1>1, InHandIsEvent, WalletAssumption DEF WalletInv, HandIsRequest
  <2> QED BY <2>1 DEF Event
<1>3. Balance(store[m.user]) \in Nat
  BY <1>2, BalanceNotNegative
<1>4. e \in Event /\ Sound(e) /\ e.user = m.user /\ e.before = Balance(store[m.user])
  BY <1>2, <1>3, AnswerIsSound
<1> QED
  <2> HIDE DEF e, m
  <2>1. Wallet \in WalletActors BY DEF WalletActors
  <2> QED BY <1>1, <1>4, <2>1, BuildStep

LEMMA CreditStep ==
  ASSUME WalletInv, NEW c \in WalletCalls, NEW p \in Payments \cup {NoPayment},
         NEW u \in Users, NEW a \in Amounts, UNCHANGED overlapped,
         Build(c, NewFundsCredited(p, u, a, Balance(store[u]), Balance(store[u]) + a))
  PROVE  WalletInv'
<1> DEFINE e == NewFundsCredited(p, u, a, Balance(store[u]), Balance(store[u]) + a)
<1>1. Balance(store[u]) \in Nat
  BY BalanceNotNegative
<1>2. e \in Event /\ Sound(e) /\ e.user = u /\ e.before = Balance(store[u])
  BY <1>1, CreditIsSound
<1>3. c \in WalletActors /\ c \notin Groups
  BY RuntimeAssumption DEF WalletActors, Calls
<1> QED
  <2> HIDE DEF e
  <2>1. Build(c, e) BY DEF e
  <2> QED BY <1>2, <1>3, <2>1, BuildStep

LEMMA StoreFailsStep ==
  ASSUME WalletInv, NEW a \in WalletActors, WalletStoreFails(a)
  PROVE  WalletInv'
<1>1. a \in Actors /\ RuntimeInv /\ StoreFails(a) /\ UNCHANGED <<store, busVars, overlapped>>
  BY WalletActorsAreActors DEF WalletInv, WalletStoreFails, StoreFails
<1>2. RuntimeInv'
  BY <1>1, StoreFailsKeepsInv
<1>3. /\ op'[a] = [at |-> Ended(a), event |-> NoEvent]
      /\ \A b \in Actors \ {a} : op'[b] = op[b]
  <2>1. Ended(a) \in Steps BY DEF Steps, Ended
  <2> QED BY <1>1, <2>1, GotoTyped DEF StoreFails
<1>4. HandIsRequest'
  <2>1. InHand(Wallet)' = InHand(Wallet)
    BY <1>1 DEF InHand, busVars
  <2>2. ~At(Wallet, "idle")' => ~At(Wallet, "idle")
    BY <1>1, <1>3, WalletAssumption DEF StoreFails, At, Actors
  <2> QED BY <2>1, <2>2 DEF WalletInv, HandIsRequest
<1>5. \A b \in WalletActors : op'[b] = op[b] \/ op'[b].at # "save"
  BY <1>3, WalletActorsAreActors DEF Ended
<1> QED BY <1>1, <1>2, <1>4, <1>5, QuietStep

LEMMA SendStep ==
  ASSUME WalletInv, NEW a \in Actors, a \in Groups => ~At(a, "idle"),
         NEW m \in Event, Send(m), Goto(a, Ended(a), NoEvent),
         UNCHANGED <<store, overlapped>>
  PROVE  WalletInv'
<1>1. RuntimeInv /\ RuntimeInv'
  BY SendKeepsInv DEF WalletInv
<1>2. /\ op'[a] = [at |-> Ended(a), event |-> NoEvent]
      /\ \A b \in Actors \ {a} : op'[b] = op[b]
  <2>1. Ended(a) \in Steps BY DEF Steps, Ended
  <2> QED BY <1>1, <2>1, GotoTyped
<1>3. HandIsRequest'
  <2> SUFFICES ASSUME ~At(Wallet, "idle")' PROVE InHand(Wallet)'.type = "WalletPaymentRequested"
    BY DEF HandIsRequest
  <2>1. ~At(Wallet, "idle")
    BY <1>2, WalletAssumption DEF At, Actors
  <2>2. InHand(Wallet)' = InHand(Wallet)
    BY <1>1, <2>1, SendKeepsHand, WalletAssumption
  <2> QED BY <2>1, <2>2 DEF WalletInv, HandIsRequest
<1>4. \A b \in WalletActors : op'[b] = op[b] \/ op'[b].at # "save"
  BY <1>2, WalletActorsAreActors DEF Ended
<1> QED BY <1>1, <1>3, <1>4, QuietStep

LEMMA PublishStep ==
  ASSUME WalletInv, NEW a \in Actors, Publish(a), UNCHANGED overlapped
  PROVE  WalletInv'
<1>1. a \in Groups => ~At(a, "idle")
  BY DEF Publish, At
<1>2. op[a].event \in Event /\ Send(op[a].event) /\ Goto(a, Ended(a), NoEvent) /\ UNCHANGED store
  BY DEF Publish, WalletInv, RuntimeInv, BuiltOK
<1> QED BY <1>1, <1>2, SendStep

LEMMA CommitStep == ASSUME WalletInv, WalletCommit PROVE WalletInv'
<1>1. RuntimeInv /\ CommitMessage(Wallet) /\ UNCHANGED <<store, overlapped>>
  BY DEF WalletInv, WalletCommit, CommitMessage
<1>2. RuntimeInv'
  BY <1>1, CommitKeepsInv, WalletAssumption
<1>3. /\ op'[Wallet] = [at |-> "idle", event |-> NoEvent]
      /\ \A b \in Actors \ {Wallet} : op'[b] = op[b]
  <2>1. "idle" \in Steps BY DEF Steps
  <2>2. Wallet \in Actors /\ Goto(Wallet, "idle", NoEvent)
    BY <1>1, WalletAssumption DEF Actors, CommitMessage
  <2> QED BY <1>1, <2>1, <2>2, GotoTyped
<1>4. HandIsRequest'
  BY <1>3 DEF HandIsRequest, At
<1>5. \A b \in WalletActors : op'[b] = op[b] \/ op'[b].at # "save"
  BY <1>3, WalletActorsAreActors
<1> QED BY <1>1, <1>2, <1>4, <1>5, QuietStep

LEMMA CrashStep == ASSUME WalletInv, WalletCrash PROVE WalletInv'
<1>1. RuntimeInv /\ Crash(Wallet) /\ UNCHANGED <<store, overlapped>>
  BY DEF WalletInv, WalletCrash, Crash
<1>2. RuntimeInv'
  BY <1>1, CrashKeepsInv, WalletAssumption
<1>3. /\ op'[Wallet] = [at |-> "idle", event |-> NoEvent]
      /\ \A b \in Actors : op'[b] = op[b] \/ op'[b].at \in {"idle", "done"}
  BY <1>1, CrashEnds, WalletAssumption
<1>4. HandIsRequest'
  BY <1>3 DEF HandIsRequest, At
<1>5. \A b \in WalletActors : op'[b] = op[b] \/ op'[b].at # "save"
  BY <1>3, WalletActorsAreActors
<1> QED BY <1>1, <1>2, <1>4, <1>5, QuietStep

LEMMA WalletStepInv == ASSUME WalletInv, WalletStep PROVE WalletInv'
<1>1. CASE WalletReceive BY <1>1, ReceiveStep
<1>2. CASE WalletIgnore BY <1>2, IgnoreStep
<1>3. CASE HandleWalletPaymentRequested BY <1>3, HandleStep
<1>4. ASSUME NEW c \in WalletCalls, NEW u \in Users, NEW a \in Amounts,
             AddFunds(c, u, a) \/ \E p \in Payments : ProcessRefund(c, p, u, a)
      PROVE  WalletInv'
  <2>1. PICK p \in Payments \cup {NoPayment} :
          Build(c, NewFundsCredited(p, u, a, Balance(store[u]), Balance(store[u]) + a))
    BY <1>4 DEF AddFunds, ProcessRefund, LoadEvents
  <2>2. UNCHANGED overlapped
    BY <1>4 DEF AddFunds, ProcessRefund
  <2> QED BY <2>1, <2>2, CreditStep
<1>5. ASSUME NEW a \in WalletActors, WalletSave(a) \/ WalletStoreFails(a) \/ WalletPublish(a)
      PROVE  WalletInv'
  BY <1>5, SaveStep, StoreFailsStep, PublishStep, WalletActorsAreActors DEF WalletPublish
<1>6. CASE WalletCommit BY <1>6, CommitStep
<1>7. CASE WalletCrash BY <1>7, CrashStep
<1> QED BY <1>1, <1>2, <1>3, <1>4, <1>5, <1>6, <1>7 DEF WalletStep

----
(* Save comes before publish: what is on its way to the topic is in the    *)
(* log, and logs only grow.                                                *)
SavedFirst == \A a \in WalletActors : At(a, "publish") => op[a].event \in Stored

StoredInv == SavedFirst /\ PublishedAreStored

LEMMA StoredGrows ==
  ASSUME RuntimeInv, NEW a \in Actors, Save(a)
  PROVE  Stored \subseteq Stored' /\ op[a].event \in Stored'
<1>1. op[a].event \in Event
  BY SaveAppends
<1>2. Aggregate(op[a].event) \in Aggregates
  BY <1>1 DEF Event, Aggregate, Aggregates, WalletTypes
<1>3. \A x \in Aggregates : \A i \in DOMAIN store[x] :
        i \in DOMAIN store'[x] /\ store'[x][i] = store[x][i]
  BY LogsGrow
<1>4. \E i \in DOMAIN store'[Aggregate(op[a].event)] :
        store'[Aggregate(op[a].event)][i] = op[a].event
  BY <1>2, LogsGrow
<1>5. Stored \subseteq Stored'
  BY <1>3 DEF Stored
<1>6. op[a].event \in Stored'
  BY <1>2, <1>4 DEF Stored
<1> QED BY <1>5, <1>6

LEMMA SendPublishes ==
  ASSUME RuntimeInv, NEW m \in Event, Send(m)
  PROVE  Published' \subseteq Published \cup {m}
<1> SUFFICES ASSUME NEW p \in Partitions, NEW i \in DOMAIN topic'[p]
             PROVE  topic'[p][i] = m \/ \E j \in DOMAIN topic[p] : topic[p][j] = topic'[p][i]
  BY DEF Published
<1>1. /\ topic[p] \in Seq(Event) /\ DOMAIN topic[p] = 1..Len(topic[p]) /\ Len(topic[p]) \in Nat
  BY LenProperties DEF RuntimeInv, RuntimeTypeOK
<1>2. DOMAIN topic'[p] = 1..Len(topic'[p]) /\ Len(topic'[p]) \in Nat
  BY SendAppends, LenProperties
<1>3. CASE i <= Len(topic[p])
  BY <1>1, <1>2, <1>3, SendAppends
<1>4. CASE i > Len(topic[p])
  BY <1>2, <1>4, SendAppends
<1> QED BY <1>1, <1>2, <1>3, <1>4

LEMMA QuietStored ==
  ASSUME StoredInv, Stored \subseteq Stored',
         \A e \in Published' : e \in Published \/ e.type \notin WalletTypes \/ e \in Stored,
         \A a \in WalletActors : \/ op'[a] = op[a] \/ op'[a].at # "publish"
                                 \/ op'[a].event \in Stored'
  PROVE  StoredInv'
BY DEF StoredInv, SavedFirst, PublishedAreStored, At

LEMMA StoredInit == WalletInit => StoredInv
<1> SUFFICES ASSUME WalletInit PROVE StoredInv
  OBVIOUS
<1>1. SavedFirst
  BY WalletActorsAreActors DEF WalletInit, RuntimeInit, SavedFirst, At
<1>2. Published = {}
  <2>1. \A p \in Partitions : topic[p] = <<>>
    BY DEF WalletInit, RuntimeInit, BusInit
  <2>2. DOMAIN <<>> = {}
    BY EmptySeq
  <2> QED BY <2>1, <2>2 DEF Published
<1> QED BY <1>1, <1>2 DEF StoredInv, PublishedAreStored

(* A step that writes to neither table nor topic, and moves one actor of   *)
(* the service, if any, to a step other than the publication.              *)
LEMMA MoveStored ==
  ASSUME WalletInv, StoredInv, UNCHANGED <<store, topic>>, NEW a \in Actors,
         NEW step \in Steps \ {"publish"}, NEW e \in Event \cup {NoEvent}, Goto(a, step, e)
  PROVE  StoredInv'
<1>1. /\ op'[a] = [at |-> step, event |-> e]
      /\ \A b \in Actors \ {a} : op'[b] = op[b]
  BY GotoTyped DEF WalletInv
<1>2. Stored' = Stored /\ Published' = Published
  BY DEF Stored, Published
<1> QED BY <1>1, <1>2, QuietStored, WalletActorsAreActors

LEMMA SaveStored ==
  ASSUME WalletInv, StoredInv, NEW a \in WalletActors, WalletSave(a)
  PROVE  StoredInv'
<1>1. a \in Actors /\ RuntimeInv /\ Save(a) /\ At(a, "save")
  BY WalletActorsAreActors DEF WalletInv, WalletSave, Save
<1>2. op[a].event \in Event
  BY <1>1, SaveAppends
<1>3. Stored \subseteq Stored' /\ op[a].event \in Stored'
  BY <1>1, StoredGrows
<1>4. /\ op'[a] = [at |-> "publish", event |-> op[a].event]
      /\ \A b \in Actors \ {a} : op'[b] = op[b]
  <2>1. "publish" \in Steps BY DEF Steps
  <2> QED BY <1>1, <1>2, <2>1, GotoTyped DEF Save
<1>5. Published' = Published
  BY <1>1 DEF Save, busVars, Published
<1> QED BY <1>3, <1>4, <1>5, QuietStored, WalletActorsAreActors

LEMMA SendStored ==
  ASSUME WalletInv, StoredInv, NEW a \in Actors, NEW m \in Event,
         m.type \notin WalletTypes \/ m \in Stored,
         Send(m), Goto(a, Ended(a), NoEvent), UNCHANGED store
  PROVE  StoredInv'
<1>1. RuntimeInv
  BY DEF WalletInv
<1>2. Stored' = Stored /\ Published' \subseteq Published \cup {m}
  BY <1>1, SendPublishes DEF Stored
<1>3. /\ op'[a].at # "publish"
      /\ \A b \in Actors \ {a} : op'[b] = op[b]
  <2>1. Ended(a) \in Steps /\ Ended(a) # "publish"
    BY DEF Steps, Ended
  <2>2. op'[a] = [at |-> Ended(a), event |-> NoEvent] /\ \A b \in Actors \ {a} : op'[b] = op[b]
    BY <1>1, <2>1, GotoTyped
  <2> QED BY <2>1, <2>2
<1> QED BY <1>2, <1>3, QuietStored, WalletActorsAreActors

LEMMA WalletStepStored == ASSUME WalletInv, StoredInv, WalletStep PROVE StoredInv'
<1>0. /\ Wallet \in Actors /\ NoEvent \in Event \cup {NoEvent}
      /\ {"idle", "handle", "save", "commit", "done"} \subseteq Steps \ {"publish"}
  BY WalletAssumption DEF Actors, Steps
<1>1. CASE WalletReceive
  <2>1. Goto(Wallet, "handle", NoEvent) /\ UNCHANGED <<store, topic>>
    BY <1>1 DEF WalletReceive, Receive, Fetch
  <2> QED BY <1>0, <2>1, MoveStored
<1>2. CASE WalletIgnore
  <2>1. UNCHANGED <<store, topic, op>>
    BY <1>2 DEF WalletIgnore, Ignore, Pass
  <2>2. Stored' = Stored /\ Published' = Published
    BY <2>1 DEF Stored, Published
  <2> QED BY <2>1, <2>2, QuietStored
<1>3. ASSUME NEW a \in WalletActors, NEW e, Build(a, e)
      PROVE  StoredInv'
  <2>1. a \in Actors /\ Goto(a, "save", e) /\ UNCHANGED <<store, topic>>
    BY <1>3, WalletActorsAreActors DEF Build, busVars
  <2>2. \A b \in WalletActors : op'[b] = op[b] \/ op'[b].at # "publish"
    BY <2>1, WalletActorsAreActors DEF Goto, WalletInv, RuntimeInv, RuntimeTypeOK
  <2>3. Stored' = Stored /\ Published' = Published
    BY <2>1 DEF Stored, Published
  <2> QED BY <2>2, <2>3, QuietStored
<1>4. CASE HandleWalletPaymentRequested \/ \E c \in WalletCalls, u \in Users, a \in Amounts :
             AddFunds(c, u, a) \/ \E p \in Payments : ProcessRefund(c, p, u, a)
  BY <1>3, <1>4 DEF HandleWalletPaymentRequested, AddFunds, ProcessRefund, WalletActors
<1>5. ASSUME NEW a \in WalletActors, WalletSave(a) PROVE StoredInv'
  BY <1>5, SaveStored
<1>6. ASSUME NEW a \in WalletActors, WalletStoreFails(a) PROVE StoredInv'
  <2>1. a \in Actors /\ Goto(a, Ended(a), NoEvent) /\ UNCHANGED <<store, topic>>
    BY <1>6, WalletActorsAreActors DEF WalletStoreFails, StoreFails, busVars
  <2>2. Ended(a) \in Steps \ {"publish"}
    BY DEF Ended, Steps
  <2> QED BY <1>0, <2>1, <2>2, MoveStored
<1>7. ASSUME NEW a \in WalletActors, WalletPublish(a) PROVE StoredInv'
  <2>1. /\ a \in Actors /\ op[a].event \in Event /\ op[a].event \in Stored
        /\ Send(op[a].event) /\ Goto(a, Ended(a), NoEvent) /\ UNCHANGED store
    BY <1>7, WalletActorsAreActors
    DEF WalletPublish, Publish, WalletInv, RuntimeInv, BuiltOK, StoredInv, SavedFirst
  <2> QED BY <2>1, SendStored
<1>8. CASE WalletCommit
  <2>1. Goto(Wallet, "idle", NoEvent) /\ UNCHANGED <<store, topic>>
    BY <1>8 DEF WalletCommit, CommitMessage, Commit
  <2> QED BY <1>0, <2>1, MoveStored
<1>9. CASE WalletCrash
  <2>1. \A a \in WalletActors : op'[a] = op[a] \/ op'[a].at # "publish"
    BY <1>9, CrashEnds, WalletAssumption, WalletActorsAreActors DEF WalletInv, WalletCrash
  <2>2. UNCHANGED <<store, topic>>
    BY <1>9 DEF WalletCrash, Crash, Rejoin
  <2>3. Stored' = Stored /\ Published' = Published
    BY <2>2 DEF Stored, Published
  <2> QED BY <2>1, <2>3, QuietStored
<1> QED BY <1>1, <1>2, <1>4, <1>5, <1>6, <1>7, <1>8, <1>9 DEF WalletStep

----
(* While the events table does not fail, a request the consumer has read   *)
(* is answered, or is the one in hand, not committed yet, for which the    *)
(* event about to be saved is the answer.                                  *)
InService == At(Wallet, "handle") \/ At(Wallet, "save")

Settled(p, i) ==
  \/ topic[p][i].type # "WalletPaymentRequested"
  \/ Answers(topic[p][i].payment) # {}
  \/ InService /\ current[Wallet] = p /\ position[Wallet][p] = i

ServedInv ==
  /\ \A p \in Partitions : \A i \in 1..position[Wallet][p] : Settled(p, i)
  /\ InService => committed[Wallet][current[Wallet]] < position[Wallet][current[Wallet]]
  /\ At(Wallet, "save") =>
       op[Wallet].event.type \in AnswerTypes /\ op[Wallet].event.payment = InHand(Wallet).payment

(* What the bus holds for the consumer: offsets in order, a hand that is   *)
(* empty exactly when the consumer is idle.                                *)
LEMMA WalletOffsets ==
  ASSUME WalletInv
  PROVE  /\ \A p \in Partitions :
              /\ committed[Wallet][p] \in Nat /\ position[Wallet][p] \in Nat
              /\ Len(topic[p]) \in Nat
              /\ committed[Wallet][p] <= position[Wallet][p]
              /\ position[Wallet][p] <= Len(topic[p])
         /\ At(Wallet, "idle") \/ current[Wallet] \in Partitions
         /\ Wallet \in Actors /\ Wallet \in Groups
<1>1. \A p \in Partitions : Len(topic[p]) \in Nat
  BY LenProperties DEF WalletInv, RuntimeInv, RuntimeTypeOK
<1> QED BY <1>1, WalletAssumption DEF WalletInv, RuntimeInv, RuntimeTypeOK, OffsetsOK, HandOK, Actors

LEMMA SettledCommits ==
  ASSUME WalletInv, ServedInv, NEW p \in Partitions, NEW i \in 1..committed[Wallet][p],
         topic[p][i].type = "WalletPaymentRequested"
  PROVE  Answers(topic[p][i].payment) # {}
BY WalletOffsets DEF ServedInv, Settled

(* A step the consumer takes no part in.                                   *)
LEMMA OthersServed ==
  ASSUME WalletInv, ServedInv, \A x : Answers(x) # {} => Answers(x)' # {},
         \A p \in Partitions : \A i \in 1..position[Wallet][p] : topic'[p][i] = topic[p][i],
         position'[Wallet] = position[Wallet], committed'[Wallet] = committed[Wallet],
         current'[Wallet] = current[Wallet], op'[Wallet] = op[Wallet]
  PROVE  ServedInv'
<1>1. \A p \in Partitions : \A i \in 1..position'[Wallet][p] : Settled(p, i)'
  BY DEF ServedInv, Settled, InService, At
<1>2. InService' <=> InService
  BY DEF InService, At
<1>3. At(Wallet, "save")' => InHand(Wallet)' = InHand(Wallet)
  <2> SUFFICES ASSUME At(Wallet, "save") PROVE InHand(Wallet)' = InHand(Wallet)
    BY DEF At
  <2>1. /\ current[Wallet] \in Partitions
        /\ position[Wallet][current[Wallet]] \in 1..position[Wallet][current[Wallet]]
    BY WalletOffsets DEF At, WalletInv, RuntimeInv, HandOK
  <2> QED BY <2>1 DEF InHand
<1> QED BY <1>1, <1>2, <1>3 DEF ServedInv, At

(* The consumer moves on in its operation, with the logs and the bus as    *)
(* they were: an unanswered request stays in hand.                         *)
LEMMA InHandServed ==
  ASSUME WalletInv, ServedInv, InService' <=> InService,
         UNCHANGED <<store, topic, position, committed, current>>,
         At(Wallet, "save")' => /\ op'[Wallet].event.type \in AnswerTypes
                                /\ op'[Wallet].event.payment = InHand(Wallet).payment
  PROVE  ServedInv'
<1>1. \A x : Answers(x)' = Answers(x)
  BY DEF Answers
<1>2. InHand(Wallet)' = InHand(Wallet)
  BY DEF InHand
<1> QED BY <1>1, <1>2 DEF ServedInv, Settled

LEMMA AnswersGrow ==
  ASSUME WalletInv, NEW a \in WalletActors, WalletSave(a)
  PROVE  /\ \A x : Answers(x) # {} => Answers(x)' # {}
         /\ \A x : op[a].event.type \in AnswerTypes /\ op[a].event.payment = x => Answers(x)' # {}
<1> DEFINE e == op[a].event
<1>1. a \in Actors /\ RuntimeInv /\ Save(a) /\ At(a, "save")
  BY WalletActorsAreActors DEF WalletInv, WalletSave, Save
<1>2. e \in Event /\ e.type \in WalletTypes /\ e.user \in Users
  BY <1>1, SaveAppends DEF WalletInv, BuiltAreSound, Sound, Event
<1>3. Users \subseteq Aggregates /\ e.user = Aggregate(e)
  BY <1>2 DEF Aggregate, Aggregates
<1>4. ASSUME NEW u \in Users
      PROVE  /\ \A i \in DOMAIN store[u] : i \in DOMAIN store'[u] /\ store'[u][i] = store[u][i]
             /\ u = e.user => \E i \in DOMAIN store'[u] : store'[u][i] = e
  BY <1>1, <1>3, LogsGrow
<1> HIDE DEF e
<1>5. ASSUME NEW x, Answers(x) # {} PROVE Answers(x)' # {}
  <2>1. PICK u \in Users : \E j \in DOMAIN store[u] :
          store[u][j].type \in AnswerTypes /\ store[u][j].payment = x
    BY <1>5 DEF Answers
  <2>2. PICK j \in DOMAIN store[u] :
          store[u][j].type \in AnswerTypes /\ store[u][j].payment = x
    BY <2>1
  <2>3. j \in DOMAIN store'[u] /\ store'[u][j] = store[u][j]
    BY <1>4
  <2>4. <<u, j>> \in Answers(x)'
    BY <2>2, <2>3 DEF Answers
  <2> QED BY <2>4
<1>6. ASSUME NEW x, e.type \in AnswerTypes, e.payment = x PROVE Answers(x)' # {}
  <2>1. PICK j \in DOMAIN store'[e.user] : store'[e.user][j] = e
    BY <1>2, <1>4
  <2>2. <<e.user, j>> \in Answers(x)'
    BY <1>2, <1>6, <2>1 DEF Answers
  <2> QED BY <2>2
<1> QED BY <1>5, <1>6 DEF e

LEMMA ReceiveServed == ASSUME WalletInv, ServedInv, WalletReceive PROVE ServedInv'
<1>1. PICK q \in Partitions : Fetch(Wallet, q)
  BY DEF WalletReceive, Receive
<1>2. /\ position'[Wallet][q] = position[Wallet][q] + 1
      /\ \A p \in Partitions \ {q} : position'[Wallet][p] = position[Wallet][p]
      /\ current'[Wallet] = q
      /\ UNCHANGED <<topic, committed>>
  BY <1>1, WalletAssumption DEF Fetch, WalletInv, RuntimeInv, RuntimeTypeOK
<1>3. op'[Wallet] = [at |-> "handle", event |-> NoEvent] /\ UNCHANGED store /\ At(Wallet, "idle")
  <2>1. "handle" \in Steps BY DEF Steps
  <2>2. Goto(Wallet, "handle", NoEvent) /\ UNCHANGED store /\ At(Wallet, "idle")
    BY DEF WalletReceive, Receive
  <2> QED BY <2>1, <2>2, GotoTyped, WalletOffsets DEF WalletInv
<1>4. \A x : Answers(x)' = Answers(x)
  BY <1>3 DEF Answers
<1>5. InService' /\ ~InService /\ ~At(Wallet, "save")'
  BY <1>3 DEF InService, At
<1>6. ASSUME NEW p \in Partitions, NEW i \in 1..position'[Wallet][p] PROVE Settled(p, i)'
  <2>1. position[Wallet][p] \in Nat
    BY WalletOffsets
  <2>2. CASE p = q /\ i = position[Wallet][q] + 1
    BY <1>2, <1>5, <2>2 DEF Settled
  <2>3. CASE ~(p = q /\ i = position[Wallet][q] + 1)
    <3>1. i \in 1..position[Wallet][p]
      BY <1>2, <2>1, <2>3
    <3>2. Settled(p, i)
      BY <3>1 DEF ServedInv
    <3> QED BY <1>2, <1>4, <1>5, <3>2 DEF Settled
  <2> QED BY <2>2, <2>3
<1>7. committed'[Wallet][q] < position'[Wallet][q]
  BY <1>2, WalletOffsets
<1> QED BY <1>2, <1>5, <1>6, <1>7 DEF ServedInv

LEMMA IgnoreServed == ASSUME WalletInv, ServedInv, WalletIgnore PROVE ServedInv'
<1>1. PICK q \in Partitions :
        Pass(Wallet, q) /\ NextMessage(Wallet, q).type # "WalletPaymentRequested"
  BY DEF WalletIgnore, Ignore
<1>2. /\ position'[Wallet][q] = position[Wallet][q] + 1
      /\ \A p \in Partitions \ {q} : position'[Wallet][p] = position[Wallet][p]
      /\ UNCHANGED <<topic, store, op>> /\ At(Wallet, "idle")
  BY <1>1, WalletAssumption DEF Pass, WalletIgnore, Ignore, WalletInv, RuntimeInv, RuntimeTypeOK
<1>3. \A x : Answers(x)' = Answers(x)
  BY <1>2 DEF Answers
<1>4. ~InService /\ ~InService' /\ ~At(Wallet, "save")'
  BY <1>2 DEF InService, At
<1>5. ASSUME NEW p \in Partitions, NEW i \in 1..position'[Wallet][p] PROVE Settled(p, i)'
  <2>1. position[Wallet][p] \in Nat
    BY WalletOffsets
  <2>2. CASE p = q /\ i = position[Wallet][q] + 1
    BY <1>1, <1>2, <2>2 DEF Settled, NextMessage
  <2>3. CASE ~(p = q /\ i = position[Wallet][q] + 1)
    <3>1. i \in 1..position[Wallet][p]
      BY <1>2, <2>1, <2>3
    <3>2. Settled(p, i)
      BY <3>1 DEF ServedInv
    <3> QED BY <1>2, <1>3, <1>4, <3>2 DEF Settled
  <2> QED BY <2>2, <2>3
<1> QED BY <1>4, <1>5 DEF ServedInv

LEMMA HandleServed ==
  ASSUME WalletInv, ServedInv, HandleWalletPaymentRequested PROVE ServedInv'
<1> DEFINE m == InHand(Wallet)
           e == Answer(m, Balance(LoadEvents(m.user)))
<1>1. At(Wallet, "handle") /\ Goto(Wallet, "save", e) /\ UNCHANGED <<store, busVars>>
  BY DEF HandleWalletPaymentRequested, Build
<1>2. e.type \in AnswerTypes /\ e.payment = m.payment
  BY DEF Answer, NewFundsDebited, NewFundsInsufficient, NewBalanceEvent, AnswerTypes
<1> HIDE DEF e, m
<1>3. op'[Wallet] = [at |-> "save", event |-> e]
  BY <1>1, WalletOffsets DEF Goto, WalletInv, RuntimeInv, RuntimeTypeOK
<1>4. InService /\ InService'
  BY <1>1, <1>3 DEF InService, At
<1> QED BY <1>1, <1>2, <1>3, <1>4, InHandServed DEF busVars, m

LEMMA CallServed ==
  ASSUME WalletInv, ServedInv, NEW c \in WalletCalls, NEW e, Build(c, e) PROVE ServedInv'
<1>1. c # Wallet /\ Goto(c, "save", e) /\ UNCHANGED <<store, busVars>>
  BY RuntimeAssumption, WalletAssumption DEF Build, Calls
<1>2. op'[Wallet] = op[Wallet]
  BY <1>1, WalletOffsets DEF Goto, WalletInv, RuntimeInv, RuntimeTypeOK
<1>3. \A x : Answers(x)' = Answers(x)
  BY <1>1 DEF Answers
<1> QED BY <1>1, <1>2, <1>3, OthersServed DEF busVars

LEMMA SaveServed ==
  ASSUME WalletInv, ServedInv, NEW a \in WalletActors, WalletSave(a) PROVE ServedInv'
<1>1. a \in Actors /\ At(a, "save") /\ Save(a) /\ UNCHANGED <<topic, position, committed, current>>
  BY WalletActorsAreActors DEF WalletSave, Save, busVars
<1>2. \A x : Answers(x) # {} => Answers(x)' # {}
  BY AnswersGrow
<1>3. /\ op'[a] = [at |-> "publish", event |-> op[a].event]
      /\ \A b \in Actors \ {a} : op'[b] = op[b]
  <2>1. "publish" \in Steps /\ op[a].event \in Event BY <1>1, SaveAppends DEF Steps, WalletInv
  <2> QED BY <1>1, <2>1, GotoTyped DEF Save, WalletInv
<1>4. CASE a # Wallet
  BY <1>1, <1>2, <1>3, <1>4, OthersServed, WalletOffsets
<1>5. CASE a = Wallet
  <2>1. ~InService' /\ ~At(Wallet, "save")'
    BY <1>3, <1>5 DEF InService, At
  <2>2. op[a].event.type \in AnswerTypes /\ op[a].event.payment = InHand(Wallet).payment
    BY <1>1, <1>5 DEF ServedInv
  <2>3. \A x : x = InHand(Wallet).payment => Answers(x)' # {}
    BY <2>2, AnswersGrow
  <2>4. ASSUME NEW p \in Partitions, NEW i \in 1..position[Wallet][p] PROVE Settled(p, i)'
    <3>1. Settled(p, i)
      BY <2>4 DEF ServedInv
    <3>2. CASE current[Wallet] = p /\ position[Wallet][p] = i
      BY <1>1, <2>3, <3>2 DEF InHand, Settled
    <3>3. CASE ~(current[Wallet] = p /\ position[Wallet][p] = i)
      BY <1>1, <1>2, <3>1, <3>3 DEF Settled
    <3> QED BY <3>2, <3>3
  <2> QED BY <1>1, <2>1, <2>4 DEF ServedInv
<1> QED BY <1>4, <1>5

(* What the topic is given lies beyond what the consumer has read.         *)
LEMMA SendServed ==
  ASSUME WalletInv, ServedInv, NEW a \in Actors, a = Wallet => ~InService, NEW m \in Event,
         Send(m), Goto(a, Ended(a), NoEvent), UNCHANGED store
  PROVE  ServedInv'
<1>1. /\ UNCHANGED <<position, committed, current>>
      /\ \A p \in Partitions : \A i \in 1..position[Wallet][p] : topic'[p][i] = topic[p][i]
  <2>1. RuntimeInv
    BY DEF WalletInv
  <2> QED BY <2>1, SendAppends, WalletOffsets
<1>2. \A x : Answers(x)' = Answers(x)
  BY DEF Answers
<1>3. CASE a # Wallet
  <2>1. op'[Wallet] = op[Wallet]
    BY <1>3, WalletOffsets DEF Goto, WalletInv, RuntimeInv, RuntimeTypeOK
  <2> QED BY <1>1, <1>2, <2>1, OthersServed
<1>4. CASE a = Wallet
  <2>1. op'[Wallet].at = "commit"
    BY <1>4, WalletOffsets DEF Goto, Ended, WalletInv, RuntimeInv, RuntimeTypeOK
  <2>2. ~InService' /\ ~At(Wallet, "save")'
    BY <2>1 DEF InService, At
  <2>3. \A p \in Partitions : \A i \in 1..position'[Wallet][p] : Settled(p, i)'
    BY <1>1, <1>2, <1>4 DEF ServedInv, Settled
  <2> QED BY <2>2, <2>3 DEF ServedInv
<1> QED BY <1>3, <1>4

(* A commit changes none of what is settled; neither does a crash, after   *)
(* which the consumer has read what was committed and nothing more.        *)
LEMMA IdleServed ==
  ASSUME WalletInv, ServedInv, UNCHANGED <<store, topic>>, op'[Wallet].at = "idle",
         \/ ~InService /\ UNCHANGED position
         \/ \A p \in Partitions : position'[Wallet][p] = committed[Wallet][p]
  PROVE  ServedInv'
<1>1. \A x : Answers(x)' = Answers(x)
  BY DEF Answers
<1>2. ~InService' /\ ~At(Wallet, "save")'
  BY DEF InService, At
<1>3. ASSUME NEW p \in Partitions, NEW i \in 1..position'[Wallet][p] PROVE Settled(p, i)'
  <2>1. \/ topic[p][i].type # "WalletPaymentRequested"
        \/ Answers(topic[p][i].payment) # {}
    BY <1>3, SettledCommits DEF ServedInv, Settled
  <2> QED BY <1>1, <2>1 DEF Settled
<1> QED BY <1>2, <1>3 DEF ServedInv

LEMMA WalletStepServed ==
  ASSUME WalletInv, ServedInv, "store" \notin FaultKinds, WalletStep PROVE ServedInv'
<1>1. CASE WalletReceive \/ WalletIgnore \/ HandleWalletPaymentRequested
  BY <1>1, ReceiveServed, IgnoreServed, HandleServed
<1>2. CASE \E c \in WalletCalls, u \in Users, a \in Amounts :
             AddFunds(c, u, a) \/ \E p \in Payments : ProcessRefund(c, p, u, a)
  BY <1>2, CallServed DEF AddFunds, ProcessRefund
<1>3. ASSUME NEW a \in WalletActors, WalletSave(a) PROVE ServedInv'
  BY <1>3, SaveServed
<1>4. ASSUME NEW a \in WalletActors, WalletStoreFails(a) PROVE ServedInv'
  BY <1>4 DEF WalletStoreFails, StoreFails, Fault
<1>5. ASSUME NEW a \in WalletActors, WalletPublish(a) PROVE ServedInv'
  <2>1. /\ a \in Actors /\ op[a].event \in Event /\ At(a, "publish")
        /\ Send(op[a].event) /\ Goto(a, Ended(a), NoEvent) /\ UNCHANGED store
    BY <1>5, WalletActorsAreActors DEF WalletPublish, Publish, WalletInv, RuntimeInv, BuiltOK
  <2>2. a = Wallet => ~InService
    BY <2>1 DEF InService, At
  <2> QED BY <2>1, <2>2, SendServed
<1>6. CASE WalletCommit
  <2>1. At(Wallet, "commit") /\ Goto(Wallet, "idle", NoEvent) /\ UNCHANGED <<store, topic, position>>
    BY <1>6 DEF WalletCommit, CommitMessage, Commit
  <2>2. op'[Wallet].at = "idle" /\ ~InService
    BY <2>1, WalletOffsets DEF Goto, InService, At, WalletInv, RuntimeInv, RuntimeTypeOK
  <2> QED BY <2>1, <2>2, IdleServed
<1>7. CASE WalletCrash
  <2>1. UNCHANGED <<store, topic>> /\ position' = [position EXCEPT ![Wallet] = committed[Wallet]]
    BY <1>7 DEF WalletCrash, Crash, Rejoin
  <2>2. \A p \in Partitions : position'[Wallet][p] = committed[Wallet][p]
    BY <2>1, WalletAssumption DEF WalletInv, RuntimeInv, RuntimeTypeOK
  <2>3. op'[Wallet].at = "idle"
    BY <1>7, CrashEnds, WalletAssumption DEF WalletInv, WalletCrash
  <2> QED BY <2>1, <2>2, <2>3, IdleServed
<1> QED BY <1>1, <1>2, <1>3, <1>4, <1>5, <1>6, <1>7 DEF WalletStep

LEMMA ServedInit == WalletInit => ServedInv
<1> SUFFICES ASSUME WalletInit PROVE ServedInv
  OBVIOUS
<1>1. At(Wallet, "idle") /\ \A p \in Partitions : position[Wallet][p] = 0
  BY WalletAssumption DEF WalletInit, RuntimeInit, BusInit, At, Actors
<1> QED BY <1>1 DEF ServedInv, InService, At

=============================================================================
