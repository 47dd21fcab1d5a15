---------------------------- MODULE WalletService ----------------------------
(***************************************************************************)
(* The wallet service (internal/application/wallet, http/wallet_handler):  *)
(* its consumer answers WalletPaymentRequested with a debit or a refusal,  *)
(* and its HTTP calls add funds and process refunds.  A user's balance is  *)
(* rebuilt from the user's log, the event built from it carries the new    *)
(* balance as an absolute value, and nothing checks at the save that the   *)
(* log is still the one that was read.                                     *)
(***************************************************************************)
EXTENDS ServiceRuntime, WalletAggregate

ASSUME WalletAssumption == Wallet \in Groups

VARIABLE overlapped
  (* history: the users on whose log a balance event was saved while        *)
  (* another balance event for the same user had been built and not saved   *)

walletVars == <<runtimeVars, overlapped>>

WalletInit == RuntimeInit /\ overlapped = {}

----
(* What HandleWalletPaymentRequested answers request m with the balance    *)
(* it rebuilt.                                                             *)
Answer(m, balance) ==
  IF ValidateDebit(balance, m.amount)
  THEN NewFundsDebited(m.payment, m.user, m.amount, balance, balance - m.amount)
  ELSE NewFundsInsufficient(m.payment, m.user, m.amount, balance)

WalletReceive == Receive(Wallet, {"WalletPaymentRequested"}) /\ UNCHANGED overlapped

WalletIgnore == Ignore(Wallet, {"WalletPaymentRequested"}) /\ UNCHANGED overlapped

HandleWalletPaymentRequested ==
  /\ At(Wallet, "handle")
  /\ Build(Wallet, Answer(InHand(Wallet), Balance(LoadEvents(InHand(Wallet).user))))
  /\ UNCHANGED overlapped

(* AddFunds refuses the empty user, ProcessRefund does not; neither looks  *)
(* at the payment a refund is for.                                         *)
AddFunds(c, u, a) ==
  /\ At(c, "idle")
  /\ u # NoUser
  /\ LET balance == Balance(LoadEvents(u))
     IN  Build(c, NewFundsCredited(NoPayment, u, a, balance, balance + a))
  /\ UNCHANGED overlapped

ProcessRefund(c, p, u, a) ==
  /\ At(c, "idle")
  /\ LET balance == Balance(LoadEvents(u))
     IN  Build(c, NewFundsCredited(p, u, a, balance, balance + a))
  /\ UNCHANGED overlapped

----
(* Actors of this service that built a balance event for u and are yet to  *)
(* save it.                                                                *)
WalletActors == {Wallet} \cup WalletCalls

InFlight(u) ==
  {a \in WalletActors : /\ At(a, "save")
                        /\ op[a].event.type \in BalanceTypes
                        /\ op[a].event.user = u}

WalletSave(a) ==
  /\ Save(a)
  /\ LET u == op[a].event.user
     IN  overlapped' = IF a \in InFlight(u) /\ InFlight(u) # {a}
                       THEN overlapped \cup {u} ELSE overlapped

WalletStoreFails(a) == StoreFails(a) /\ UNCHANGED overlapped

WalletPublish(a) == Publish(a) /\ UNCHANGED overlapped

WalletCommit == CommitMessage(Wallet) /\ UNCHANGED overlapped

WalletCrash == Crash(Wallet) /\ UNCHANGED overlapped

WalletStep ==
  \/ WalletReceive
  \/ WalletIgnore
  \/ HandleWalletPaymentRequested
  \/ \E c \in WalletCalls, u \in Users, a \in Amounts :
       \/ AddFunds(c, u, a)
       \/ \E p \in Payments : ProcessRefund(c, p, u, a)
  \/ \E a \in WalletActors :
       WalletSave(a) \/ WalletStoreFails(a) \/ WalletPublish(a)
  \/ WalletCommit
  \/ WalletCrash

----
AnswerTypes == {"FundsDebited", "FundsInsufficient"}

Answers(p) ==
  UNION {{<<u, i>> : i \in {j \in DOMAIN store[u] :
                              /\ store[u][j].type \in AnswerTypes
                              /\ store[u][j].payment = p}} : u \in Users}

WalletTypeOK == RuntimeTypeOK /\ overlapped \subseteq Users

(* No interleaving of the consumer with the HTTP calls, and no crash or    *)
(* redelivery, leaves a wallet below zero or debits more than the balance  *)
(* the debit was computed from (event_handler.go validates against the     *)
(* very load it subtracts from).                                           *)
NoOverdraft ==
  \A u \in Users : \A i \in BalanceEvents(store[u]) :
    LET e == store[u][i]
    IN  e.after >= 0 /\ (e.type = "FundsDebited" => e.amount <= e.before)

(* A wallet's log is an unbroken account, each event starting from the     *)
(* balance the one before it left and moving it by its own amount, for     *)
(* every user on whose log no two operations overlapped between load and   *)
(* save.  Overlap is the only way the account itself goes wrong: crashes,  *)
(* lost or repeated messages and failing commits leave it exact.  (That a  *)
(* repeated request may be debited again is another matter, see            *)
(* DebitedOnce in WalletSaga: the account says so.)                        *)
ExactUnlessOverlapped ==
  \A u \in Users :
    u \notin overlapped => Chained(store[u]) /\ StepsByAmount(store[u])

(* What docs/flow-diagrams/04-concurrent-payments-saga.md promises of      *)
(* concurrent operations on one wallet: the balance is always the sum of   *)
(* what was credited less what was debited.                                *)
BalanceIsExact == \A u \in Users : Balance(store[u]) = NetCredits(store[u])

(* Other services never hear of a wallet event the log does not hold: a    *)
(* handler publishes only after its save succeeded.                        *)
PublishedAreStored == \A e \in Published : e.type \in WalletTypes => e \in Stored

(* At-least-once: unless the events table failed, a payment request whose  *)
(* offset is committed has been answered in some wallet's log, whatever    *)
(* crashed in between; the commit comes last in consumeEvents.             *)
CommittedAreAnswered ==
  "store" \notin FaultKinds =>
    \A p \in Partitions : \A i \in 1..committed[Wallet][p] :
      topic[p][i].type = "WalletPaymentRequested" => Answers(topic[p][i].payment) # {}

=============================================================================
