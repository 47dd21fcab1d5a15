------------------------------- MODULE Events -------------------------------
(***************************************************************************)
(* The domain events (internal/domain/events) as the rest of the project   *)
(* sees them: what kind of event it is, the payment and the user it is     *)
(* about, the amount, the two balances a wallet event carries and the      *)
(* verdict of a gateway response.  Event ids, timestamps, correlation      *)
(* ids, currencies, card tokens and reasons are left out: no decision of   *)
(* the services depends on them.                                           *)
(***************************************************************************)
EXTENDS Integers

CONSTANTS
  Payments,    \* payment ids (fresh UUIDs, orchestrator.go)
  Users,       \* user ids the HTTP requests name, NoUser perhaps among them
  Amounts,     \* amounts the HTTP layer lets through (only positive ones)
  NoPayment,   \* the empty payment id of a direct deposit
  NoUser       \* the empty user id: no handler refuses it

ASSUME EventsAssumption ==
  /\ Amounts \subseteq Nat \ {0}
  /\ Payments \cap Users = {}
  /\ NoPayment \notin Payments \cup (Users \ {NoUser})  \* both are ""

EventTypes ==
  {"WalletPaymentRequested", "WalletPaymentCompleted", "WalletPaymentFailed",
   "ExternalPaymentRequested", "ExternalPaymentCompleted",
   "ExternalPaymentFailed", "PaymentSentToGateway", "PaymentGatewayResponse",
   "PaymentGatewayTimeout", "PaymentRetryRequested",
   "FundsDebited", "FundsInsufficient", "FundsCredited"}

(* The events of the aggregate "Wallet", stored under the user's id; all   *)
(* others belong to the aggregate "Payment", stored under the payment's.   *)
WalletTypes == {"FundsDebited", "FundsInsufficient", "FundsCredited"}

(* Only a direct deposit carries no payment id.                            *)
Event ==
  {e \in [type: EventTypes, payment: Payments \cup {NoPayment},
           user: Users, amount: Nat, before: Int, after: Int,
           success: BOOLEAN] :
     e.type # "FundsCredited" => e.payment \in Payments}

Aggregates == Payments \cup Users

Aggregate(e) == IF e.type \in WalletTypes THEN e.user ELSE e.payment

NewBalanceEvent(type, p, u, a, previousBalance, newBalance) ==
  [type |-> type, payment |-> p, user |-> u, amount |-> a,
   before |-> previousBalance, after |-> newBalance, success |-> TRUE]

NewBaseEvent(type, p, u, a) == NewBalanceEvent(type, p, u, a, 0, 0)

NewVerdictEvent(type, p, u, a, verdict) ==
  [type |-> type, payment |-> p, user |-> u, amount |-> a,
   before |-> 0, after |-> 0, success |-> verdict]

----
(* Wallet events (wallet_events.go). *)

(* Mutant: the debit is recorded as a negative amount. *)
NewFundsDebitedSigned(p, u, a, previousBalance, newBalance) ==
  NewBalanceEvent("FundsDebited", p, u, -a, previousBalance, newBalance)

NewFundsDebited(p, u, a, previousBalance, newBalance) ==
  NewBalanceEvent("FundsDebited", p, u, a, previousBalance, newBalance)

NewFundsInsufficient(p, u, a, availableBalance) ==
  NewBalanceEvent("FundsInsufficient", p, u, a, availableBalance, availableBalance)

NewFundsCredited(p, u, a, previousBalance, newBalance) ==
  NewBalanceEvent("FundsCredited", p, u, a, previousBalance, newBalance)

----
(* Payment events (payment_events.go).  The data of some of them names no  *)
(* user or no amount; their user is then the payment's and goes unread.    *)

NewWalletPaymentRequested(p, u, a) ==
  NewBaseEvent("WalletPaymentRequested", p, u, a)

NewWalletPaymentCompleted(p, u, a) ==
  NewBaseEvent("WalletPaymentCompleted", p, u, a)

NewWalletPaymentFailed(p, u, a) ==
  NewBaseEvent("WalletPaymentFailed", p, u, a)

NewExternalPaymentRequested(p, u, a) ==
  NewBaseEvent("ExternalPaymentRequested", p, u, a)

NewPaymentSentToGateway(p, u) ==
  NewBaseEvent("PaymentSentToGateway", p, u, 0)

NewPaymentGatewayResponse(p, u, status) ==
  NewVerdictEvent("PaymentGatewayResponse", p, u, 0, status)

NewExternalPaymentCompleted(p, u, a) ==
  NewBaseEvent("ExternalPaymentCompleted", p, u, a)

NewExternalPaymentFailed(p, u, a) ==
  NewVerdictEvent("ExternalPaymentFailed", p, u, a, FALSE)

NewPaymentGatewayTimeout(p, u) ==
  NewBaseEvent("PaymentGatewayTimeout", p, u, 0)

NewPaymentRetryRequested(p, u) ==
  NewBaseEvent("PaymentRetryRequested", p, u, 0)

=============================================================================
