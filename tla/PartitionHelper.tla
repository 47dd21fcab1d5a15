--------------------------- MODULE PartitionHelper ---------------------------
(***************************************************************************)
(* GetPartition (eventbus/partition_helper.go): the partition Publish      *)
(* computes for an event, or refuses to publish it for want of one.        *)
(* Wallet events are keyed by user and go to the even partitions, events   *)
(* of card payments by payment and to the odd ones.  (The writer then      *)
(* balances by bytes and ignores it: see EventBus.)                        *)
(***************************************************************************)
EXTENDS Events

CONSTANTS
  NumPartitions,    \* partitions the bus counts on (12 in eventbus.go)
  HashKey           \* key -> its FNV hash

Keys == Payments \cup Users

ASSUME PartitionAssumption ==
  /\ NumPartitions \in Nat \ {0, 1}
  /\ HashKey \in [Keys -> Nat]

Refused == -1

(* Mutant: a type is forgotten in the list, and falls to partition 0. *)
ExternalEventsShort ==
  {"ExternalPaymentRequested", "PaymentSentToGateway", "PaymentGatewayResponse",
   "ExternalPaymentCompleted", "ExternalPaymentFailed", "PaymentGatewayTimeout"}

WalletEventsShort ==
  {"WalletPaymentRequested", "FundsDebited", "FundsCredited",
   "WalletPaymentCompleted", "WalletPaymentFailed"}

WalletEvents ==
  {"WalletPaymentRequested", "FundsDebited", "FundsCredited",
   "FundsInsufficient", "WalletPaymentCompleted", "WalletPaymentFailed"}

ExternalEvents ==
  {"ExternalPaymentRequested", "PaymentSentToGateway", "PaymentGatewayResponse",
   "ExternalPaymentCompleted", "ExternalPaymentFailed", "PaymentGatewayTimeout",
   "PaymentRetryRequested"}

(* The place of a key in its half of the partitions.                       *)
Slot(key) == 2 * (HashKey[key] % (NumPartitions \div 2))

GetPartition(e) ==
  LET key == IF e.type \in WalletEvents /\ e.user # NoUser THEN e.user ELSE e.payment
  IN  IF e.type \notin WalletEvents \cup ExternalEvents THEN 0
      ELSE IF key = NoPayment THEN Refused
      ELSE IF e.type \in WalletEvents THEN Slot(key) ELSE Slot(key) + 1

=============================================================================
