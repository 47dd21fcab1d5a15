----------------------------- MODULE WalletSaga -----------------------------
(***************************************************************************)
(* A wallet payment from end to end: the orchestrator and the wallet       *)
(* service over the events table and the topic they share.                 *)
(*                                                                         *)
(*   client       --POST-->  orchestrator  --WalletPaymentRequested-->     *)
(*   wallet       --FundsDebited / FundsInsufficient-->                    *)
(*   orchestrator --WalletPaymentCompleted / WalletPaymentFailed-->        *)
(*                                                                         *)
(* Both services see every message of the topic; what is not theirs they   *)
(* pass over.                                                              *)
(***************************************************************************)
EXTENDS WalletService, Orchestrator, PartitionHelper

SagaInit == WalletInit

CreatePayment ==
  \E p \in Payments, u \in Users, a \in Amounts : CreateWalletPayment(p, u, a)

SagaNext ==
  \/ (CreatePayment \/ SagaStep) /\ UNCHANGED overlapped
  \/ WalletStep

SagaSpec == SagaInit /\ [][SagaNext]_walletVars

----
Debits(p) == {x \in Answers(p) : store[x[1]][x[2]].type = "FundsDebited"}

StatusNow(p) == PaymentStatus(store[p])

(* The abstract payment this system implements.                            *)
Lifecycle ==
  INSTANCE PaymentLifecycle WITH
    InProgress <- "VALIDATING_BALANCE",
    status <- [p \in Payments |-> StatusNow(p)],
    taken <- [p \in Payments |-> Cardinality(Debits(p))]

----
(* Each consumer is a loop that never waits for anything but the next      *)
(* message, and an HTTP call runs on once it has begun: none of them stops *)
(* for good while it has a step to take.  Clients need never call, and     *)
(* nothing has to fail.                                                    *)
SagaConsumer ==
  /\ \/ SagaReceive \/ SagaIgnore \/ HandleAnswer
     \/ Save(Orchestrator) \/ Publish(Orchestrator) \/ CommitMessage(Orchestrator)
  /\ UNCHANGED overlapped

WalletConsumer ==
  \/ WalletReceive \/ WalletIgnore \/ HandleWalletPaymentRequested
  \/ WalletSave(Wallet) \/ WalletPublish(Wallet) \/ WalletCommit

Fairness ==
  /\ WF_walletVars(SagaConsumer)
  /\ WF_walletVars(WalletConsumer)

FairSagaSpec == SagaSpec /\ Fairness

----
(* The system implements the abstract payment as long as no message is     *)
(* delivered twice (see the run wallet_saga: no crash, no producer retry), *)
(* whatever else fails: messages may be lost, inserts and commits may fail.*)
ImplementsLifecycle == Lifecycle!LifecycleSpec

(* Without repeated deliveries the wallet answers a payment at most once:  *)
(* nothing but the consumer's place in the topic keeps it from answering   *)
(* again, and a commit that fails does not move that (FailedCommitsRetried *)
(* is about a comment that says otherwise).                                *)
AnsweredOnce ==
  {"crash", "duplicate"} \cap FaultKinds = {} =>
    \A p \in Payments : Cardinality(Answers(p)) <= 1

(* docs/architecture-desing/05-error-handling-saga.md: the state can always *)
(* be rebuilt from the events.  For wallet payments it can, even when      *)
(* answers are repeated: the orchestrator concludes a payment once.        *)
AlwaysRebuildable ==
  \A p \in Payments : store[p] # <<>> => CanRebuild(store[p])

(* Publish refuses none of the events of a wallet payment for want of a    *)
(* partition, and computes one partition for all that are about one user:  *)
(* the order "per user" of docs/architecture-desing/01-system-architecture.md *)
(* is lost in the writer, not in the helper.                               *)
UserEventsTogether ==
  \A e, f \in Outgoing :
    e.user = f.user => GetPartition(e) = GetPartition(f) /\ GetPartition(e) # Refused

(* The orchestrator concludes a payment only as the wallet has decided:    *)
(* completed after a debit of the requested amount from the requesting     *)
(* user's wallet, failed after a refusal.                                  *)
ConclusionsJustified ==
  \A p \in Payments : \A i \in DOMAIN store[p] :
    LET request == store[p][1]
        e       == store[p][i]
        Decided(type) == \E j \in DOMAIN store[request.user] :
                           LET d == store[request.user][j]
                           IN  /\ d.type = type
                               /\ d.payment = p
                               /\ d.amount = request.amount
    IN  /\ e.type = "WalletPaymentCompleted" => Decided("FundsDebited")
        /\ e.type = "WalletPaymentFailed" => Decided("FundsInsufficient")
        /\ e.user = request.user /\ e.amount = request.amount

(* A payment whose request reached the topic reaches COMPLETED or FAILED,  *)
(* whatever crashes, is delivered again or fails to commit.  (A lost       *)
(* message or a failed insert leaves it in VALIDATING_BALANCE for ever.)   *)
PublishedPaymentsSettle ==
  \A p \in Payments :
    (\E e \in Published : e.payment = p /\ e.type = "WalletPaymentRequested")
      ~> (StatusNow(p) \in TerminalStates)

(* docs/architecture-desing/05-error-handling-saga.md counts on idempotent *)
(* handlers: a payment is debited once however often it is delivered.      *)
DebitedOnce == \A p \in Payments : Cardinality(Debits(p)) <= 1

=============================================================================
