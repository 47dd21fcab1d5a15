--------------------------- MODULE ServiceRuntime ---------------------------
(***************************************************************************)
(* What the services share: the events table, the topic, and the shape of  *)
(* every operation that writes.  The consumer of each service, each of its *)
(* HTTP calls and each of its webhooks run as goroutines of their own.     *)
(* All of them do the same: decide from what they have loaded or been told *)
(* on one event, save the event, publish it.  These are separate calls to  *)
(* the database and to the broker, so those of different actors            *)
(* interleave, and each can fail.                                          *)
(*                                                                         *)
(*   idle -> handle -> save -> publish -> commit -> idle     a consumer    *)
(*   idle -----------> save -> publish -> done               the others    *)
(*                                                                         *)
(* An HTTP call loads its log and builds its event in one step: the load   *)
(* is the only part of it that others can see or disturb.  On any error    *)
(* the operation stops where it is: a consumer logs it and commits the     *)
(* message all the same, an HTTP call answers 500.                         *)
(***************************************************************************)
EXTENDS EventStore, EventBus

CONSTANTS
  WalletCalls,   \* HTTP calls to the wallet service (add-funds, refund)
  Webhooks       \* goroutines that answer for the payment gateway

(* The consumer group of each service, named as in configs.go.             *)
Orchestrator == "saga-orchestrator"
Wallet == "wallet-service"
External == "external-payment-service"

(* The call that creates a payment is named by the id it draws for it.     *)
Calls == Payments \cup WalletCalls
Actors == Groups \cup Calls \cup Webhooks

ASSUME RuntimeAssumption ==
  /\ Groups \cap (Calls \cup Webhooks) = {}
  /\ Payments \cap WalletCalls = {}
  /\ Webhooks \cap Calls = {}

VARIABLE op    \* actor -> where its operation is, and the event it built

runtimeVars == <<store, busVars, faults, op>>

(* The process an actor runs in.                                           *)
Host(a) ==
  CASE a \in Groups -> a
    [] a \in Payments -> Orchestrator
    [] a \in WalletCalls -> Wallet
    [] a \in Webhooks -> External

(* The types whose data comes off the bus as the struct a handler asserts; *)
(* any other type comes as a generic map.                                  *)
DecodedTypes ==
  {"WalletPaymentRequested", "ExternalPaymentRequested", "FundsDebited",
   "FundsInsufficient", "FundsCredited", "PaymentGatewayResponse",
   "WalletPaymentCompleted", "WalletPaymentFailed",
   "ExternalPaymentCompleted", "ExternalPaymentFailed"}

NoEvent == NewBaseEvent("None", NoPayment, NoUser, 0)

Steps == {"idle", "handle", "save", "publish", "commit", "done"}

RuntimeTypeOK ==
  /\ store \in [Aggregates -> Seq(Event)]
  /\ topic \in [Partitions -> Seq(Event)]
  /\ position \in [Groups -> [Partitions -> Nat]]
  /\ committed \in [Groups -> [Partitions -> Nat]]
  /\ current \in [Groups -> Partitions \cup {NoPartition}]
  /\ faults \in 0..MaxFaults
  /\ op \in [Actors -> [at: Steps, event: Event \cup {NoEvent}]]

RuntimeInit ==
  /\ StoreInit
  /\ BusInit
  /\ FaultsInit
  /\ op = [a \in Actors |-> [at |-> "idle", event |-> NoEvent]]

At(a, step) == op[a].at = step

Goto(a, step, e) == op' = [op EXCEPT ![a] = [at |-> step, event |-> e]]

(* Where an operation goes when it has ended, well or not.                 *)
Ended(a) == IF a \in Groups THEN "commit" ELSE "done"

----
(* The consumer takes the next message of some partition.  Its handler     *)
(* acts on the given types and returns nil for any other.                  *)
NextMessage(g, p) == topic[p][position[g][p] + 1]

Receive(g, types) ==
  /\ At(g, "idle")
  /\ \E p \in Partitions :
       /\ Fetch(g, p)
       /\ NextMessage(g, p).type \in types
  /\ Goto(g, "handle", NoEvent)
  /\ UNCHANGED <<store, faults>>

Ignore(g, types) ==
  /\ At(g, "idle")
  /\ \E p \in Partitions :
       /\ Pass(g, p)
       /\ NextMessage(g, p).type \notin types
  /\ UNCHANGED <<store, op>>

(* Mutant: the event is published without being saved. *)
BuildUnsaved(a, e) ==
  /\ Goto(a, "publish", e)
  /\ UNCHANGED <<store, busVars, faults>>

(* The actor has loaded its log and built event e from it.                 *)
Build(a, e) ==
  /\ Goto(a, "save", e)
  /\ UNCHANGED <<store, busVars, faults>>

(* The handler refuses the message and returns an error.                   *)
Refuse(g) ==
  /\ Goto(g, "commit", NoEvent)
  /\ UNCHANGED <<store, busVars, faults>>

Save(a) ==
  /\ At(a, "save")
  /\ SaveEvent(op[a].event)
  /\ Goto(a, "publish", op[a].event)
  /\ UNCHANGED <<busVars, faults>>

(* LoadEvents or SaveEvent returns an error: nothing is stored.            *)
StoreFails(a) ==
  /\ At(a, "handle") \/ At(a, "save")
  /\ Fault("store")
  /\ Goto(a, Ended(a), NoEvent)
  /\ UNCHANGED <<store, busVars>>

Publish(a) ==
  /\ At(a, "publish")
  /\ Send(op[a].event)
  /\ Goto(a, Ended(a), NoEvent)
  /\ UNCHANGED store

(* The events the topic has, or is about to be given.                      *)
Outgoing == Published \cup {op[a].event : a \in {b \in Actors : At(b, "publish")}}

CommitMessage(g) ==
  /\ At(g, "commit")
  /\ Commit(g)
  /\ Goto(g, "idle", NoEvent)
  /\ UNCHANGED store

(* The process of service g dies, and with it its consumer, its webhooks   *)
(* and the HTTP calls it was serving; what they saved and published stays. *)
Crash(g) ==
  /\ Rejoin(g)
  /\ op' = [a \in Actors |->
              IF Host(a) # g \/ (a # g /\ At(a, "idle")) THEN op[a]
              ELSE [at |-> IF a = g THEN "idle" ELSE "done", event |-> NoEvent]]
  /\ UNCHANGED store

=============================================================================
