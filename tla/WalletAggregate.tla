--------------------------- MODULE WalletAggregate ---------------------------
(***************************************************************************)
(* The wallet aggregate (internal/domain/wallet): the balance a user's     *)
(* event log stands for and the check made before a debit.                 *)
(*                                                                         *)
(* RebuildWalletState folds ApplyEvent over the log.  A FundsDebited or    *)
(* FundsCredited event does not add to the balance: it overwrites it with  *)
(* the NewBalance it carries.  So the fold is the NewBalance of the last   *)
(* such event, which is how Balance states it; RebuildLoop is the code's   *)
(* loop, and module Aggregates checks that the two agree.                  *)
(***************************************************************************)
EXTENDS Events, Sequences, FiniteSetsExt, SequencesExt

BalanceTypes == {"FundsDebited", "FundsCredited"}

BalanceEvents(log) == {i \in DOMAIN log : log[i].type \in BalanceTypes}

(* The balance RebuildWalletState returns. *)
Balance(log) ==
  IF BalanceEvents(log) = {} THEN 0 ELSE log[Max(BalanceEvents(log))].after

(* ApplyEvent on a wallet record, and the loop that folds it over the log. *)
NewWallet == [balance |-> 0, version |-> 0]

(* Mutant: the new balance is added instead of assigned. *)
ApplyWalletEventAdding(w, e) ==
  IF e.type \in BalanceTypes
  THEN [balance |-> w.balance + e.after, version |-> w.version + 1]
  ELSE w

ApplyWalletEvent(w, e) ==
  IF e.type \in BalanceTypes
  THEN [balance |-> e.after, version |-> w.version + 1]
  ELSE w

RebuildLoop(log) == FoldLeft(ApplyWalletEvent, NewWallet, log)

(* ValidateDebit: the amount is positive and the available balance, always *)
(* equal to the balance, covers it.                                        *)
ValidateDebitShort(balance, amount) == amount > 0 /\ balance + 1 >= amount \* mutant

ValidateDebit(balance, amount) == amount > 0 /\ balance >= amount

----
(* Every balance event starts from the balance the one before it left.     *)
Chained(log) ==
  \A i \in BalanceEvents(log) : log[i].before = Balance(SubSeq(log, 1, i - 1))

(* What an event adds to the balance.                                      *)
Movement(e) ==
  IF e.type = "FundsCredited" THEN e.amount
  ELSE IF e.type = "FundsDebited" THEN -e.amount ELSE 0

StepsByAmount(log) ==
  \A i \in BalanceEvents(log) : log[i].after = log[i].before + Movement(log[i])

(* Everything credited less everything debited.                            *)
NetCredits(log) == FoldLeft(LAMBDA sum, e : sum + Movement(e), 0, log)

=============================================================================
