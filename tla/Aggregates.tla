----------------------------- MODULE Aggregates -----------------------------
(***************************************************************************)
(* The two aggregates on every event log up to a bound: events are         *)
(* appended one at a time, in any order, so that the logs include those    *)
(* the services would never write.  The loops of the code are compared     *)
(* with the closed forms the other modules use.                            *)
(***************************************************************************)
EXTENDS SagaAggregate, WalletAggregate

CONSTANTS
  MaxLength,      \* bound: longest log
  Balances        \* what wallet events may carry as their new balance

ASSUME AggregatesAssumption == Balances \subseteq Int

VARIABLE log

AggregatesInit == log = <<>>

(* One event of each type; balance events with any new balance.            *)
Candidates ==
  {NewBaseEvent(t, p, u, 1) : t \in EventTypes, p \in Payments, u \in Users}
  \cup {[NewBaseEvent(t, p, u, 1) EXCEPT !.after = b] :
          t \in BalanceTypes, p \in Payments, u \in Users, b \in Balances}

AppendEvent ==
  /\ Len(log) < MaxLength
  /\ \E e \in Candidates : log' = Append(log, e)

AggregatesSpec == AggregatesInit /\ [][AppendEvent]_log

----
(* The saga loop of rebuildSagaFromEvents stops at a refused move exactly  *)
(* when MovesAllowed says so, and otherwise ends in StateOf.               *)
SagaLoopAgrees ==
  LET saga == SagaLoop(log)
  IN  /\ saga.refused = ~MovesAllowed(log)
      /\ MovesAllowed(log) => saga.state = StateOf(log)

(* The wallet loop of RebuildWalletState ends with the balance of the last *)
(* balance event, and its version counts the balance events.               *)
WalletLoopAgrees ==
  /\ RebuildLoop(log).balance = Balance(log)
  /\ RebuildLoop(log).version = Cardinality(BalanceEvents(log))

(* No log, however it came about, takes a saga through more than four      *)
(* moves or past its end: a rebuilt saga has at most one concluding event, *)
(* and it is the last to move it.  (Of which kind of payment the event is, *)
(* the transition table does not ask.)                                     *)
RebuiltSagaEndsOnce ==
  MovesAllowed(log) =>
    /\ SagaLoop(log).version <= 4
    /\ \A i \in Moves(log) :
         Target[log[i].type] \in TerminalStates => \A j \in Moves(log) : j <= i

=============================================================================
