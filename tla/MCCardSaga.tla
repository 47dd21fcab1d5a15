----------------------------- MODULE MCCardSaga -----------------------------
EXTENDS CardSaga

MCGroups == {Orchestrator, External}
MCHashKey == [key \in Keys |-> IF key \in Payments THEN 16 ELSE 9]
=============================================================================
