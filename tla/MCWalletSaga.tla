---------------------------- MODULE MCWalletSaga ----------------------------
EXTENDS WalletSaga, TLC

MCGroups == {Orchestrator, Wallet}
MCHashKey == [key \in Keys |-> IF key \in Payments THEN 16 ELSE 9]
MCSymmetry == Permutations(WalletCalls)
=============================================================================
