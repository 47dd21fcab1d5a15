--------------------------- MODULE MCMetricsService ---------------------------
EXTENDS MetricsService

MCBad == [type |-> "WalletPaymentFailed", n |-> 0]
MCMessages ==
  {MCBad,
   [type |-> "WalletPaymentFailed", n |-> 1],
   [type |-> "ExternalPaymentRequested", n |-> 2]}
MCGroups == {Metrics}
MCUndecodable == {MCBad}
=============================================================================
