SPECIFICATION AggregatesSpec
CONSTANTS
  Payments = {p1}
  Users = {u1}
  NoUser = nouser
  NoPayment = nopayment
  Amounts = {1}
  MaxLength = 5
  Balances = {1, 2}
INVARIANTS
  SagaLoopAgrees
  WalletLoopAgrees
  RebuiltSagaEndsOnce
CHECK_DEADLOCK FALSE
