SPECIFICATION Spec
CONSTANTS
  w1 = w1
  w2 = w2
  d1 = d1
  d2 = d2
  p1 = p1
  p2 = p2
  v1 = v1
  b1 = b1
  b2 = b2
  b3 = b3
  h1 = h1
  h2 = h2
  NoHash = NoHash
  NoRow = NoRow
  Worker <- MCWorker
  Dispute <- MCDispute
  Payment <- MCPayment
  Provider <- MCProvider
  Binding <- MCBinding
  Hash <- MCHash
  DisputeOf <- MCDisputeOf
  PaymentOf <- MCPaymentOf
  ProviderOf <- MCProviderOf
  AmountOf <- MCAmountOf
  Foreign <- MCForeign
  MaxAmount = 2
  MaxDeposit = 2
  ClocksTie = FALSE
INVARIANTS
  TypeOK
  OneBroadcast
  SentIsUpheld
  ConfirmedIsRefunded
  Conserved
  RefundedOnce
PROPERTIES
  ImplementsPromise
CHECK_DEADLOCK FALSE
