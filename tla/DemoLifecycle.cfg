SPECIFICATION LifecycleSpec
CONSTANTS
  d1 = d1
  p1 = p1
  v1 = v1
  b1 = b1
  w1 = w1
  a1 = a1
  t1 = t1
  t2 = t2
  h1 = h1
  NoHash = NoHash
  NoRow = NoRow
  Unset = Unset
  Dispute <- MCDispute
  Payment <- MCPayment
  Provider <- MCProvider
  Binding <- MCBinding
  Worker <- MCWorker
  Hash <- MCHash
  DisputeOf <- MCDisputeOf
  PaymentOf <- MCPaymentOf
  ProviderOf <- MCProviderOf
  AmountOf <- MCAmountOf
  Auth <- MCAuth
  Thread <- MCThread
  DeployHash = {1, 2}
  SettleHash = {1, 2}
  GlId = {1, 2, 3}
  Foreign = {}
  Funder = v1
  Runner = w1
  DemoAuth = a1
  DemoBinding = b1
  BondAmount = 2
  MaxAmount = 4
  MaxDeposit = 0
  MaxFunding = 3
  MaxPresented = 2
  MaxReruns = 2
  ClocksTie = FALSE
SYMMETRY MCSymmetry
INVARIANTS
  LifecycleTypeOK
  BondedOnce
  RefundIsEarned
  DecidedByRecorded
  ArtifactsTellTruth
PROPERTIES
  RecordedNeverResent
CHECK_DEADLOCK FALSE
