SPECIFICATION FairRelay
CONSTANTS
  o1 = o1
  payer = payer
  provider = provider
  validator = validator
  escrow = escrow
  MaxSigned = 2
  MaxPending = 2
  Address <- MCAddress
  Account <- MCAccount
  Signers = {validator, provider}
  Escrow = escrow
  Order <- MCOrder
  PayerOf <- MCPayerOf
  ProviderOf <- MCProviderOf
  ValidatorOf <- MCValidatorOf
  AmountOf <- MCAmountOf
  DeliveryDeadline <- MCDeadline
  RefundAfter <- MCRefundAfter
  Deliveries <- MCDeliveries
  Verdicts <- MCVerdicts
  Supply <- MCSupply
  MaxAmount = 1
  MaxTime = 4
INVARIANTS
  ClientAgrees
  PendingVerdictsGood
PROPERTIES
  FundsNeverTrapped
