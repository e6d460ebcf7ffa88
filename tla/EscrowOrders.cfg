SPECIFICATION Spec
CONSTANTS
  o1 = o1
  o2 = o2
  o3 = o3
  payer = payer
  provider = provider
  validator = validator
  escrow = escrow
  MaxSigned = 2
  Address <- MCAddress
  Account <- MCAccount
  Signers = {validator, provider}
  Escrow = escrow
  Order <- MCOrder
  PayerOf <- MCPayerOf
  ProviderOf <- MCProviderOf
  ValidatorOf <- MCValidatorOf
  AmountOf <- MCAmountOf
  DeliveryDeadline <- MCDeadline
  RefundAfter <- MCRefundAfter
  Deliveries <- MCDeliveries
  Verdicts <- MCVerdicts
  Supply <- MCSupply
  MaxAmount = 2
  MaxTime = 3
INVARIANTS
  TypeOK
  Solvent
PROPERTIES
  MovedByRight
  ImplementsPromise
