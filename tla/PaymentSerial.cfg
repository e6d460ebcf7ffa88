SPECIFICATION Spec
CONSTANTS
  r1 = r1
  r2 = r2
  r3 = r3
  s1 = s1
  s2 = s2
  x1 = x1
  x2 = x2
  h1 = h1
  h2 = h2
  p1 = p1
  p2 = p2
  NoPayment = NoPayment
  Request <- MCRequest
  Session <- MCSession
  ClientOf <- MCClientOf
  Resource <- MCResource
  ResourceOf <- MCTwoResources
  SupportsId = {x1}
  Hosts <- MCHosts
  HostOf <- MCHostOf
  AllowedHosts <- MCHosts
  PayId <- MCPayId
  Quotes = {1, 2}
  MaxAmount = 2
  MaxPayment = 2
  Budget = 2
  DailyCap = 3
  MaxPaymentsPerHour = 1
  ProviderDailyCap = 2
  DaySeconds = 1
  HourSeconds = 0
  IdemTtl = 0
  MaxTime = 1
  SerialIds = TRUE
  StoreMayFail = FALSE
  FailClosed = TRUE
SYMMETRY MCSymmetry
INVARIANTS
  TypeOK
  ClosedMeansUnpayable
  LimitsHold
  SettledOncePerId
  BudgetCoversSettled
PROPERTIES
  FinalStatusStays
  ImplementsLedger
