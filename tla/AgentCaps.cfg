SPECIFICATION Spec
CONSTANTS
  a1 = a1
  r1 = r1
  r2 = r2
  x1 = x1
  x2 = x2
  h1 = h1
  h2 = h2
  i1 = i1
  NoId = NoId
  Run <- MCBoth
  Linear = {r2}
  Agent <- MCAgent
  AgentOf <- MCAgentOf
  Service <- MCService
  HostOf <- MCHostOf
  IdOf <- MCIdOf
  Allowlist = {}
  Denylist = {}
  Disabled = FALSE
  RequireIdentity = FALSE
  HasFloor = TRUE
  MaxAmount = 2
  Quotes = {1, 2}
  DailyCap = 2
  HourlyCap = 1
  ProviderCap = 1
  Day = 2
  Hour = 1
  Retention = 2
  Budget = 3
  MaxSteps = 3
  MaxFetches = 2
  MaxTime = 3
  Conditions <- MCConditions
INVARIANTS
  TypeOK
  SettledIsRecorded
  DailyCapHolds
  VelocityCapHolds
  ProviderCapHolds
  BudgetBoundsRun
