SPECIFICATION FairSpec
CONSTANTS
  None = None
  Torn = Torn
  Plans <- TwoPlans
  Asked = {"on"}
  Minute = 2
  Fallback = 1
  MaxTime = 1
  MaxCalls = 2
  MaxFails = 1
  MaxTurns = 1
  MaxEvents = 1
INVARIANTS
  TypeOK
  OverrideDurable
  AtMostOneStray
  WakeNotLost
PROPERTIES
  LiveOverrideKept
  KeepsOverride
  Converges
  ReportsRelay
