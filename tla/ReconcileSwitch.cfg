SPECIFICATION Spec
CONSTANTS
  None = None
  Torn = Torn
  Plans <- OnePlan
  Asked = {"on"}
  Minute = 1
  Fallback = 1
  MaxTime = 0
  MaxCalls = 2
  MaxFails = 0
  MaxTurns = 0
  MaxEvents = 0
INVARIANTS
  DirectSwitchHolds
