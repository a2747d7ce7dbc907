SPECIFICATION Spec
CONSTANTS
  None = None
  Torn = Torn
  w1 = w1
  w2 = w2
  w3 = w3
  Windows <- AllWindows
  Configs <- AnyConfig
  Slots = 2
  Requests <- SomeSeasons
  Endpoints <- AllEndpoints
  MaxDay = 2
  MaxCalls = 2
  MaxFails = 1
  MaxRestarts = 1
INVARIANTS
  TypeOK
  SeasonDurable
  LocalTableCurrent
  NothingForgotten
PROPERTIES
  SuccessIsTrue
  PendingUntilRestored
  SeasonNotDropped
  KeepsSeason
