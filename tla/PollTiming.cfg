SPECIFICATION Spec
CHECK_DEADLOCK FALSE
CONSTANTS
  None = None
  DayMinutes = 4
  WeekDays = 2
  MinuteUnits = 2
  Margin = 1
  MaxBackoff = 6
  Polls = {2, 5, 8}
  Schedules <- SomeSchedules
  Zones <- SomeZones
  DstEvery = 6
  MaxExchange = 3
  Horizon = 26
INVARIANTS
  TypeOK
  WindowsAsMeant
  OccurrenceFound
  BackoffBounded
  FlagFollowsZone
PROPERTIES
  WakesForTransition
