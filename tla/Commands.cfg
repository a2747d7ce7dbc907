SPECIFICATION FairSpec
CONSTANTS
  None = None
  u1 = u1
  u2 = u2
  MaxDay = 1
  Slots = 2
  Plans <- TwoPlans
  Tables <- FullTable
  MaxFails = 1
  Users <- TwoUsers
  Commands <- SomeCommands
  MaxRuns = 2
  MaxPasses = 1
  MaxRestarts = 1
CHECK_DEADLOCK FALSE
INVARIANTS
  TypeOK
  LastWord
  SlotFound
  IdsDistinct
  OnlyLastEndLost
PROPERTIES
  KeepsOtherDate
  SyncedExactly
  DeletesOne
  EditsSet
  AllServed
