SPECIFICATION TableSpec
CONSTANTS
  Slots = 2
  Plans <- OnePlan
  Tables <- FullTable
  MaxFails = 1
INVARIANTS
  OthersLeftAlone
