SPECIFICATION DataSpec
CONSTANTS
  Versions = {1}
  Files = {"a"}
  Shots <- AllShots
INVARIANT BulletsWithinMax
