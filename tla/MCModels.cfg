SPECIFICATION ModelsSpec
CONSTANTS
  Seeds = {189998702}
  Outfits = {2}
  Dresses = {2}
  Wardrobe = {1}
  Settings <- AllSettings
INVARIANT DrawsInRange
CHECK_DEADLOCK FALSE
