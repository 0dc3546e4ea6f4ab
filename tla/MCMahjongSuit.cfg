SPECIFICATION Spec
CONSTANTS
  Tiles = {10, 11, 12}
  MaxTiles = 4
CHECK_DEADLOCK FALSE
INVARIANT EachSuitChecked
