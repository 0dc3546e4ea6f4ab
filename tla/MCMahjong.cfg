SPECIFICATION Spec
CONSTANTS
  Tiles = {1, 2, 3, 4, 5, 6, 7, 8, 9, 10, 28}
  MaxTiles = 8
CHECK_DEADLOCK FALSE
INVARIANTS NormalRight EyePutBack JiangAgrees TablesRight
