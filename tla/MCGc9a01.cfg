CONSTANTS
  Cols = {1}
  Rows = {1, 2}
  Orientations = {0, 1}
  Rotation = 0
  MaxFails = 3
SPECIFICATION Gc9Spec
INVARIANTS
  Gc9Inv
  PowerRight
  PictureKept
