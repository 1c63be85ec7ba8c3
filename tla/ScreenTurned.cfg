SPECIFICATION Spec
CONSTANTS
  Xres = 2
  Yres = 3
  Colour = {0, 1}
  Black = 0
  Rotations = {90, 180, 270}
  Drawings = {"draw"}
  Keys = {}
  MaxDrawings = 1
  Sides = {1, 2, 3, 10, 32, 48}
PROPERTY ShowsTheScreen
