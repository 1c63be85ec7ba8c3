SPECIFICATION Spec
CONSTANTS
  Xres = 2
  Yres = 3
  Colour = {0, 1}
  Black = 0
  Rotations = {0, 90, 180, 270}
  Drawings = {"draw", "flip"}
  Keys = {"rotate"}
  MaxDrawings = 3
  Sides = {1, 2, 3, 10, 32, 48}
INVARIANT TouchesWhatIsShown
PROPERTY FirstPageIsSent
PROPERTY ChangesAreMarked
