SPECIFICATION PixelSpec
CONSTANTS
  Clients = {c1, c2}
  Devices <- MCWide
  Asked <- MCAsked
  Garbage = Garbage
INVARIANT ColoursArrive
