SPECIFICATION MCSpec
CONSTANTS
  Width = 3
  Height = 2
  Offsets <- MCOffsets
  MaxRects = 2
  Areas <- MCAreas
  Screen <- MCScreen
  Scales <- MCScales
  Scenes <- MCScenes
  CorreMax <- MCCorreMax
  ZlibMaxRectSize = 8
  Levels <- MCLevels
  MinSplitRectSize = 8
  MinSolidSubrectSize = 4
  MaxSplitTileSize = 2
  MaxRectsPerUpdate = 2
  LastRectCount = 65535
  Colour = {0, 1, 2, 3, 4}
  Undefined = 99
  PixelSizes = {1, 2, 4}
  HextileArea = 4
  Tiles <- MCTiles
  Pictures <- MCPictures
  LongRun = 2
  MaxPalette = 4
  MaxPacked = 3
  Shades <- MCShades
  MaxShade = 3
  MinToCompress = 8
  ColorsDivisor = 2
  MonoMinRectSize = 4
  Heights <- MCHeights
  Sizes = {1, 2, 4}
  DCTSIZE = 2
  Room = {1, 2, 3, 5}
  Client = {c1, c2, c3}
  NoClient = NoClient
  Keysyms = {"letter", "capital", "accent", "ESC", "END", "F11", "F12"}
  MaxMessages = 4
  Clients = {c1}
  Devices <- MCDevices
  Asked <- MCAsked
  Garbage = Garbage
INVARIANT RegionsHold
INVARIANT UpdateIsWhole
INVARIANT PictureArrives
INVARIANT RowsInPlace
INVARIANT ColoursAreNearest
INVARIANT OwnerIsListed
INVARIANT NothingIsStuck
PROPERTY PointerIsLocked
PROPERTY PointerIsFreed
