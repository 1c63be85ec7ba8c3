----------------------------- MODULE Rectangles -----------------------------
(***************************************************************************)
(* The rectangles of one update.  rfbSendFramebufferUpdate announces how   *)
(* many will follow before any of them is sent: for the encodings that     *)
(* split rectangles it works the number out in advance, with formulas of   *)
(* its own.  Tight can look for areas of one colour instead, and end the   *)
(* update with a marker.                                                   *)
(***************************************************************************)
EXTENDS Integers, Sequences, FiniteSets, SequencesExt, FiniteSetsExt

CONSTANTS
  Areas,             \* regions to update, each a sequence of rectangles apart
  Screen,            \* the size of the screen,
  Scales,            \* and of its scaled versions
  Scenes,            \* the colours of a scaled screen, as a function of x, y
  CorreMax,          \* correMaxWidth, correMaxHeight
  ZlibMaxRectSize,   \* ZLIB_MAX_RECT_SIZE, ULTRA_MAX_RECT_SIZE
  Levels,            \* maxRectSize and maxRectWidth of the compression levels
  MinSplitRectSize, MinSolidSubrectSize, MaxSplitTileSize, \* of tight.c
  MaxRectsPerUpdate, \* more are sent as one
  LastRectCount      \* 0xFFFF: a marker tells where the update ends

VARIABLES
  update,  \* what there is to send: the region, the scaled screen and the encoding
  nRects,  \* the number that is announced
  parts,   \* the rectangles that follow, and whether as one colour
  marker   \* whether a marker ends them

updateVars == <<update, nRects, parts, marker>>

Encoding == {"whole", "corre", "zlib", "tight"}

NoUpdate == [area |-> <<>>]

Size == [w : Nat \ {0}, h : Nat \ {0}]
Rectangle == [x : Nat, y : Nat, w : Nat \ {0}, h : Nat \ {0}]

Box(x, y, w, h) == [x |-> x, y |-> y, w |-> w, h |-> h]
Part(box, solid) == [box |-> box, solid |-> solid]
Pixels(box) == (box.x .. box.x + box.w - 1) \X (box.y .. box.y + box.h - 1)
Disjoint(a, b) == Pixels(a) \cap Pixels(b) = {}

\* How many pieces of at most that length there are, as the counting has it.
\* (mutant: one too many where nothing is left over)
Pieces_OneMore(n, most) == n \div most + 1
Pieces(n, most) == (n - 1) \div most + 1

\* And the pieces, as the sending comes by them, while it is not at the end: where each
\* begins, and how long it is.
Cuts(n, most) ==
  [i \in {j \in 1 .. n : (j - 1) * most < n} |->
     [at |-> (i - 1) * most, len |-> Min({most, n - (i - 1) * most})]]

\* Row by row, the pieces of a rectangle.
Grid(box, maxWidth, maxHeight) ==
  LET rows == Cuts(box.h, maxHeight)
      cols == Cuts(box.w, maxWidth)
      Cell(row, col) == Box(box.x + col.at, box.y + row.at, col.len, row.len)
  IN FlattenSeq([i \in DOMAIN rows |-> [j \in DOMAIN cols |-> Part(Cell(rows[i], cols[j]), FALSE)]])

\* FLOOR and CEIL of n / d.  The program multiplies by the scale, a double that may be a
\* little more or less: of a whole number, either side of it may come out.
Floors(n, d) == {f \in 0 .. n \div d : n <= (f + 1) * d}
Ceils(n, d) == {c \in 1 .. n \div d + 1 : n <= c * d}

\* rfbScaledCorrection: what a rectangle of the screen may become on the scaled one.
Between(x, y, right, bottom, to) ==
  Box(x, y, Min({Max({1, right - x}), to.w - x}), Min({Max({1, bottom - y}), to.h - y}))

rfbScaledCorrection(box, to) ==
  IF to = Screen THEN {box}
  ELSE {Between(x, y, right, bottom, to) :
          x \in Floors(box.x * to.w, Screen.w), right \in Ceils((box.x + box.w) * to.w, Screen.w),
          y \in Floors(box.y * to.h, Screen.h), bottom \in Ceils((box.y + box.h) * to.h, Screen.h)}

\* Those of an update, each the same whenever it is computed.
Corrections(u) ==
  {boxes \in [DOMAIN u.area -> UNION {rfbScaledCorrection(u.area[i], u.to) : i \in DOMAIN u.area}] :
     \A i \in DOMAIN u.area : boxes[i] \in rfbScaledCorrection(u.area[i], u.to)}

(***************************************************************************)
(* CoRRE, ultra and zlib.                                                  *)
(***************************************************************************)
rfbSendRectEncodingCoRRE(box) == Grid(box, CorreMax.w, CorreMax.h)

\* ZLIB_MAX_SIZE(w) / w: always two lines at least.
MaxLines(w) == Max({2 * w, ZlibMaxRectSize}) \div w

rfbSendRectEncodingZlib(box) == Grid(box, box.w, MaxLines(box.w))

(***************************************************************************)
(* Tight.                                                                  *)
(***************************************************************************)
SubrectMaxWidth(w, level) == Min({w, level.maxRectWidth})
SubrectMaxHeight(w, level) == level.maxRectSize \div SubrectMaxWidth(w, level)

TooLarge(box, level) == box.w > level.maxRectWidth \/ box.w * box.h > level.maxRectSize

\* Zero: no matter how many.
rfbNumCodedRectsTight(box, level, lastRect) ==
  IF lastRect /\ box.w * box.h >= MinSplitRectSize THEN 0
  ELSE IF TooLarge(box, level)
       THEN Pieces(box.w, level.maxRectWidth) * Pieces(box.h, SubrectMaxHeight(box.w, level))
       ELSE 1

SendRectSimple(box, level) ==
  IF TooLarge(box, level)
  THEN Grid(box, level.maxRectWidth, SubrectMaxHeight(box.w, level))
  ELSE <<Part(box, FALSE)>>

\* CheckSolidTile
OneColour(scene, box) == Cardinality({scene[p] : p \in Pixels(box)}) = 1
AllOf(scene, box, colour) == {scene[p] : p \in Pixels(box)} \subseteq {colour}

\* FindBestSolidArea: bands of tiles from the first tile on, each as wide as the one above
\* at most; the largest rectangle of them.
Wide(scene, box, colour) ==
  Max({w \in 0 .. box.w : /\ w % MaxSplitTileSize = 0 \/ w = box.w
                          /\ AllOf(scene, [box EXCEPT !.w = w], colour)})

NextBand(scene, box, colour, found, cut) ==
  LET w == Wide(scene, Box(box.x, box.y + cut.at, found.prev, cut.len), colour)
      h == cut.at + cut.len
  IN IF w * h > found.w * found.h THEN [w |-> w, h |-> h, prev |-> w] ELSE [found EXCEPT !.prev = w]

FindBestSolidArea(scene, box, colour) ==
  LET bands == Cuts(box.h, MaxSplitTileSize)
      best[i \in 0 .. Len(bands)] ==
        IF i = 0 THEN [w |-> 0, h |-> 0, prev |-> box.w]
        ELSE NextBand(scene, box, colour, best[i - 1], bands[i])
  IN Box(box.x, box.y, best[Len(bands)].w, best[Len(bands)].h)

\* ExtendSolidArea: upwards, downwards, to the left and to the right, within box.
Up(scene, box, a, c) ==
  LET y == Min({i \in box.y .. a.y : AllOf(scene, Box(a.x, i, a.w, a.y - i), c)})
  IN Box(a.x, y, a.w, a.h + a.y - y)

Down(scene, box, a, c) ==
  [a EXCEPT !.h = Max({h \in a.h .. box.y + box.h - a.y : AllOf(scene, [a EXCEPT !.h = h], c)})]

Left(scene, box, a, c) ==
  LET x == Min({i \in box.x .. a.x : AllOf(scene, Box(i, a.y, a.x - i, a.h), c)})
  IN Box(x, a.y, a.w + a.x - x, a.h)

\* (mutant: only the first row is looked at)
Right_FirstRow(scene, box, a, c) ==
  [a EXCEPT !.w = Max({w \in a.w .. box.x + box.w - a.x : AllOf(scene, Box(a.x, a.y, w, 1), c)})]

Right(scene, box, a, c) ==
  [a EXCEPT !.w = Max({w \in a.w .. box.x + box.w - a.x : AllOf(scene, [a EXCEPT !.w = w], c)})]

ExtendSolidArea(scene, box, a, c) ==
  Right(scene, box, Left(scene, box, Down(scene, box, Up(scene, box, a, c), c), c), c)

\* The solid areas that the tiles of one band lead to, if they are large enough.
Beginning(scene, box, y, x) ==
  LET tile == Box(x, y, Min({MaxSplitTileSize, box.x + box.w - x}),
                        Min({MaxSplitTileSize, box.y + box.h - y}))
      colour == scene[<<x, y>>]
      best == FindBestSolidArea(scene, Box(x, y, box.x + box.w - x, box.y + box.h - y), colour)
  IN IF /\ OneColour(scene, tile)
        /\ best.w * best.h = box.w * box.h \/ best.w * best.h >= MinSolidSubrectSize
     THEN <<ExtendSolidArea(scene, box, best, colour)>> ELSE <<>>

SolidAreas(scene, box, y) ==
  LET tiles == Cuts(box.w, MaxSplitTileSize)
  IN FlattenSeq([i \in DOMAIN tiles |-> Beginning(scene, box, y, box.x + tiles[i].at)])

\* rfbSendRectEncodingTight, and its loop over the bands: what it sends for a rectangle,
\* of which it has looked at some rows.  What is above and to the left of a solid area goes
\* before it, the rest after it.
OrSimple(u, from, box) ==
  IF ~u.lastRect \/ box.w * box.h < MinSplitRectSize
  THEN SendRectSimple(box, u.level) ELSE from[<<box, 0>>]

Around(u, from, box, a) ==
  LET Beside(x, y, w, h) == IF w = 0 \/ h = 0 THEN <<>> ELSE OrSimple(u, from, Box(x, y, w, h))
  IN (IF a.y = box.y THEN <<>> ELSE SendRectSimple([box EXCEPT !.h = a.y - box.y], u.level))
       \o Beside(box.x, a.y, a.x - box.x, a.h)
       \o <<Part(a, TRUE)>>
       \o Beside(a.x + a.w, a.y, box.x + box.w - a.x - a.w, a.h)
       \o Beside(box.x, a.y + a.h, box.w, box.y + box.h - a.y - a.h)

Below(box, rows) == [box EXCEPT !.y = @ + rows, !.h = @ - rows]

FromBand(u, from, box, rows) ==
  LET maxRows == SubrectMaxHeight(box.w, u.level)
      early == rows >= maxRows
      rest == IF early THEN Below(box, maxRows) ELSE box
      solid == SolidAreas(u.scene, rest, box.y + rows)
  IN IF rows >= box.h THEN SendRectSimple(box, u.level)
     ELSE (IF early THEN SendRectSimple([box EXCEPT !.h = maxRows], u.level) ELSE <<>>)
            \o (IF solid # <<>> THEN Around(u, from, rest, Head(solid))
                ELSE from[<<rest, box.y + rows + MaxSplitTileSize - rest.y>>])

rfbSendRectEncodingTight(u, box) ==
  LET from[at \in Rectangle \X Nat] == FromBand(u, from, at[1], at[2])
  IN OrSimple(u, from, box)

(***************************************************************************)
(* The update.                                                             *)
(***************************************************************************)
\* Rectangles that one of the region stands for.
CodedRects(u, box) ==
  CASE u.encoding = "corre" -> Pieces(box.w, CorreMax.w) * Pieces(box.h, CorreMax.h)
    [] u.encoding = "zlib" -> Pieces(box.h, MaxLines(box.w))
    [] u.encoding = "tight" -> rfbNumCodedRectsTight(box, u.level, u.lastRect)
    [] u.encoding = "whole" -> 1

SendRect(u, box) ==
  CASE u.encoding = "corre" -> rfbSendRectEncodingCoRRE(box)
    [] u.encoding = "zlib" -> rfbSendRectEncodingZlib(box)
    [] u.encoding = "tight" -> rfbSendRectEncodingTight(u, box)
    [] u.encoding = "whole" -> <<Part(box, FALSE)>>

\* sraRgnBBox
BBox(area) ==
  LET x == Min({area[i].x : i \in DOMAIN area})
      y == Min({area[i].y : i \in DOMAIN area})
  IN Box(x, y, Max({area[i].x + area[i].w : i \in DOMAIN area}) - x,
               Max({area[i].y + area[i].h : i \in DOMAIN area}) - y)

Sent(u) ==
  IF u.encoding = "whole" /\ Len(u.area) > MaxRectsPerUpdate
  THEN [u EXCEPT !.area = <<BBox(u.area)>>] ELSE u

Uncounted(u, boxes) == \E i \in DOMAIN boxes : CodedRects(u, boxes[i]) = 0

Announced(u, boxes) ==
  LET total[i \in 0 .. Len(boxes)] ==
        IF i = 0 THEN 0 ELSE total[i - 1] + CodedRects(u, boxes[i])
  IN IF Uncounted(u, boxes) THEN LastRectCount ELSE total[Len(boxes)]

\* Only the search for areas of one colour looks at the colours.
Updates(area, to) ==
  [area : {area}, to : {to}, encoding : Encoding \ {"tight"}]
    \cup [area : {area}, to : {to}, encoding : {"tight"}, level : Levels, lastRect : {FALSE}]
    \cup [area : {area}, to : {to}, encoding : {"tight"}, level : Levels, lastRect : {TRUE},
          scene : Scenes[to]]

\* The rectangles of a region are apart, and on the screen.  The number that is announced
\* has 16 bits, and nothing bounds it: these regions have fewer parts.
ASSUME RectanglesAssumption ==
  /\ Screen \in Size /\ Scales \subseteq Size /\ CorreMax \in Size
  /\ Levels \subseteq [maxRectSize : Nat, maxRectWidth : Nat \ {0}]
  /\ \A level \in Levels : level.maxRectSize >= level.maxRectWidth
  /\ {ZlibMaxRectSize, MinSplitRectSize, MinSolidSubrectSize, MaxSplitTileSize} \subseteq Nat \ {0}
  /\ MaxRectsPerUpdate \in Nat \ {0} /\ LastRectCount \in Nat
  /\ \A area \in Areas :
       /\ area \in Seq(Rectangle) \ {<<>>}
       /\ \A i \in DOMAIN area : /\ area[i].x + area[i].w <= Screen.w
                                /\ area[i].y + area[i].h <= Screen.h
                                /\ \A j \in DOMAIN area \ {i} : Disjoint(area[i], area[j])

ASSUME FewParts ==
  \A area \in Areas, to \in Scales : \A u \in Updates(area, to) : \A boxes \in Corrections(Sent(u)) :
    Uncounted(u, boxes) \/ Announced(u, boxes) < LastRectCount

rfbSendFramebufferUpdate(u) ==
  \E boxes \in Corrections(Sent(u)) :
    /\ update' = u
    /\ nRects' = Announced(u, boxes)
    /\ parts' = FlattenSeq([i \in DOMAIN boxes |-> SendRect(u, boxes[i])])
    /\ marker' = (nRects' = LastRectCount)

UpdateInit == update = NoUpdate /\ nRects = 0 /\ parts = <<>> /\ marker = FALSE

Done == update' = NoUpdate /\ nRects' = 0 /\ parts' = <<>> /\ marker' = FALSE

UpdateNext ==
  \/ /\ update = NoUpdate
     /\ \E area \in Areas, to \in Scales : \E u \in Updates(area, to) : rfbSendFramebufferUpdate(u)
  \/ update # NoUpdate /\ Done

UpdateSpec == UpdateInit /\ [][UpdateNext]_updateVars

-----------------------------------------------------------------------------
\* The viewer reads as many rectangles as were announced, or up to the marker: both ends
\* agree on where the update is over, and only who asked for it gets a marker.
AnnouncedIsSent ==
  IF marker THEN update.encoding = "tight" /\ update.lastRect ELSE nRects = Len(parts)

\* What a rectangle may be, for the buffers it is encoded in.
Allowed(u, part) ==
  CASE u.encoding = "corre" -> part.box.w <= CorreMax.w /\ part.box.h <= CorreMax.h
    [] u.encoding = "zlib" -> part.box.w * part.box.h <= Max({2 * part.box.w, ZlibMaxRectSize})
    [] u.encoding = "tight" -> part.solid \/ ~TooLarge(part.box, u.level)
    [] u.encoding = "whole" -> TRUE

\* The pixels of the scaled screen that show something of the region, or with a gap of one,
\* that border on it at least.
Shown(u, gap) ==
  {p \in Pixels(Box(0, 0, u.to.w, u.to.h)) :
     \E i \in DOMAIN u.area : \E q \in Pixels(u.area[i]) :
       /\ q[1] * u.to.w < (p[1] + 1) * Screen.w + gap /\ p[1] * Screen.w < (q[1] + 1) * u.to.w + gap
       /\ q[2] * u.to.h < (p[2] + 1) * Screen.h + gap /\ p[2] * Screen.h < (q[2] + 1) * u.to.h + gap}

Gap(to) == IF to = Screen THEN 0 ELSE 1

\* None of the parts is too large, those sent as one colour are of one colour, and together
\* they are what changed: every pixel that shows something of the region, and unless there
\* were too many rectangles none that is apart from it; where nothing is scaled exactly the
\* region, and no pixel twice.
PartsMakeTheUpdate ==
  LET covered == UNION {Pixels(parts[i].box) : i \in DOMAIN parts}
  IN /\ \A i \in DOMAIN parts : /\ Allowed(update, parts[i])
                                /\ parts[i].solid => OneColour(update.scene, parts[i].box)
     /\ update # NoUpdate =>
          /\ Shown(update, 0) \subseteq covered
          /\ Len(update.area) <= MaxRectsPerUpdate => covered \subseteq Shown(update, Gap(update.to))
          /\ update.to = Screen =>
               \A i, j \in DOMAIN parts : i # j => Disjoint(parts[i].box, parts[j].box)

\* What rfbSendFramebufferUpdate announces is what it sends, and all of the update.
UpdateIsWhole == AnnouncedIsSent /\ PartsMakeTheUpdate
=============================================================================
