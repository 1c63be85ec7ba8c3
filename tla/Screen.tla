------------------------------- MODULE Screen -------------------------------
(***************************************************************************)
(* update_screen: on every turn of its main loop, fbvncserver compares the *)
(* mapped framebuffer with cmpbuf, pixel by pixel, brings cmpbuf up to     *)
(* date, copies it to vncbuf, the frame that libvncserver sends, and marks *)
(* the bounding box of what it found changed.  Meanwhile Android draws,    *)
(* and with a double buffer shows the one page or the other.               *)
(*                                                                         *)
(* The loop indices i and j are static, and for the rotated screens the    *)
(* offsets of a row are computed from i before the loop over i begins.     *)
(* test_mode, and the time that rfbProcessEvents waits, are left out.      *)
(***************************************************************************)
EXTENDS Integers, FiniteSets

CONSTANTS
  Xres, Yres,  \* scrinfo.xres and yres; xres_virtual is xres, xoffset is 0
  Colour,      \* the values of a pixel
  Black,       \* what calloc leaves in a pixel
  Rotations,   \* the rotations the server may be started with
  Drawings,    \* what Android does to the screen: "draw", "flip"
  Keys,        \* {"rotate"} if a client may press F4
  MaxDrawings, \* bound: drawings, flips and rotations
  Sides        \* widths and heights of the screens that are touched

ASSUME ScreenAssumption ==
  /\ Xres \in Nat \ {0} /\ Yres \in Nat \ {0}
  /\ Black \in Colour
  /\ Rotations \subseteq {0, 90, 180, 270}
  /\ Drawings \subseteq {"draw", "flip"} /\ Keys \subseteq {"rotate"}
  /\ MaxDrawings \in Nat /\ Sides \subseteq Nat \ {0}

Column == 0 .. Xres - 1
Row    == 0 .. Yres - 1
Cells  == 0 .. Xres * Yres - 1
\* The mapping holds two pages, and what rounding up to the page size adds.
Mapped == 0 .. 2 * Xres * Yres

VARIABLES
  fb,       \* the mapped framebuffer, fbmmap
  yoffset,  \* scrinfo.yoffset
  cmpbuf,   \* what the last pass left there
  vncbuf,   \* the frame of the VNC screen
  i,        \* the static i of update_screen
  rotation, \* rotation
  marked,   \* the rectangle the last pass marked as modified, or {}
  drawings  \* drawings so far

vars == <<fb, yoffset, cmpbuf, vncbuf, i, rotation, marked, drawings>>

Init ==
  /\ fb = [p \in Mapped |-> Black] /\ yoffset = 0
  /\ cmpbuf = [k \in Cells |-> Black] /\ vncbuf = cmpbuf
  /\ i = 0 /\ rotation \in Rotations
  /\ marked = {} /\ drawings = 0

\* PIXEL_TO_VIRTUALPIXEL
Pixel(x, y) == (y + yoffset) * Xres + x

-----------------------------------------------------------------------------
(* The pass.                                                               *)

\* The i that the offsets of row y are computed with.
Stale(y) == IF y = 0 THEN i ELSE Xres

\* Which element of cmpbuf the code compares at column x of row y; it may lie
\* outside of the buffer.
Target(x, y) ==
  CASE rotation = 0   -> y * Xres + x
    [] rotation = 90  -> Yres - 1 - y + Stale(y) * Yres
    [] rotation = 180 -> Xres - 1 - x + (Yres - 1 - y) * Xres
    [] rotation = 270 -> y + (Xres - 1 - Stale(y)) * Yres

\* The pixel it is compared with.
Source(x, y) == IF rotation = 0 THEN Pixel(x, y) ELSE Pixel(Stale(y), y)

Differs(x, y) == LET k == Target(x, y) IN k \in Cells /\ cmpbuf[k] # fb[Source(x, y)]

\* In the frames turned by 90 and 270 a row compares, and sets, one element.
Compared == {c \in Column \X Row : rotation \in {90, 270} => c[1] = 0}

Changed == {c \in Compared : Differs(c[1], c[2])}

\* The comparisons beyond the buffer: what lies there is not known.
Outside == {c \in Compared : Target(c[1], c[2]) \notin Cells}

\* Where column x of row y counts for the bounding box.
BoxX(x, y) == CASE rotation = 0 -> x [] rotation = 90 -> Yres - y
                [] rotation = 180 -> x [] rotation = 270 -> y
BoxY(x, y) == CASE rotation = 0 -> y [] rotation = 90 -> x
                [] rotation = 180 -> Yres - y [] rotation = 270 -> x

Side == 0 .. Xres + Yres

\* (mutant: the box stops short of its last column)
Box_OffByOne(found) ==
  {p \in Side \X Side :
     /\ \E c, d \in found : BoxX(c[1], c[2]) <= p[1] /\ p[1] < BoxX(d[1], d[2])
     /\ \E c, d \in found : BoxY(c[1], c[2]) <= p[2] /\ p[2] <= BoxY(d[1], d[2])}

\* rfbMarkRectAsModified(min_x, min_y, max_x + 1, max_y + 1), as a set of pixels:
\* all that lie between two that were found.
Box(found) ==
  {p \in Side \X Side :
     /\ \E c, d \in found : BoxX(c[1], c[2]) <= p[1] /\ p[1] <= BoxX(d[1], d[2])
     /\ \E c, d \in found : BoxY(c[1], c[2]) <= p[2] /\ p[2] <= BoxY(d[1], d[2])}

\* (mutant: an unrotated pass leaves cmpbuf as it is)
Copied_Nothing == cmpbuf

\* cmpbuf after the pass: unrotated it is the start of the mapping, otherwise
\* each element compared was set, to what one pixel for the whole row holds.
Copied ==
  IF rotation = 0 THEN [k \in Cells |-> fb[k]]
  ELSE [k \in Cells |->
          IF \E c \in Compared : Target(c[1], c[2]) = k
          THEN fb[Source(0, CHOOSE y \in Row : \E x \in Column : Target(x, y) = k)]
          ELSE cmpbuf[k]]

update_screen ==
  /\ cmpbuf' = Copied
  /\ vncbuf' = cmpbuf'
  /\ \E spurious \in SUBSET Outside : marked' = Box(Changed \cup spurious)
  /\ i' = Xres
  /\ UNCHANGED <<fb, yoffset, rotation, drawings>>

-----------------------------------------------------------------------------
(* What happens to the screen between two passes.                          *)

Another(kinds) == kinds # {} /\ drawings < MaxDrawings /\ drawings' = drawings + 1

Draw(p, colour) ==
  /\ Another(Drawings \cap {"draw"})
  /\ fb' = [fb EXCEPT ![p] = colour]
  /\ UNCHANGED <<yoffset, cmpbuf, vncbuf, i, rotation, marked>>

Flip ==
  /\ Another(Drawings \cap {"flip"})
  /\ yoffset' = Yres - yoffset
  /\ UNCHANGED <<fb, cmpbuf, vncbuf, i, rotation, marked>>

\* rotate(): a new frame on the same buffers, all of it marked.
rotate ==
  /\ Another(Keys)
  /\ rotation' = (rotation + 90) % 360
  /\ marked' = IF rotation' \in {90, 270} THEN Row \X Column ELSE Column \X Row
  /\ UNCHANGED <<fb, yoffset, cmpbuf, vncbuf, i>>

-----------------------------------------------------------------------------
(* Where a touch lands.  A viewer points at the frame; the device that the *)
(* events are written to is declared from -2047 to 2048 in both directions, *)
(* the whole of the screen as it is built.                                  *)

Scaled(p, size) == (p * 4096) \div size - 2048

\* (mutant: a frame turned by 90 is not mirrored)
transform_touch_coordinates_Straight(p, s, turned) ==
  CASE turned = 0   -> <<Scaled(p[1], s.w), Scaled(p[2], s.h)>>
    [] turned = 90  -> <<Scaled(p[2], s.w), Scaled(p[1], s.h)>>
    [] turned = 180 -> <<Scaled(s.w - p[1], s.w), Scaled(s.h - p[2], s.h)>>
    [] turned = 270 -> <<Scaled(s.w - p[2], s.w), Scaled(p[1], s.h)>>

\* On a screen of size s: p is a pixel of the frame.
transform_touch_coordinates(p, s, turned) ==
  CASE turned = 0   -> <<Scaled(p[1], s.w), Scaled(p[2], s.h)>>
    [] turned = 90  -> <<Scaled(p[2], s.w), Scaled(s.h - p[1], s.h)>>
    [] turned = 180 -> <<Scaled(s.w - p[1], s.w), Scaled(s.h - p[2], s.h)>>
    [] turned = 270 -> <<Scaled(s.w - p[2], s.w), Scaled(p[1], s.h)>>

\* Android: the pixel that a value of the device stands for; beyond the edges, the edge.
Touched(v, size) ==
  LET p == ((v + 2047) * size) \div 4096
  IN IF p < 0 THEN 0 ELSE IF p >= size THEN size - 1 ELSE p

Next ==
  \/ update_screen
  \/ \E p \in 0 .. 2 * Xres * Yres - 1, colour \in Colour : Draw(p, colour)
  \/ Flip \/ rotate

\* The main loop of the process never stops.
Spec == Init /\ [][Next]_vars /\ WF_vars(update_screen)

-----------------------------------------------------------------------------
(* Types: the rotation stays one of the four that every pass knows, and    *)
(* neither buffer grows or shrinks when the frame is turned (rotate).       *)
TypeOK ==
  /\ fb \in [Mapped -> Colour] /\ yoffset \in {0, Yres}
  /\ cmpbuf \in [Cells -> Colour] /\ vncbuf \in [Cells -> Colour]
  /\ i \in {0, Xres} /\ rotation \in {0, 90, 180, 270}
  /\ marked \subseteq Int \X Int /\ drawings \in Nat

\* Where a turned frame of a screen of size s has the pixel at column x of row y.
FrameAt(x, y, s, turned) ==
  CASE turned = 0   -> <<x, y>>
    [] turned = 90  -> <<s.h - 1 - y, x>>
    [] turned = 180 -> <<s.w - 1 - x, s.h - 1 - y>>
    [] turned = 270 -> <<y, s.w - 1 - x>>

\* Its element of the buffer.
Place(x, y) ==
  LET at == FrameAt(x, y, [w |-> Xres, h |-> Yres], rotation)
  IN at[1] + at[2] * (IF rotation \in {90, 270} THEN Yres ELSE Xres)

\* The rotations in which every pixel of every screen is hit, or one beside it.
WellAimed ==
  {turned \in {0, 90, 180, 270} :
     \A s \in [w : Sides, h : Sides] : \A x \in 0 .. s.w - 1, y \in 0 .. s.h - 1 :
       LET v == transform_touch_coordinates(FrameAt(x, y, s, turned), s, turned)
       IN /\ x - Touched(v[1], s.w) \in -1 .. 1
          /\ y - Touched(v[2], s.h) \in -1 .. 1}

(* However often the screen is turned with F4, a click touches what the      *)
(* viewer sees under its pointer, or a pixel beside it: ptrevent turns the   *)
(* pointer back as update_screen turns the frame, though at an edge it       *)
(* leaves the range that the device declares.                                *)
TouchesWhatIsShown == rotation \in WellAimed

(* "-r rotation: Screen rotation": once Android leaves the screen alone, the *)
(* frame shows it, turned as asked.                                          *)
ShowsTheScreen == <>[](\A x \in Column, y \in Row : vncbuf[Place(x, y)] = fb[Pixel(x, y)])

(* What an unrotated frame converges to whatever else happens: the first    *)
(* page, which memcpy(a, fbmmap, ...) takes, not the one that is shown.     *)
FirstPageIsSent == <>[](rotation = 0 => \A k \in Cells : vncbuf[k] = fb[k])

(* A pass over an unrotated screen that shows its first page tells           *)
(* libvncserver of every pixel of the frame it changes, so that a client     *)
(* that is sent the marked rectangles has the frame, whatever turns and      *)
(* flips came before (max_x, max_y, min_x, min_y of update_screen).          *)
ChangesAreMarked ==
  [][rotation = 0 /\ yoffset = 0 =>
       \A x \in Column, y \in Row :
         vncbuf'[Place(x, y)] # vncbuf[Place(x, y)] => <<x, y>> \in marked']_vars
=============================================================================
