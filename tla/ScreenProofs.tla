---------------------------- MODULE ScreenProofs ----------------------------
(***************************************************************************)
(* What the passes do on a screen of any size and any colours, started     *)
(* with any rotation, turned and flipped at any time: the buffers keep     *)
(* their shape, every pixel is read inside of the mapping, and the marked  *)
(* box holds every pixel that a pass over an unrotated frame changes.      *)
(***************************************************************************)
EXTENDS Screen, TLAPS

\* Every pixel that a pass may read lies in the mapping, also the one right of
\* the last row that the turned frames read.
LEMMA Inside ==
  ASSUME yoffset \in {0, Yres}, NEW x \in 0 .. Xres, NEW y \in Row
  PROVE  Pixel(x, y) \in Mapped
<1> DEFINE n == (y + yoffset) * Xres
           m == (2 * Yres - 1 - y - yoffset) * Xres
<1>1. Xres \in Nat /\ Yres \in Nat /\ y \in Nat /\ yoffset \in Nat /\ y + yoffset <= 2 * Yres - 1
  BY ScreenAssumption DEF Row
<1>2. n \in Nat /\ m \in Nat
  BY <1>1
<1>3. n + m + Xres = 2 * Xres * Yres
  BY <1>1
<1> HIDE DEF n, m
<1>4. n + x \in 0 .. n + m + Xres
  BY <1>1, <1>2
<1> QED
  BY <1>3, <1>4 DEF Pixel, Mapped, n

\* Row by row, every column has an element of the buffer to itself.
LEMMA InFrame ==
  ASSUME NEW x \in Column, NEW y \in Row
  PROVE  y * Xres + x \in Cells
<1> USE ScreenAssumption DEF Column, Row, Cells
<1>1. Yres = y + 1 + (Yres - 1 - y) /\ Yres - 1 - y \in Nat
  OBVIOUS
<1>2. Xres * Yres = Xres * (y + 1) + Xres * (Yres - 1 - y)
  BY <1>1
<1>3. Xres * (Yres - 1 - y) >= 0
  BY <1>1
<1>4. Xres * (y + 1) = y * Xres + Xres /\ y * Xres \in Nat
  OBVIOUS
<1> QED
  BY <1>2, <1>3, <1>4

LEMMA CellsAreMapped == Cells \subseteq Mapped
<1> DEFINE n == Xres * Yres
<1>1. n \in Nat
  BY ScreenAssumption
<1>2. 2 * Xres * Yres = 2 * n
  BY ScreenAssumption
<1> HIDE DEF n
<1>3. 0 .. n - 1 \subseteq 0 .. 2 * n
  BY <1>1
<1> QED
  BY <1>2, <1>3 DEF Cells, Mapped, n

-----------------------------------------------------------------------------
(* The types.                                                              *)

LEMMA InitTypes == Init => TypeOK
BY ScreenAssumption DEF Init, TypeOK

\* What a pass leaves in cmpbuf are colours: it reads inside of the mapping.
LEMMA CopiedTypes == ASSUME TypeOK PROVE Copied \in [Cells -> Colour]
<1>1. CASE rotation = 0
  BY <1>1, CellsAreMapped DEF Copied, TypeOK
<1>2. CASE rotation # 0
  <2> SUFFICES ASSUME NEW k \in Cells, \E c \in Compared : Target(c[1], c[2]) = k
               PROVE  fb[Source(0, CHOOSE y \in Row : \E x \in Column : Target(x, y) = k)] \in Colour
    BY <1>2 DEF Copied, TypeOK
  <2>1. \E y \in Row : \E x \in Column : Target(x, y) = k
    BY DEF Compared
  <2> DEFINE y == CHOOSE z \in Row : \E x \in Column : Target(x, z) = k
  <2>2. y \in Row
    BY <2>1
  <2> HIDE DEF y
  <2>3. Stale(y) \in 0 .. Xres /\ Source(0, y) = Pixel(Stale(y), y)
    BY <1>2, ScreenAssumption DEF Stale, Source, TypeOK
  <2>4. Source(0, y) \in Mapped
    BY <2>2, <2>3, Inside DEF TypeOK
  <2> QED
    BY <2>4 DEF TypeOK, y
<1> QED
  BY <1>1, <1>2

LEMMA PassTypes == ASSUME TypeOK, update_screen PROVE TypeOK'
<1>1. cmpbuf' \in [Cells -> Colour] /\ vncbuf' \in [Cells -> Colour]
  BY CopiedTypes DEF update_screen
<1>2. Side \subseteq Int
  BY ScreenAssumption DEF Side
<1>3. marked' \subseteq Int \X Int
  BY <1>2 DEF update_screen, Box
<1> QED
  BY <1>1, <1>3 DEF update_screen, TypeOK

LEMMA DrawTypes ==
  ASSUME TypeOK, NEW p \in 0 .. 2 * Xres * Yres - 1, NEW colour \in Colour, Draw(p, colour)
  PROVE  TypeOK'
<1>1. fb' \in [Mapped -> Colour]
  BY DEF Draw, TypeOK
<1> QED
  BY <1>1 DEF Draw, Another, TypeOK

LEMMA FlipTypes == ASSUME TypeOK, Flip PROVE TypeOK'
<1>1. yoffset' \in {0, Yres}
  BY ScreenAssumption DEF Flip, TypeOK
<1> QED
  BY <1>1 DEF Flip, Another, TypeOK

LEMMA rotateTypes == ASSUME TypeOK, rotate PROVE TypeOK'
<1>1. rotation' \in {0, 90, 180, 270}
  BY DEF rotate, TypeOK
<1>2. Row \subseteq Int /\ Column \subseteq Int
  BY ScreenAssumption DEF Row, Column
<1>3. marked' \subseteq Int \X Int
  BY <1>2 DEF rotate
<1> QED
  BY <1>1, <1>3 DEF rotate, Another, TypeOK

\* On a screen of any size, turned and flipped at any time, the buffers keep
\* their shape and hold colours of the screen: no pass reads beyond the mapping.
THEOREM TypesHold == Spec => []TypeOK
<1>1. ASSUME TypeOK, [Next]_vars PROVE TypeOK'
  <2>1. CASE UNCHANGED vars
    BY <1>1, <2>1 DEF vars, TypeOK
  <2> QED
    BY <1>1, <2>1, PassTypes, DrawTypes, FlipTypes, rotateTypes DEF Next
<1> QED
  BY <1>1, InitTypes, PTL DEF Spec

-----------------------------------------------------------------------------
(* The marked rectangle.                                                   *)

\* The frame that is sent is the buffer that is compared.
FrameIsCompared == vncbuf = cmpbuf

\* One pass: a pixel of the frame that changes differed, so it is in the box.
LEMMA PassMarks ==
  ASSUME FrameIsCompared, rotation = 0, yoffset = 0, update_screen,
         NEW x \in Column, NEW y \in Row,
         vncbuf'[Place(x, y)] # vncbuf[Place(x, y)]
  PROVE  <<x, y>> \in marked'
<1>1. Place(x, y) = y * Xres + x /\ y * Xres + x \in Cells
  <2>1. FrameAt(x, y, [w |-> Xres, h |-> Yres], rotation) = <<x, y>>
    BY DEF FrameAt
  <2>2. Place(x, y) = x + y * Xres
    BY <2>1 DEF Place
  <2>3. x \in Int /\ y * Xres \in Int
    BY ScreenAssumption DEF Column, Row
  <2>. QED
    BY <2>2, <2>3, InFrame
<1>2. cmpbuf[y * Xres + x] # fb[y * Xres + x]
  BY <1>1 DEF update_screen, Copied, FrameIsCompared
<1>3. Pixel(x, y) = y * Xres + x
  BY ScreenAssumption DEF Pixel, Row, Column
<1>4. Differs(x, y)
  BY <1>1, <1>2, <1>3 DEF Differs, Target, Source
<1>5. <<x, y>> \in Changed
  BY <1>4 DEF Changed, Compared
<1>6. PICK spurious \in SUBSET Outside : marked' = Box(Changed \cup spurious)
  BY DEF update_screen
<1>7. BoxX(x, y) = x /\ BoxY(x, y) = y
  BY DEF BoxX, BoxY
<1>8. <<x, y>> \in Side \X Side /\ x <= x /\ y <= y
  BY ScreenAssumption DEF Side, Column, Row
<1>9. <<x, y>> \in Changed \cup spurious
  BY <1>5
<1> QED
  BY <1>6, <1>7, <1>8, <1>9 DEF Box

\* On a screen of any size, whatever turns and flips came before, every pixel
\* of an unrotated frame that a pass of update_screen changes lies in the
\* rectangle that it marks as modified.
THEOREM PassesMarkChanges == Spec => ChangesAreMarked
<1>1. Init => FrameIsCompared
  BY DEF Init, FrameIsCompared
<1>2. FrameIsCompared /\ [Next]_vars => FrameIsCompared'
  BY DEF FrameIsCompared, Next, update_screen, Draw, Flip, rotate, vars
<1>3. FrameIsCompared /\ [Next]_vars
      => [rotation = 0 /\ yoffset = 0 =>
            \A x \in Column, y \in Row :
              vncbuf'[Place(x, y)] # vncbuf[Place(x, y)] => <<x, y>> \in marked']_vars
  <2> SUFFICES ASSUME FrameIsCompared, [Next]_vars, ~UNCHANGED vars,
                      rotation = 0, yoffset = 0, NEW x \in Column, NEW y \in Row,
                      vncbuf'[Place(x, y)] # vncbuf[Place(x, y)]
               PROVE  <<x, y>> \in marked'
    OBVIOUS
  <2>1. update_screen
    BY DEF Next, Draw, Flip, rotate
  <2> QED
    BY <2>1, PassMarks
<1> QED
  BY <1>1, <1>2, <1>3, PTL DEF Spec, ChangesAreMarked

-----------------------------------------------------------------------------
(* Touches.                                                                *)

\* A value and its quotient: what the two roundings of a touch rest on.
LEMMA Quotient ==
  ASSUME NEW a \in Int, NEW b \in Nat \ {0}
  PROVE  /\ a \div b \in Int
         /\ b * (a \div b) <= a /\ a < b * (a \div b) + b
<1>1. a = b * (a \div b) + (a % b) /\ a \div b \in Int /\ a % b \in 0 .. b - 1
  OBVIOUS
<1>2. b * (a \div b) \in Int
  BY <1>1
<1> QED
  BY <1>1, <1>2

\* A position q of the frame, scaled to the device and back, is off by one, and by one more
\* for every 2048 pixels of the screen's side; never to the other direction.
LEMMA ScaledBack ==
  ASSUME NEW size \in Nat \ {0}, NEW q \in Int,
         NEW p, p = ((Scaled(q, size) + 2047) * size) \div 4096
  PROVE  p \in Int /\ p < q /\ q - p <= 1 + (size - 1) \div 2048
<1> DEFINE a == (q * 4096) \div size
           n == a * size
           e == (size - 1) \div 2048
<1>1. a \in Int /\ n \in Int /\ n <= q * 4096 /\ q * 4096 < n + size
  <2>1. q * 4096 \in Int
    OBVIOUS
  <2>2. a \in Int /\ size * a <= q * 4096 /\ q * 4096 < size * a + size
    BY <2>1, Quotient
  <2> QED
    BY <2>2
<1>2. (Scaled(q, size) + 2047) * size = n - size
  <2> HIDE DEF a
  <2>1. Scaled(q, size) + 2047 = a - 1
    BY <1>1 DEF Scaled, a
  <2> QED
    BY <1>1, <2>1
<1>3. e \in Int /\ size - 1 < 2048 * e + 2048
  <2>1. size - 1 \in Int /\ 2048 \in Nat \ {0}
    OBVIOUS
  <2> QED
    BY <2>1, Quotient
<1> HIDE DEF n, e
<1>4. p \in Int /\ 4096 * p <= n - size /\ n - size < 4096 * p + 4096
  <2>1. n - size \in Int /\ 4096 \in Nat \ {0} /\ p = (n - size) \div 4096
    BY <1>1, <1>2
  <2> QED
    BY <2>1, Quotient
<1>5. 4096 * p < 4096 * q
  BY <1>1, <1>4
<1>6. 4096 * q < 4096 * p + 4096 + 4096 * e + 4096
  BY <1>1, <1>3, <1>4
<1>7. p < q /\ q < p + 2 + e
  BY <1>3, <1>4, <1>5, <1>6
<1> QED
  BY <1>3, <1>4, <1>7 DEF e

\* So a pixel of a screen of up to 2048 is hit or missed by one, whether its own position
\* is scaled or, as where a turned frame is mirrored, the one behind it.
LEMMA Hits ==
  ASSUME NEW size \in Nat, size <= 2048, NEW x \in Int, NEW q \in Int,
         0 <= x, x < size, q = x \/ q = x + 1
  PROVE  x - Touched(Scaled(q, size), size) \in -1 .. 1
<1> DEFINE p == ((Scaled(q, size) + 2047) * size) \div 4096
<1>1. p \in Int /\ p < q /\ q - p <= 1 + (size - 1) \div 2048
  <2>1. size \in Nat \ {0}
    OBVIOUS
  <2> QED
    BY <2>1, ScaledBack
<1>2. (size - 1) \div 2048 = 0
  OBVIOUS
<1> HIDE DEF p
<1>3. p = q - 1
  BY <1>1, <1>2
<1>4. Touched(Scaled(q, size), size) = IF p < 0 THEN 0 ELSE IF p >= size THEN size - 1 ELSE p
  BY DEF Touched, p
<1> QED
  BY <1>3, <1>4

\* Every pixel of a screen is hit, in each of the four rotations.
Aimed(s, turned) ==
  \A x \in 0 .. s.w - 1, y \in 0 .. s.h - 1 :
    LET v == transform_touch_coordinates(FrameAt(x, y, s, turned), s, turned)
    IN /\ x - Touched(v[1], s.w) \in -1 .. 1
       /\ y - Touched(v[2], s.h) \in -1 .. 1

LEMMA EveryRotationIsAimed ==
  ASSUME NEW W \in Nat, W <= 2048, NEW H \in Nat, H <= 2048,
         NEW turned \in {0, 90, 180, 270}
  PROVE  Aimed([w |-> W, h |-> H], turned)
<1> DEFINE s == [w |-> W, h |-> H]
<1> SUFFICES ASSUME NEW x \in 0 .. W - 1, NEW y \in 0 .. H - 1
             PROVE  LET v == transform_touch_coordinates(FrameAt(x, y, s, turned), s, turned)
                    IN /\ x - Touched(v[1], W) \in -1 .. 1
                       /\ y - Touched(v[2], H) \in -1 .. 1
  BY DEF Aimed
<1>1. PICK q \in {x, x + 1}, r \in {y, y + 1} :
        transform_touch_coordinates(FrameAt(x, y, s, turned), s, turned)
          = <<Scaled(q, W), Scaled(r, H)>>
  <2>1. W - (W - 1 - x) = x + 1 /\ H - (H - 1 - y) = y + 1
    OBVIOUS
  <2>2. CASE turned = 0
    BY <2>2 DEF transform_touch_coordinates, FrameAt
  <2>3. CASE turned = 90
    BY <2>1, <2>3 DEF transform_touch_coordinates, FrameAt
  <2>4. CASE turned = 180
    BY <2>1, <2>4 DEF transform_touch_coordinates, FrameAt
  <2>5. CASE turned = 270
    BY <2>1, <2>5 DEF transform_touch_coordinates, FrameAt
  <2> QED
    BY <2>2, <2>3, <2>4, <2>5
<1>2. /\ x \in Int /\ q \in Int /\ 0 <= x /\ x < W /\ (q = x \/ q = x + 1)
      /\ y \in Int /\ r \in Int /\ 0 <= y /\ y < H /\ (r = y \/ r = y + 1)
  OBVIOUS
<1>3. x - Touched(Scaled(q, W), W) \in -1 .. 1
  BY <1>2, Hits
<1>4. y - Touched(Scaled(r, H), H) \in -1 .. 1
  BY <1>2, Hits
<1> QED
  BY <1>1, <1>3, <1>4

\* On screens of up to 2048 pixels to a side, turned with F4 at any time, a click touches the
\* pixel that the viewer sees under its pointer, or one beside it.
THEOREM TouchesHitWhatIsShown ==
  ASSUME \A size \in Sides : size <= 2048 PROVE Spec => []TouchesWhatIsShown
<1>1. ASSUME NEW s \in [w : Sides, h : Sides], NEW turned \in {0, 90, 180, 270}
      PROVE  Aimed(s, turned)
  <2>1. s = [w |-> s.w, h |-> s.h] /\ s.w \in Sides /\ s.h \in Sides
    OBVIOUS
  <2>2. \A size \in Sides : size \in Nat /\ size <= 2048
    BY ScreenAssumption
  <2> QED
    BY <2>1, <2>2, EveryRotationIsAimed
<1>2. TypeOK => TouchesWhatIsShown
  BY <1>1 DEF TypeOK, TouchesWhatIsShown, WellAimed, Aimed
<1> QED
  BY <1>2, TypesHold, PTL
=============================================================================
