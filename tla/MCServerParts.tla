--------------------------- MODULE MCServerParts ----------------------------
(***************************************************************************)
(* What the server does for the clients it serves: it lets them use the    *)
(* pointer and the keyboard; and an update goes through steps, one after   *)
(* the other: regions are put together, their rectangles are split, pixels *)
(* are translated, and the pieces are encoded, some of them as jpeg.  None *)
(* of these reads what another writes: each has inputs of its own here.    *)
(***************************************************************************)
EXTENDS Input, Regions, Tight, Rectangles, JpegRows, MCPixelFormats

VARIABLE part \* which of them, from the beginning to the end

allVars == <<inputVars, regionVars, vars, updateVars, rowVars, pixelVars, part>>

\* What would multiply the other parts begins in one way for them.
MCInit ==
  /\ part \in {"input", "regions", "rectangles", "pixels", "encodings", "jpeg"}
  /\ InputInit /\ RegionInit /\ Init /\ UpdateInit /\ PixelInit
  /\ part = "encodings" \/ size = 1
  /\ part = "pixels" \/ scrinfo = CHOOSE d \in Devices : d.bytes = 4
  /\ IF part = "jpeg" THEN RowInit ELSE writer = Idle /\ reader = Idle

MCNext ==
  /\ UNCHANGED part
  /\ \/ part = "input" /\ InputNext
        /\ UNCHANGED <<regionVars, vars, updateVars, rowVars, pixelVars>>
     \/ part = "regions" /\ RegionNext
        /\ UNCHANGED <<inputVars, vars, updateVars, rowVars, pixelVars>>
     \/ part = "rectangles" /\ UpdateNext
        /\ UNCHANGED <<inputVars, regionVars, vars, rowVars, pixelVars>>
     \/ part = "pixels" /\ PixelNext
        /\ UNCHANGED <<inputVars, regionVars, vars, updateVars, rowVars>>
     \/ part = "encodings" /\ TightNext
        /\ UNCHANGED <<inputVars, regionVars, updateVars, rowVars, pixelVars>>
     \/ part = "jpeg" /\ RowNext
        /\ UNCHANGED <<inputVars, regionVars, vars, updateVars, pixelVars>>
     \* The process has ended.
     \/ ~running /\ UNCHANGED <<inputVars, regionVars, vars, updateVars, rowVars, pixelVars>>

MCSpec ==
  /\ MCInit /\ [][MCNext]_allVars
  /\ WF_inputVars(part = "input" /\ Timeout) /\ WF_inputVars(part = "input" /\ ClientsGone)

-----------------------------------------------------------------------------
MCOffsets == {<<1, 0>>, <<-1, 0>>, <<0, 1>>, <<0, -1>>, <<1, 1>>, <<-1, 1>>}

-----------------------------------------------------------------------------
MCScreen == [w |-> 6, h |-> 5]
MCScales == {MCScreen, [w |-> 3, h |-> 2], [w |-> 4, h |-> 4]}
MCCorreMax == [w |-> 3, h |-> 2]
MCLevels == {[maxRectSize |-> s[1], maxRectWidth |-> s[2]] : s \in {<<4, 4>>, <<6, 4>>, <<12, 3>>}}

MCAreas ==
  {<<Box(0, 0, 6, 5)>>, <<Box(1, 1, 5, 4)>>, <<Box(2, 0, 3, 5)>>, <<Box(5, 4, 1, 1)>>,
   <<Box(0, 0, 4, 2), Box(0, 2, 3, 3)>>, <<Box(1, 0, 1, 3), Box(4, 0, 2, 3), Box(0, 3, 6, 1)>>}

\* Two rectangles of one colour each, where every other pixel has a colour of its own.
Boxes(s) == {Box(x1, y1, x2 - x1, y2 - y1) : <<x1, x2, y1, y2>> \in
              {q \in (0 .. s.w) \X (0 .. s.w) \X (0 .. s.h) \X (0 .. s.h) : q[1] < q[2] /\ q[3] < q[4]}}
Scene(s, a, b) ==
  [p \in (0 .. s.w - 1) \X (0 .. s.h - 1) |->
     IF p \in Pixels(a) THEN <<>> ELSE IF p \in Pixels(b) THEN <<0>> ELSE p]
Second == {Box(1, 2, 3, 2), Box(2, 0, 4, 5)}
MCScenes == [s \in MCScales |-> {Scene(s, a, b) : a \in Boxes(s), b \in Second}]

-----------------------------------------------------------------------------
\* Every hextile of two by two, and its parts at the edges of a rectangle.
MCTiles == {Picture(2, 2, d) : d \in [1 .. 4 -> 0 .. 2]}
  \cup {Picture(s[1], s[2], d) : s \in {<<1, 2>>, <<2, 1>>}, d \in [1 .. 2 -> 0 .. 2]}

\* Pictures in which each new colour is the next one: only which are equal matters.
Fresh(d) == \A m \in DOMAIN d : d[m] = 0 \/ \E j \in 1 .. m - 1 : d[j] = d[m] - 1
Fresh4x2 == {d \in [1 .. 8 -> 0 .. 3] : Fresh(d)}
Fresh3x3 == {d \in [1 .. 9 -> 0 .. 2] : Fresh(d)}
Fresh5x1 == {d \in [1 .. 5 -> 0 .. 4] : Fresh(d)}
MCPictures ==
  {Picture(4, 2, d) : d \in Fresh4x2} \cup {Picture(3, 3, d) : d \in Fresh3x3}
    \cup {Picture(s[1], s[2], d) : s \in {<<5, 1>>, <<1, 5>>}, d \in Fresh5x1}

\* Here the values matter.
MCShades == {Picture(3, 2, d) : d \in [1 .. 6 -> 0 .. 3]}

-----------------------------------------------------------------------------
\* Three of the reader's longest iMCU rows, and a part of one.
MCHeights == 1 .. 13
=============================================================================
