----------------------------- MODULE Encodings ------------------------------
(***************************************************************************)
(* How a piece of the picture travels: hextile, RRE, CoRRE and ZRLE as     *)
(* libvncserver encodes them and libvncclient reads them.  A message is a  *)
(* sequence of units, each a byte or a whole pixel, together with its size *)
(* in bytes.  Translation to the client's pixel format is left out.        *)
(***************************************************************************)
EXTENDS Integers, Sequences, FiniteSets, SequencesExt, FiniteSetsExt

CONSTANTS
  Colour,      \* the colours of the client's format
  Undefined,   \* what an uninitialised variable of the viewer holds
  PixelSizes,  \* the sizes of a pixel, in bytes, that clients ask for
  HextileArea, \* 16 * 16
  Tiles,       \* the hextiles that are sent, none of them larger
  Pictures,    \* the rectangles that are sent in the other encodings
  LongRun,     \* 255: the byte that says that a run's length goes on
  MaxPalette,  \* 127: the most colours of a palette for runs,
  MaxPacked    \* 16:  and for packed pixels

VARIABLES
  size,        \* of a pixel, in bytes
  hextile,     \* the colours that the server remembers from tile to tile
  viewer,      \* and those that the viewer remembers
  sent, got,   \* the last picture, at either end
  room         \* how many bytes were allowed for it, and taken

vars == <<size, hextile, viewer, sent, got, room>>

\* A picture: its width, its height, and its pixels row by row.
Picture(w, h, data) == [w |-> w, h |-> h, data |-> data]
Raw(p) == p.w * p.h * size
At(p, x, y) == p.data[y * p.w + x + 1]

\* FillRectangle
Fill(p, r, colour) ==
  [p EXCEPT !.data = [i \in DOMAIN @ |->
     LET x == (i - 1) % p.w  y == (i - 1) \div p.w
     IN IF r.x <= x /\ x < r.x + r.w /\ r.y <= y /\ y < r.y + r.h THEN colour ELSE @[i]]]

Blank(p) == [p EXCEPT !.data = [i \in DOMAIN @ |-> Undefined]]
Whole(p) == [x |-> 0, y |-> 0, w |-> p.w, h |-> p.h]

(***************************************************************************)
(* Subrectangles: hextile, RRE and CoRRE.                                  *)
(***************************************************************************)
\* The wider or the higher of two rectangles of one colour that begin at x, y.
Subrect(p, x, y) ==
  LET Same(i, j) == At(p, i, j) = At(p, x, y)
      Reach(j) == Max({i \in x .. p.w - 1 : \A k \in x .. i : Same(k, j)})
      vy == Max({j \in y .. p.h - 1 : \A k \in y .. j : Same(x, k)})
      vx == Min({Reach(j) : j \in y .. vy})
      hx == Reach(y)
      hy == Max({j \in y .. vy : \A k \in y .. j : Reach(k) >= hx})
      wide == [x |-> x, y |-> y, w |-> hx - x + 1, h |-> hy - y + 1]
      high == [x |-> x, y |-> y, w |-> vx - x + 1, h |-> vy - y + 1]
  IN IF wide.w * wide.h > high.w * high.h THEN wide ELSE high

\* subrectEncode: from pixel to pixel, each subrectangle is painted over with the
\* background; "fits" turns FALSE where it gives up.
Unencoded(p, header) == [left |-> p, subs |-> <<>>, len |-> header, fits |-> TRUE]

\* (mutant: no limit)
TooLong_Never(len, p) == FALSE

TooLong(len, p) == len > Raw(p)

Encode(e, i, bg, each) ==
  LET p == e.left
      r == Subrect(p, (i - 1) % p.w, (i - 1) \div p.w)
  IN CASE ~e.fits \/ p.data[i] = bg -> e
       [] e.fits /\ p.data[i] # bg /\ TooLong(e.len + each, p) -> [e EXCEPT !.fits = FALSE]
       [] OTHER -> [left |-> Fill(p, r, bg), len |-> e.len + each, fits |-> TRUE,
                    subs |-> Append(e.subs, [rect |-> r, colour |-> p.data[i]])]

subrectEncode(p, bg, header, each) ==
  FoldLeft(LAMBDA e, i : Encode(e, i, bg, each), Unencoded(p, header), [i \in DOMAIN p.data |-> i])

\* What the viewer paints.
Painted(p, subs) == FoldLeft(LAMBDA q, s : Fill(q, s.rect, s.colour), p, subs)

(***************************************************************************)
(* Hextile.                                                                *)
(***************************************************************************)
\* testColours: the first colour and the next, and whether there are others.
testColours(p) ==
  LET n == Len(p.data)
      first == p.data[1]
      others == {i \in 1 .. n : p.data[i] # first}
      second == p.data[Min(others)]
      third == {i \in others : p.data[i] # second}
      end == IF third = {} THEN n ELSE Min(third) - 1
      n1 == Cardinality(1 .. end \ others)
      n2 == Cardinality({i \in 1 .. end : i \in others})
      more == n1 > n2
  IN IF others = {} THEN [solid |-> TRUE, mono |-> TRUE, bg |-> first, fg |-> Undefined]
     ELSE [solid |-> FALSE, mono |-> third = {},
           bg |-> IF more THEN first ELSE second, fg |-> IF more THEN second ELSE first]

\* What the server knows the viewer to remember; Undefined: not valid.
Forgotten == [bg |-> Undefined, fg |-> Undefined]

\* (mutant: it believes that the background it chose was sent)
AfterRaw_Kept(mem) == mem

\* What the server remembers after it gave a tile up.
AfterRaw(mem) == Forgotten

\* (mutant: the foreground is thought to be valid still)
AfterColoured_Kept(mem) == mem

AfterColoured(mem) == [mem EXCEPT !.fg = Undefined]

\* sendHextiles, for one tile.
sendHextile(p) ==
  LET c == testColours(p)
      newBg == hextile.bg # c.bg
      withBg == [hextile EXCEPT !.bg = c.bg]
      newFg == c.mono /\ hextile.fg # c.fg
      mem == IF c.solid THEN withBg
             ELSE IF c.mono THEN [withBg EXCEPT !.fg = c.fg] ELSE AfterColoured(withBg)
      begin == 1 + (IF newBg THEN size ELSE 0) + (IF ~c.solid /\ newFg THEN size ELSE 0)
      e == subrectEncode(p, c.bg, 1, IF c.mono THEN 2 ELSE size + 2)
      head == [raw |-> FALSE, bg |-> IF newBg THEN c.bg ELSE Undefined,
               fg |-> IF ~c.solid /\ newFg THEN c.fg ELSE Undefined, coloured |-> ~c.mono]
      raw == [raw |-> TRUE, data |-> p.data]
  IN CASE c.solid -> [msg |-> head @@ [subs |-> <<>>], mem |-> mem, len |-> begin]
       [] ~c.solid /\ e.fits -> [msg |-> head @@ [subs |-> e.subs], mem |-> mem, len |-> begin + e.len]
       [] OTHER -> [msg |-> raw, mem |-> AfterRaw(mem), len |-> 1 + Raw(p)]

\* HandleHextile: the subrectangles' own colours end up in fg.
Heard(msg) ==
  IF msg.raw THEN viewer
  ELSE [bg |-> IF msg.bg = Undefined THEN viewer.bg ELSE msg.bg,
        fg |-> IF msg.coloured /\ msg.subs # <<>> THEN Last(msg.subs).colour
               ELSE IF msg.fg = Undefined THEN viewer.fg ELSE msg.fg]

HandleHextile(p, msg) ==
  IF msg.raw THEN [p EXCEPT !.data = msg.data]
  ELSE Painted(Fill(p, Whole(p), Heard(msg).bg),
               [i \in DOMAIN msg.subs |->
                  IF msg.coloured THEN msg.subs[i] ELSE [msg.subs[i] EXCEPT !.colour = Heard(msg).fg]])

SendHextile(p) ==
  LET s == sendHextile(p)
  IN /\ sent' = p
     /\ got' = HandleHextile(Blank(p), s.msg)
     /\ hextile' = s.mem
     /\ viewer' = Heard(s.msg)
     /\ room' = [allowed |-> 1 + (2 + HextileArea) * size, taken |-> s.len]
     /\ UNCHANGED size

(***************************************************************************)
(* RRE and CoRRE.                                                          *)
(***************************************************************************)
\* getBgColour: the first colour to reach the highest count, if pixels are bytes.
getBgColour(p) ==
  LET Count(i) == Cardinality({j \in 1 .. i : p.data[j] = p.data[i]})
      most == Max({Count(i) : i \in DOMAIN p.data})
  IN IF size # 1 THEN p.data[1]
     ELSE p.data[Min({i \in DOMAIN p.data : Count(i) = most})]

\* What the viewer makes of them: HandleRRE, HandleCoRRE.
HandleRRE(p, bg, subs) == Painted(Fill(p, Whole(p), bg), subs)

\* Each rectangle has its colour and its place, of the given size.  What does not fit is
\* sent as it is.
SendSubrects(p, coordinates) ==
  LET bg == getBgColour(p)
      e == subrectEncode(p, bg, size, size + coordinates)
  IN /\ sent' = p
     /\ got' = IF e.fits THEN HandleRRE(Blank(p), bg, e.subs) ELSE p
     /\ room' = [allowed |-> Raw(p), taken |-> IF e.fits THEN e.len ELSE Raw(p)]
     /\ UNCHANGED <<size, hextile, viewer>>

rfbSendRectEncodingRRE(p) == SendSubrects(p, 8)
rfbSendSmallRectEncodingCoRRE(p) == SendSubrects(p, 4)

(***************************************************************************)
(* ZRLE, without the stream compression around it.                         *)
(***************************************************************************)
\* The runs of a tile, which go on from row to row.
Runs(p) ==
  FoldLeft(LAMBDA runs, pix :
             IF runs # <<>> /\ Last(runs).pix = pix THEN [runs EXCEPT ![Len(runs)].len = @ + 1]
             ELSE Append(runs, [pix |-> pix, len |-> 1]),
           <<>>, p.data)

\* zrlePaletteHelperInsert, of each run's colour; zrlePaletteHelperLookup.  In a full table
\* no colour is looked for: one that it has counts once more, and is one too many.
Palette(runs) ==
  FoldLeft(LAMBDA pal, r : IF Len(pal) < MaxPalette /\ \E i \in DOMAIN pal : pal[i] = r.pix
                           THEN pal ELSE Append(pal, r.pix),
           <<>>, runs)
Lookup(palette, pix) == (CHOOSE i \in DOMAIN palette : palette[i] = pix) - 1

bitsPerPackedPixel(n) == CASE n <= 2 -> 1 [] n \in 3 .. 4 -> 2 [] OTHER -> 4

Cheaper(a, b) == IF b.bytes < a.bytes THEN b ELSE a

\* Which of the methods is estimated to take the fewest bytes.
Method(p, runs, n) ==
  LET singles == Cardinality({i \in DOMAIN runs : runs[i].len = 1})
      longer == Len(runs) - singles
      Way(rle, palette, bytes) == [rle |-> rle, palette |-> palette, bytes |-> bytes]
      plain == Cheaper(Way(FALSE, FALSE, Raw(p)), Way(TRUE, FALSE, (size + 1) * Len(runs)))
      paletteRle == Cheaper(plain, Way(TRUE, TRUE, size * n + 2 * longer + singles))
      packed == Way(FALSE, TRUE, size * n + (p.w * p.h * bitsPerPackedPixel(n)) \div 8)
  IN CASE n > MaxPalette -> plain
       [] n \in MaxPacked + 1 .. MaxPalette -> paletteRle
       [] OTHER -> Cheaper(paletteRle, packed)

\* (mutant: a run that ends with a full piece has no byte more)
LengthBytes_NoZero(n) ==
  [i \in 1 .. (n - 1) \div LongRun |-> LongRun]
    \o (IF n > 1 /\ (n - 1) % LongRun = 0 THEN <<>> ELSE <<(n - 1) % LongRun>>)

\* The bytes for a run's length: one less, in pieces of LongRun.
LengthBytes(n) == [i \in 1 .. (n - 1) \div LongRun |-> LongRun] \o <<(n - 1) % LongRun>>

\* A run in the message: a short one is only indices, if there is a palette.
RunFlag == 128
Written(r, palette) ==
  IF palette = <<>> THEN <<r.pix>> \o LengthBytes(r.len)
  ELSE IF r.len <= 2 THEN [i \in 1 .. r.len |-> Lookup(palette, r.pix)]
  ELSE <<Lookup(palette, r.pix) + RunFlag>> \o LengthBytes(r.len)

\* Packed pixels: each row begins with a byte of its own.
PerByte(n) == 8 \div bitsPerPackedPixel(n)

\* (mutant: the last byte of a row is not written unless it is full)
Stride_Full(p, n) == IF p.w < PerByte(n) THEN 1 ELSE p.w \div PerByte(n)

Stride(p, n) == (p.w + PerByte(n) - 1) \div PerByte(n)

Packed(p, palette) ==
  LET n == Len(palette)
      Index(x, y) == IF x < p.w THEN Lookup(palette, At(p, x, y)) ELSE 0
  IN [i \in 1 .. Stride(p, n) * p.h |->
        LET y == (i - 1) \div Stride(p, n)  b == (i - 1) % Stride(p, n)
        IN [k \in 0 .. PerByte(n) - 1 |-> Index(b * PerByte(n) + k, y)]]

\* zrleEncodeTile
zrleEncodeTile(p) ==
  LET runs == Runs(p)
      all == Palette(runs)
      way == Method(p, runs, Len(all))
      palette == IF way.palette THEN all ELSE <<>>
      body == IF way.rle THEN FlattenSeq([i \in DOMAIN runs |-> Written(runs[i], palette)])
              ELSE IF way.palette THEN Packed(p, palette) ELSE p.data
  IN IF Len(all) = 1 THEN [rle |-> FALSE, palette |-> all, body |-> <<>>, len |-> 1 + size]
     ELSE [rle |-> way.rle, palette |-> palette, body |-> body,
           len |-> 1 + size * Len(palette) + Len(body)
                     + CASE way.palette -> 0
                         [] ~way.palette /\ way.rle -> (size - 1) * Len(runs)
                         [] OTHER -> (size - 1) * Len(body)]

\* HandleZRLETile, the loops over runs: it reads on until the tile is full.
RECURSIVE Read(_, _, _)
Read(body, palette, missing) ==
  LET lone == palette # <<>> /\ Head(body) < RunFlag
      colour == IF palette = <<>> THEN Head(body) ELSE palette[(Head(body) % RunFlag) + 1]
      last == Min({i \in 2 .. Len(body) : body[i] # LongRun} \cup {Len(body) + 1})
      length == 1 + (last - 2) * LongRun + body[last]
      used == IF lone THEN 1 ELSE last
      run == IF lone THEN 1 ELSE Min({length, missing})
      rest == Read(SubSeq(body, used + 1, Len(body)), palette, missing - run)
  IN IF missing = 0 \/ body = <<>> \/ (~lone /\ last > Len(body)) THEN [data |-> <<>>, rest |-> body]
     ELSE [data |-> [i \in 1 .. run |-> colour] \o rest.data, rest |-> rest.rest]

\* Packed pixels are found where their row begins.
Unpacked(p, body, palette) ==
  LET n == Len(palette)
      Byte(x, y) == (y * ((p.w + PerByte(n) - 1) \div PerByte(n))) + (x \div PerByte(n)) + 1
      Found(x, y) == IF Byte(x, y) \in DOMAIN body
                     THEN palette[body[Byte(x, y)][x % PerByte(n)] + 1] ELSE Undefined
  IN [i \in 1 .. p.w * p.h |-> Found((i - 1) % p.w, (i - 1) \div p.w)]

HandleZRLETile(p, msg) ==
  CASE Len(msg.palette) = 1 -> [data |-> [i \in DOMAIN p.data |-> msg.palette[1]], rest |-> <<>>]
    [] msg.rle -> Read(msg.body, msg.palette, p.w * p.h)
    [] ~msg.rle /\ Len(msg.palette) > 1 ->
         [data |-> Unpacked(p, msg.body, msg.palette), rest |-> <<>>]
    [] OTHER -> [data |-> msg.body, rest |-> <<>>]

SendZRLE(p) ==
  LET msg == zrleEncodeTile(p)
      out == HandleZRLETile(Blank(p), msg)
  IN /\ sent' = p
     /\ got' = [p EXCEPT !.data = out.data \o out.rest]
     /\ room' = [allowed |-> 2 * Raw(p), taken |-> msg.len]
     /\ UNCHANGED <<size, hextile, viewer>>

-----------------------------------------------------------------------------
Nothing == Picture(0, 0, <<>>)
Unused == [allowed |-> 0, taken |-> 0]

Init ==
  /\ size \in PixelSizes
  /\ hextile = Forgotten /\ viewer = Forgotten
  /\ sent = Nothing /\ got = Nothing /\ room = Unused

\* The loop goes on with the next tile, or the next rectangle.
GoOn ==
  /\ sent # Nothing
  /\ sent' = Nothing /\ got' = Nothing /\ room' = Unused
  /\ \/ UNCHANGED <<size, hextile, viewer>>
     \/ hextile' = Forgotten /\ viewer' = Forgotten /\ UNCHANGED size

\* (Those without a memory need no history.)
Next ==
  \/ sent = Nothing /\ \E p \in Tiles : SendHextile(p)
  \/ /\ sent = Nothing /\ hextile = Forgotten /\ viewer = Forgotten
     /\ \E p \in Pictures : rfbSendRectEncodingRRE(p) \/ rfbSendSmallRectEncodingCoRRE(p) \/ SendZRLE(p)
  \/ GoOn

Spec == Init /\ [][Next]_vars

-----------------------------------------------------------------------------
\* Whatever was sent before, the viewer paints the picture that the server took; and no
\* encoding takes more than the buffer that was laid out for it, at either end.
PictureArrives == got = sent /\ room.taken <= room.allowed
=============================================================================
