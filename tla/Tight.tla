------------------------------- MODULE Tight --------------------------------
(***************************************************************************)
(* The Tight encoding of one rectangle: a palette is looked for, and then  *)
(* the pixels go through one of the filters.  The stream compression, and  *)
(* JPEG, which does not keep the picture, are left out.                    *)
(***************************************************************************)
EXTENDS Encodings

CONSTANTS
  Shades,          \* pictures that DetectSmoothImage may call smooth
  MaxShade,        \* the most a colour component can be
  MinToCompress,   \* TIGHT_MIN_TO_COMPRESS: shorter data is not compressed
  ColorsDivisor,   \* idxMaxColorsDivisor and
  MonoMinRectSize  \* monoMinRectSize of the compression level

\* A pixel of 32 bits with a depth of 24 takes three bytes.
Sample == IF size = 4 THEN 3 ELSE size

\* The colours of the palette, those with most pixels first, and where each of them
\* believes to be.
NoPalette == [full |-> FALSE, entry |-> <<>>, idx |-> <<>>]

\* (mutant: those that made room are not told)
Reindexed_Stale(entry, idx) ==
  [c \in {entry[i].rgb : i \in DOMAIN entry} |->
     IF c \in DOMAIN idx THEN idx[c] ELSE CHOOSE i \in DOMAIN entry : entry[i].rgb = c]

Reindexed(entry, idx) ==
  [c \in {entry[i].rgb : i \in DOMAIN entry} |-> CHOOSE i \in DOMAIN entry : entry[i].rgb = c]

\* An entry is put before those at the end that have less pixels.
Ranked(entry, e) ==
  LET at == Min({j \in 1 .. Len(entry) + 1 : \A k \in j .. Len(entry) : entry[k].n < e.n})
  IN InsertAt(entry, at, e)

PaletteInsert(pal, rgb, n, most) ==
  IF rgb \in DOMAIN pal.idx
  THEN LET i == pal.idx[rgb]
           above == Ranked(SubSeq(pal.entry, 1, i - 1), [rgb |-> rgb, n |-> pal.entry[i].n + n])
           entry == above \o SubSeq(pal.entry, i + 1, Len(pal.entry))
       IN [pal EXCEPT !.entry = entry, !.idx = Reindexed(entry, pal.idx)]
  ELSE IF pal.full \/ Len(pal.entry) = most THEN [pal EXCEPT !.full = TRUE]
  ELSE LET entry == Ranked(pal.entry, [rgb |-> rgb, n |-> n])
       IN [pal EXCEPT !.entry = entry, !.idx = Reindexed(entry, pal.idx)]

\* paletteMaxColors
MaxColors(p) ==
  LET most == (p.w * p.h) \div ColorsDivisor
  IN IF most < 2 /\ p.w * p.h >= MonoMinRectSize THEN 2 ELSE most

\* FillPalette: none, one or two colours, or a palette of more.  (Of the second colour
\* the first pixel is not counted.)
FillPalette(p) ==
  LET n == Len(p.data)
      c0 == p.data[1]
      others == {i \in 1 .. n : p.data[i] # c0}
      c1 == p.data[Min(others)]
      third == {i \in others : p.data[i] # c1}
      end == IF third = {} THEN n ELSE Min(third) - 1
      n1 == Cardinality({i \in others : i <= end}) - 1
      n0 == end - n1 - 1
      two == PaletteInsert(PaletteInsert(NoPalette, c0, n0, MaxColors(p)), c1, n1, MaxColors(p))
      rest == Runs([p EXCEPT !.data = SubSeq(@, end + 1, n)])
      all == FoldLeft(LAMBDA pal, r : PaletteInsert(pal, r.pix, r.len, MaxColors(p)), two, rest)
  IN CASE others = {} -> [colours |-> 1, palette |-> <<c0>>]
       [] others # {} /\ third = {} /\ MaxColors(p) >= 2 ->
            [colours |-> 2, palette |-> IF n0 > n1 THEN <<c0, c1>> ELSE <<c1, c0>>]
       [] third # {} /\ size # 1 /\ MaxColors(p) >= 2 /\ ~all.full ->
            [colours |-> Len(all.entry), idx |-> all.idx,
             palette |-> [i \in DOMAIN all.entry |-> all.entry[i].rgb]]
       [] OTHER -> [colours |-> 0, palette |-> <<>>]

\* FilterGradient: from row to row, the difference to what the neighbours suggest.
Clamped(n) == IF n < 0 THEN 0 ELSE IF n > MaxShade THEN MaxShade ELSE n

Neighbour(p, done, dx, dy) ==
  LET i == Len(done)
  IN IF (dx = 1 /\ i % p.w = 0) \/ (dy = 1 /\ i < p.w) THEN 0 ELSE done[i + 1 - dx - dy * p.w]

Prediction(p, done) ==
  Clamped(Neighbour(p, done, 1, 0) + Neighbour(p, done, 0, 1) - Neighbour(p, done, 1, 1))

FilterGradient(p) ==
  [i \in DOMAIN p.data |->
     (p.data[i] - Prediction(p, SubSeq(p.data, 1, i - 1))) % (MaxShade + 1)]

\* The viewer's: a row begins with the pixel above it alone.
Estimate(p, done) ==
  IF Len(done) % p.w = 0 THEN Neighbour(p, done, 0, 1) ELSE Prediction(p, done)

UnfilterGradient(p, diffs) ==
  FoldLeft(LAMBDA done, d : Append(done, (Estimate(p, done) + d) % (MaxShade + 1)), <<>>, diffs)

\* SendSubrect, and the filters: what is sent, and how long the server says that it is.
SendSubrect(p, smooth) ==
  LET pal == FillPalette(p)
      Index(c) == pal.idx[c] - 1
  IN CASE pal.colours = 0 /\ smooth /\ size # 1 ->
            [filter |-> "gradient", body |-> FilterGradient(p), dataLen |-> p.w * p.h * Sample]
       [] pal.colours = 0 /\ ~(smooth /\ size # 1) ->
            [filter |-> "copy", body |-> p.data, dataLen |-> p.w * p.h * Sample]
       [] pal.colours = 1 -> [filter |-> "fill", palette |-> pal.palette, dataLen |-> Sample]
       [] pal.colours = 2 ->
            [filter |-> "palette", palette |-> pal.palette, body |-> Packed(p, pal.palette),
             dataLen |-> ((p.w + 7) \div 8) * p.h]
       [] OTHER ->
            [filter |-> "palette", palette |-> pal.palette, dataLen |-> p.w * p.h,
             body |-> [i \in DOMAIN p.data |-> Index(p.data[i])]]

\* HandleTight: the viewer works out for itself whether the data is compressed.
BitsPixel(msg) ==
  CASE msg.filter # "palette" -> 8 * Sample
    [] msg.filter = "palette" /\ Len(msg.palette) = 2 -> 1
    [] OTHER -> 8

Unfiltered(p, msg) ==
  CASE msg.filter = "copy" -> msg.body
    [] msg.filter = "gradient" -> UnfilterGradient(p, msg.body)
    [] msg.filter = "palette" /\ Len(msg.palette) = 2 -> Unpacked(p, msg.body, msg.palette)
    [] OTHER -> [i \in DOMAIN msg.body |-> msg.palette[msg.body[i] + 1]]

HandleTight(p, msg) ==
  LET rowSize == (p.w * BitsPixel(msg) + 7) \div 8
      agreed == (p.h * rowSize < MinToCompress) <=> (msg.dataLen < MinToCompress)
  IN CASE msg.filter = "fill" -> Fill(p, Whole(p), msg.palette[1])
       [] msg.filter # "fill" /\ agreed -> [p EXCEPT !.data = Unfiltered(p, msg)]
       [] OTHER -> p

SendTight(p, smooth) ==
  LET msg == SendSubrect(p, smooth)
  IN /\ sent' = p
     /\ got' = HandleTight(Blank(p), msg)
     /\ room' = [allowed |-> p.w * p.h * size, taken |-> msg.dataLen]
     /\ UNCHANGED <<size, hextile, viewer>>

TightNext ==
  \/ Next
  \/ /\ sent = Nothing /\ hextile = Forgotten /\ viewer = Forgotten
     /\ \E p \in Pictures \cup Shades : SendTight(p, FALSE)
  \/ /\ sent = Nothing /\ hextile = Forgotten /\ viewer = Forgotten
     /\ \E p \in Shades : SendTight(p, TRUE)

TightSpec == Init /\ [][TightNext]_vars
=============================================================================
