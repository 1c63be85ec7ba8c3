---------------------------- MODULE PixelFormats ----------------------------
(***************************************************************************)
(* The translation of pixels: translate.c, and the templates it includes,  *)
(* build tables from the format of the screen to the one that a client has *)
(* asked for, and the encoders look every pixel up in them.  F4 makes      *)
(* fbvncserver announce a new frame, whose format the library works out    *)
(* anew, and puts the shifts and maxima of the device back afterwards.     *)
(*                                                                         *)
(* A table is what it is built from: the two formats.  The screen is one   *)
(* of a little-endian machine and has true colours, as fbvncserver's has.  *)
(***************************************************************************)
EXTENDS Integers, SequencesExt

LOCAL INSTANCE Bitwise

CONSTANTS
  Clients,
  Devices,  \* what scrinfo may say: bytes of a pixel, offsets and lengths
  Asked,    \* the formats that clients ask for
  Garbage   \* a value that C leaves undefined

Channel == {"red", "green", "blue"}
RGB(r, g, b) == [red |-> r, green |-> g, blue |-> b]

ASSUME PixelAssumption ==
  /\ \A d \in Devices : d.bytes \in {1, 2, 4}
  /\ \A f \in Asked, a, b \in Channel :
       f.trueColour /\ a # b => (f.max[a] * 2 ^ f.shift[a]) & (f.max[b] * 2 ^ f.shift[b]) = 0

VARIABLES
  scrinfo,      \* the framebuffer of the device
  serverFormat, \* of the screen
  open,         \* the clients
  format,       \* client -> its format, as the server has it
  translation,  \* client -> translateFn and translateLookupTable
  decodes,      \* client -> the format it takes the pixels to have
  stale         \* history: the clients that have not asked for a format since F4

pixelVars == <<scrinfo, serverFormat, open, format, translation, decodes, stale>>

-----------------------------------------------------------------------------
(* Formats.                                                                *)

rfbInitServerFormat(bytes, bitsPerSample) ==
  LET most == 2 ^ bitsPerSample - 1
  IN [bitsPerPixel |-> 8 * bytes, depth |-> 8 * bytes, bigEndian |-> FALSE, trueColour |-> TRUE,
      max   |-> IF bytes = 1 THEN RGB(7, 7, 3) ELSE RGB(most, most, most),
      shift |-> IF bytes = 1 THEN RGB(0, 3, 6) ELSE RGB(0, bitsPerSample, 2 * bitsPerSample)]

\* What fbvncserver makes of it, once the library has worked it out.
OfDevice(f, device) ==
  [f EXCEPT !.shift = device.offset, !.max = [c \in Channel |-> 2 ^ device.length[c] - 1]]

BGR233Format ==
  [bitsPerPixel |-> 8, depth |-> 8, bigEndian |-> FALSE, trueColour |-> TRUE,
   max |-> RGB(7, 7, 3), shift |-> RGB(0, 3, 6)]

\* The colour map that rfbSetClientColourMapBGR233 sends.
BGR233Map(index) ==
  RGB(((index % 8) * 65535) \div 7, (((index \div 8) % 8) * 65535) \div 7, ((index \div 64) * 65535) \div 3)

\* (mutant: formats of any byte order are the same)
PF_EQ_AnyOrder(x, y) ==
  /\ x.bitsPerPixel = y.bitsPerPixel /\ x.depth = y.depth
  /\ x.trueColour = y.trueColour
  /\ x.trueColour => x.max = y.max /\ x.shift = y.shift

PF_EQ(x, y) ==
  /\ x.bitsPerPixel = y.bitsPerPixel /\ x.depth = y.depth
  /\ x.bigEndian = y.bigEndian \/ x.bitsPerPixel = 8
  /\ x.trueColour = y.trueColour
  /\ x.trueColour => x.max = y.max /\ x.shift = y.shift

\* A channel of a pixel: (v >> shift) & max.
Extract(f, c, v) == (v \div 2 ^ f.shift[c]) % (f.max[c] + 1)

Bytes(v, n) == [k \in 1 .. n |-> (v \div 256 ^ (k - 1)) % 256]
FromBytes(b) == FoldRight(LAMBDA byte, v : 256 * v + byte, b, 0)

\* Swap16, Swap32, and what the 24 bit templates do.
Swapped(v, f) == FromBytes(Reverse(Bytes(v, f.bitsPerPixel \div 8)))

-----------------------------------------------------------------------------
(* Tables.                                                                 *)

Rounded(v, inMax, outMax) == (v * outMax + inMax \div 2) \div inMax

\* The value of a channel, in its place.  C does not define a division by 0:
\* what is done with the result is not the colour that was meant.
Entry(t, c, v) ==
  IF t.in.max[c] = 0 THEN Garbage
  ELSE Rounded(v, t.in.max[c], t.out.max[c]) * 2 ^ t.out.shift[c]

Joined(a, b) == IF Garbage \in {a, b} THEN Garbage ELSE a | b
Channels(F(_)) == Joined(Joined(F("red"), F("green")), F("blue"))

Stored(t, v) == IF v = Garbage \/ t.in.bigEndian = t.out.bigEndian THEN v ELSE Swapped(v, t.out)

\* rfbInitTrueColourSingleTable: an entry for every pixel.
SingleEntry(t, v) ==
  LET Of(c) == Entry(t, c, Extract(t.in, c, v))
  IN Stored(t, Channels(Of))

\* Where the table of a channel begins, when there are three.
Begins(f) == RGB(0, f.max["red"] + 1, f.max["red"] + f.max["green"] + 2)

\* rfbInitTrueColourRGBTables: one table after the other; there is nothing to
\* be read behind the last.
Cell(t, p) ==
  LET Inside(c) == p - Begins(t.in)[c] \in 0 .. t.in.max[c]
  IN IF \E c \in Channel : Inside(c)
     THEN LET c == CHOOSE c \in Channel : Inside(c)
          IN Stored(t, Entry(t, c, p - Begins(t.in)[c]))
     ELSE Garbage

CellByte(t, p) ==
  LET v == Cell(t, p \div 3) IN IF v = Garbage THEN v ELSE Bytes(v, 3)[(p % 3) + 1]

\* rfbTranslateWithRGBTablesINtoOUT: the format is the screen's of now.
LookedUp(t, c, v) == Cell(t, Begins(serverFormat)[c] + Extract(serverFormat, c, v))

\* rfbTranslateWithRGBTablesINto24: a table begins at every third byte that it
\* did above, but an entry is looked for at every byte.
LookedUp24(t, c, v) == CellByte(t, 3 * Begins(serverFormat)[c] + Extract(serverFormat, c, v))

\* What translateFn makes of a pixel of the frame.
Translated(t, v) ==
  LET Looked(c) == IF t.out.bitsPerPixel = 24 THEN LookedUp24(t, c, v) ELSE LookedUp(t, c, v)
  IN CASE t.by = "none"   -> v
       [] t.by = "single" -> SingleEntry(t, v)
       [] t.by = "three"  -> Channels(Looked)

\* rfbSetTranslateFunction, for a format with true colours.
Translation(server, f) ==
  [by  |-> CASE PF_EQ(f, server)           -> "none"
             [] server.bitsPerPixel <= 16  -> "single"
             [] OTHER                      -> "three",
   in  |-> server, out |-> f]

Accepted(f) == f.bitsPerPixel \in {8, 16, 24, 32} /\ (f.trueColour \/ f.bitsPerPixel = 8)

\* A client with a colour map is sent one that amounts to BGR233.
TrueColours(f) == IF f.trueColour THEN f ELSE BGR233Format

-----------------------------------------------------------------------------
(* The server.                                                             *)

NoTranslation == [by |-> "none", in |-> BGR233Format, out |-> BGR233Format]

\* init_fb_server
PixelInit ==
  /\ scrinfo \in Devices
  /\ serverFormat = OfDevice(rfbInitServerFormat(scrinfo.bytes, 0), scrinfo)
  /\ open = {} /\ stale = {}
  /\ format = [c \in Clients |-> BGR233Format] /\ decodes = format
  /\ translation = [c \in Clients |-> NoTranslation]

\* rfbNewClient, and the ServerInit that tells the client its format.
Joins(c) ==
  /\ c \notin open /\ open' = open \cup {c}
  /\ format' = [format EXCEPT ![c] = serverFormat]
  /\ decodes' = [decodes EXCEPT ![c] = serverFormat]
  /\ translation' = [translation EXCEPT ![c] = NoTranslation]
  /\ UNCHANGED <<scrinfo, serverFormat, stale>>

SetPixelFormat(c, f) ==
  /\ c \in open /\ Accepted(f)
  /\ format' = [format EXCEPT ![c] = TrueColours(f)]
  /\ decodes' = [decodes EXCEPT ![c] = f]
  /\ translation' = [translation EXCEPT ![c] = Translation(serverFormat, TrueColours(f))]
  /\ stale' = stale \ {c}
  /\ UNCHANGED <<scrinfo, serverFormat, open>>

Gone(clients) ==
  /\ open' = open \ clients /\ stale' = stale \ clients
  /\ format' = [c \in Clients |-> IF c \in clients THEN BGR233Format ELSE format[c]]
  /\ decodes' = [c \in Clients |-> IF c \in clients THEN BGR233Format ELSE decodes[c]]
  /\ translation' = [c \in Clients |-> IF c \in clients THEN NoTranslation ELSE translation[c]]
  /\ UNCHANGED <<scrinfo, serverFormat>>

\* It asks for a format that the server cannot translate to.
Refuse(c, f) == c \in open /\ ~Accepted(f) /\ Gone({c})

Leave(c) == c \in open /\ Gone({c})

\* What rfbNewFramebuffer works out from the bitsPerSample that it is given.
NewFormat == rfbInitServerFormat(scrinfo.bytes, 0)

\* rotate, after F4: rfbNewFramebuffer gives every client a new table if the
\* format has changed.
rotate ==
  /\ open # {}
  /\ translation' = [c \in Clients |->
       IF c \in open /\ NewFormat # serverFormat THEN Translation(NewFormat, format[c]) ELSE translation[c]]
  /\ stale' = IF NewFormat # serverFormat THEN open ELSE stale
  /\ serverFormat' = OfDevice(NewFormat, scrinfo)
  /\ UNCHANGED <<scrinfo, open, format, decodes>>

\* Where a division by 0 is a signal, the server is gone, and with it its
\* clients; what runs next is a server that was started again.
DivisionTrap ==
  /\ \E c \in open, ch \in Channel :
       Translation(NewFormat, format[c]).by # "none" /\ NewFormat.max[ch] = 0
  /\ Gone(open)

PixelNext ==
  \/ rotate \/ DivisionTrap
  \/ \E c \in Clients :
       Joins(c) \/ Leave(c) \/ \E f \in Asked : SetPixelFormat(c, f) \/ Refuse(c, f)

PixelSpec == PixelInit /\ [][PixelNext]_pixelVars

-----------------------------------------------------------------------------
\* Every colour of the device, as a pixel of the frame.
FramePixels ==
  LET Values(c) == 0 .. 2 ^ scrinfo.length[c] - 1
      Put(c, v) == v * 2 ^ scrinfo.offset[c]
  IN {Put("red", r) + Put("green", g) + Put("blue", b) :
        r \in Values("red"), g \in Values("green"), b \in Values("blue")}

\* What a client makes of the value that it is sent.
Seen(f, w) ==
  LET v == IF f.bigEndian THEN Swapped(w, f) ELSE w
  IN IF f.trueColour THEN [c \in Channel |-> Extract(f, c, v)] ELSE BGR233Map(v)

\* What it can show of a channel, and what of that is the brightest.
Tones(f, c) == IF f.trueColour THEN 0 .. f.max[c] ELSE {BGR233Map(v)[c] : v \in 0 .. 255}
Brightest(f, c) == IF f.trueColour THEN f.max[c] ELSE 65535

Distance(a, b) == IF a > b THEN a - b ELSE b - a

\* None of its colours is closer to the pixel's.
IsNearest(f, v, w) ==
  /\ w # Garbage
  /\ \A c \in Channel :
       LET most == 2 ^ scrinfo.length[c] - 1
           Off(s) == Distance(s * most, ((v \div 2 ^ scrinfo.offset[c]) % (most + 1)) * Brightest(f, c))
       IN \A s \in Tones(f, c) : Off(Seen(f, w)[c]) <= Off(s)

SeesTheColours(c) == \A v \in FramePixels : IsNearest(decodes[c], v, Translated(translation[c], v))

(* "0 /* not used */", says fbvncserver of the bits per sample that it gives *)
(* to rfbNewFramebuffer: if so, F4 leaves every client with the colours of   *)
(* the frame (rotate).                                                       *)
ColoursArrive == \A c \in open : SeesTheColours(c)

\* The tables that are looked up as if an entry were one byte.
Bytewise(t) == t.by = "three" /\ t.out.bitsPerPixel = 24

(* Whatever formats, byte orders and colour maps the clients ask for, in     *)
(* whatever order they come and go, each shows every colour of the frame by  *)
(* the nearest one it has, if it has asked for its format since F4 was last  *)
(* pressed, and not for one of 24 bits of a screen of 32                     *)
(* (rfbSetTranslateFunction, tableinittctemplate.c, tabletranstemplate.c).   *)
ColoursAreNearest ==
  \A c \in open \ stale : Bytewise(translation[c]) \/ SeesTheColours(c)
=============================================================================
