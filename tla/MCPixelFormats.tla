--------------------------- MODULE MCPixelFormats ---------------------------
EXTENDS PixelFormats

Device(bytes, offset, length) == [bytes |-> bytes, offset |-> offset, length |-> length]

\* Android's usual ones with fewer bits to a channel, and two of one byte.
MCDevices == {
  Device(2, RGB(5, 2, 0), RGB(2, 3, 2)), Device(4, RGB(0, 3, 5), RGB(3, 2, 2)),
  Device(1, RGB(5, 2, 0), RGB(3, 3, 2)), Device(1, RGB(0, 3, 6), RGB(3, 3, 2))}

\* The usual ones.
MCWide == {d \in MCDevices : d.bytes > 1}

Format(bpp, bigEndian, max, shift) ==
  [bitsPerPixel |-> bpp, depth |-> bpp, bigEndian |-> bigEndian, trueColour |-> TRUE,
   max |-> max, shift |-> shift]
Mapped(bpp) == [Format(bpp, FALSE, RGB(0, 0, 0), RGB(0, 0, 0)) EXCEPT !.trueColour = FALSE]

\* More and fewer shades than the devices have, the formats that they have
\* themselves, and these in the other byte order.
MCAsked == {
  Format(32, FALSE, RGB(15, 15, 15), RGB(16, 8, 0)), Format(32, TRUE, RGB(7, 3, 3), RGB(0, 3, 5)),
  Format(16, FALSE, RGB(3, 7, 3), RGB(5, 2, 0)), Format(16, TRUE, RGB(3, 7, 3), RGB(5, 2, 0)),
  Format(16, TRUE, RGB(15, 31, 15), RGB(10, 5, 0)), Format(8, TRUE, RGB(1, 1, 1), RGB(0, 1, 2)),
  Format(24, FALSE, RGB(15, 15, 15), RGB(16, 8, 0)), Mapped(8), Mapped(16)}
=============================================================================
