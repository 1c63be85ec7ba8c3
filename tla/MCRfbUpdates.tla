---------------------------- MODULE MCRfbUpdates ----------------------------
EXTENDS RfbUpdates

\* A row of three pixels, which rotates to a column.
MCRow == {<<x, 0>> : x \in 0 .. 2}
MCColumn == {<<0, y>> : y \in 0 .. 2}
MCScreens == {MCRow, MCColumn}
MCRectangles == {MCRow, MCColumn, {<<0, 0>>}, {<<1, 0>>, <<2, 0>>}}
MCVectors == {<<1, 0>>, <<-1, 0>>}
MCCursor == {<<-1, 0>>, <<0, 0>>}
=============================================================================
