---------------------------- MODULE ScreenMirror ----------------------------
(***************************************************************************)
(* What a viewer is promised while the server's picture changes: a pixel   *)
(* of the viewer changes only to what the server shows there at that       *)
(* moment, so that it may be late but is never invented.  Where a viewer   *)
(* has been sent nothing since it allocated its frame, the frame is blank. *)
(***************************************************************************)
CONSTANTS
  Pixel, Colour,
  Cursor,   \* the pixels where the server draws its pointer
  Pointer,  \* what the pointer looks like
  Blank     \* what a fresh frame of the viewer holds

VARIABLES
  picture,  \* the server's pixels
  shown     \* the viewer's

vars == <<picture, shown>>

Init == picture \in [Pixel -> Colour] /\ shown = [p \in Pixel |-> Blank]

Change == picture' \in [Pixel -> Colour] /\ UNCHANGED shown

May(p) == {shown[p], picture[p], Blank} \cup IF p \in Cursor THEN {Pointer} ELSE {}

Refresh ==
  /\ shown' \in [Pixel -> Colour \cup {Pointer, Blank}]
  /\ \A p \in Pixel : shown'[p] \in May(p)
  /\ UNCHANGED picture

Next == Change \/ Refresh

Spec == Init /\ [][Next]_vars
=============================================================================
