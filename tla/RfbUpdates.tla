----------------------------- MODULE RfbUpdates -----------------------------
(***************************************************************************)
(* How libvncserver keeps the pictures of its clients up to date: for each *)
(* client the regions that were modified, that wait to be copied by a      *)
(* CopyRect, and that the client requested, from the change of the         *)
(* framebuffer to rfbSendFramebufferUpdate.                                *)
(*                                                                         *)
(* A region is the set of its pixels (module Regions has the lists of      *)
(* spans behind them), and a pixel that is sent arrives.  One thread runs  *)
(* all of this.  The framebuffer has the size that the clients see:        *)
(* Rectangles has the scaled screens.  The server's pointer never moves,  *)
(* since fbvncserver installs its own ptrAddEvent; the states of keyboard  *)
(* and protocol that ride on an update are left out.                       *)
(***************************************************************************)
EXTENDS Integers

CONSTANTS
  Clients,
  Screens,    \* the sets of pixels that the screen may have
  Rectangles, \* the sets of pixels that are requested, drawn or copied to
  Vectors,    \* the translations of the copies
  Cursor,     \* the pixels of the server's pointer; it may exceed the screen
  Colour,
  Pointer,    \* what a pixel of the pointer looks like
  Blank,      \* what a fresh frame of a client holds
  Encodings,  \* what a client may ask for
  MaxChanges  \* bound: drawings, copies, resizings and messages of the clients

Pixel == UNION Screens

ASSUME RfbUpdatesAssumption ==
  /\ \A s \in Screens : s \subseteq Int \X Int
  /\ Vectors \subseteq Int \X Int
  /\ Cursor \subseteq Int \X Int
  /\ Colour # {} /\ Pointer \notin Colour /\ Blank \notin Colour /\ Pointer # Blank
  /\ Encodings \subseteq {"CopyRect", "NewFBSize", "Cursor"}
  /\ MaxChanges \in Nat

VARIABLES
  screen,    \* the pixels of the rfbScreen
  fb,        \* frameBuffer
  changes,   \* changes and messages so far
  connected, \* the clients in the list of the screen
  encodings, \* [client -> useCopyRect, useNewFBSize, enableCursorShapeUpdates]
  modified, requested, copy,  \* the client's three regions
  delta,     \* copyDX and copyDY
  resize,    \* newFBSizePending
  shape,     \* cursorWasChanged
  deferring, \* startDeferring is set
  view,      \* what the client shows
  area,      \* the size of its frame
  lost       \* the pixels it has not been sent since it allocated that frame

server == <<screen, fb>>
client == <<connected, encodings, modified, requested, copy, delta, resize,
            shape, deferring, view, area, lost>>
vars == <<server, changes, client>>

NoMove == <<0, 0>>
From(p, d) == <<p[1] - d[1], p[2] - d[2]>>

\* sraRgnOffset
Offset(region, d) == {<<p[1] + d[1], p[2] + d[2]>> : p \in region}

\* sraRgnBBox
BBox(region) ==
  {p \in screen : \A k \in {1, 2} : \E a, b \in region : a[k] <= p[k] /\ p[k] <= b[k]}

Nowhere == [c \in Clients |-> {}]
No == [c \in Clients |-> FALSE]
Fresh == [p \in Pixel |-> Blank]

Init ==
  /\ screen \in Screens /\ fb \in [screen -> Colour] /\ changes = 0
  /\ connected = {} /\ encodings = Nowhere
  /\ modified = Nowhere /\ requested = Nowhere /\ copy = Nowhere
  /\ delta = [c \in Clients |-> NoMove]
  /\ resize = No /\ shape = No /\ deferring = No
  /\ view = [c \in Clients |-> Fresh] /\ area = Nowhere /\ lost = Nowhere

Another == changes < MaxChanges /\ changes' = changes + 1

-----------------------------------------------------------------------------
(* The client.                                                             *)

\* rfbNewClient: it has seen nothing, and its frame has the size of the screen.
rfbNewClient(c) ==
  /\ c \notin connected /\ connected' = connected \cup {c}
  /\ encodings' = [encodings EXCEPT ![c] = {}]
  /\ modified' = [modified EXCEPT ![c] = screen]
  /\ requested' = [requested EXCEPT ![c] = {}]
  /\ copy' = [copy EXCEPT ![c] = {}]
  /\ delta' = [delta EXCEPT ![c] = NoMove]
  /\ resize' = [resize EXCEPT ![c] = FALSE]
  /\ shape' = [shape EXCEPT ![c] = FALSE]
  /\ deferring' = [deferring EXCEPT ![c] = FALSE]
  /\ view' = [view EXCEPT ![c] = Fresh]
  /\ area' = [area EXCEPT ![c] = screen]
  /\ lost' = [lost EXCEPT ![c] = {}]
  /\ UNCHANGED <<server, changes>>

\* rfbRedrawAfterHideCursor
Redrawn == Cursor \cap screen

\* rfbSetEncodings: every flag is reset first; a client that asks for the pointer's shape
\* has the pointer painted over.
rfbSetEncodings(c, set) ==
  /\ c \in connected /\ Another
  /\ encodings' = [encodings EXCEPT ![c] = set]
  /\ shape' = [shape EXCEPT ![c] = "Cursor" \in set]
  /\ modified' = [modified EXCEPT ![c] =
       @ \cup IF "Cursor" \in set THEN Redrawn ELSE {}]
  /\ UNCHANGED <<server, connected, requested, copy, delta, resize, deferring, view, area, lost>>

\* (mutant: a full request is taken for an incremental one)
Requested_Incrementally(c, rect, incremental) ==
  /\ requested' = [requested EXCEPT ![c] = @ \cup (rect \cap screen)]
  /\ UNCHANGED <<modified, copy>>

Requested(c, rect, incremental) ==
  /\ requested' = [requested EXCEPT ![c] = @ \cup (rect \cap screen)]
  /\ IF incremental
     THEN UNCHANGED <<modified, copy>>
     ELSE /\ modified' = [modified EXCEPT ![c] = @ \cup (rect \cap screen)]
          /\ copy' = [copy EXCEPT ![c] = @ \ rect]

\* rfbFramebufferUpdateRequest, clipped by rectSwapIfLEAndClip, which drops a
\* rectangle that lies outside of the screen.
rfbFramebufferUpdateRequest(c, rect, incremental) ==
  /\ c \in connected /\ rect \cap screen # {}
  /\ Requested(c, rect, incremental)
  /\ UNCHANGED <<server, connected, encodings, delta, resize, shape, deferring, view, area, lost>>

\* rfbClientConnectionGone
rfbClientConnectionGone(c) ==
  /\ c \in connected /\ Another
  /\ connected' = connected \ {c}
  /\ encodings' = [encodings EXCEPT ![c] = {}]
  /\ modified' = [modified EXCEPT ![c] = {}]
  /\ requested' = [requested EXCEPT ![c] = {}]
  /\ copy' = [copy EXCEPT ![c] = {}]
  /\ delta' = [delta EXCEPT ![c] = NoMove]
  /\ resize' = [resize EXCEPT ![c] = FALSE]
  /\ shape' = [shape EXCEPT ![c] = FALSE]
  /\ deferring' = [deferring EXCEPT ![c] = FALSE]
  /\ view' = [view EXCEPT ![c] = Fresh]
  /\ area' = [area EXCEPT ![c] = {}]
  /\ lost' = [lost EXCEPT ![c] = {}]
  /\ UNCHANGED server

-----------------------------------------------------------------------------
(* The picture.                                                            *)

\* rfbMarkRectAsModified
Marked(region) == modified' = [c \in Clients |->
  IF c \in connected THEN modified[c] \cup region ELSE modified[c]]

\* The program draws, and marks what it drew.
Draw(rect, colour) ==
  /\ Another /\ rect \subseteq screen
  /\ fb' = [p \in screen |-> IF p \in rect THEN colour ELSE fb[p]]
  /\ Marked(rect)
  /\ UNCHANGED <<screen, connected, encodings, requested, copy, delta, resize, shape,
                 deferring, view, area, lost>>

\* (mutant: the sources of a second copy are not looked at)
Stale_Overlooked(c, rect, d) == IF delta[c] # d THEN copy[c] ELSE {}

\* What a new copy turns from copied to modified: all, if it moves another way;
\* else those of its sources that wait to be copied to.
Stale(c, rect, d) ==
  IF delta[c] # d THEN copy[c] ELSE Offset(rect, <<-d[1], -d[2]>>) \cap copy[c]

\* What waits for a copy then.
Waiting(c, rect, d) == rect \cup IF delta[c] # d THEN {} ELSE copy[c]

\* What of it cannot be copied: the destinations of modified pixels, and those
\* under the pointer, or of pixels under it, when it is the server that draws it.
Spoilt(c, rect, d) ==
  Waiting(c, rect, d) \cap
    ( Offset(modified[c] \cup Stale(c, rect, d), d) \cup
      IF "Cursor" \in encodings[c] THEN {} ELSE Cursor \cup Offset(Cursor, d) )

\* rfbScheduleCopyRegion
Scheduled(rect, d) ==
  LET Copying == {c \in connected : "CopyRect" \in encodings[c]}
  IN /\ copy' = [c \in Clients |-> IF c \in Copying THEN Waiting(c, rect, d) ELSE copy[c]]
     /\ delta' = [c \in Clients |-> IF c \in Copying THEN d ELSE delta[c]]
     /\ modified' = [c \in Clients |->
          CASE c \in Copying -> modified[c] \cup Stale(c, rect, d) \cup Spoilt(c, rect, d)
            [] c \in connected \ Copying -> modified[c] \cup rect
            [] OTHER -> modified[c]]

\* rfbDoCopyRect: moves the pixels, then schedules the copy for the clients.
rfbDoCopyRect(rect, d) ==
  /\ Another /\ rect \subseteq screen /\ \A p \in rect : From(p, d) \in screen
  /\ fb' = [p \in screen |-> IF p \in rect THEN fb[From(p, d)] ELSE fb[p]]
  /\ Scheduled(rect, d)
  /\ UNCHANGED <<screen, connected, encodings, requested, resize, shape, deferring, view,
                 area, lost>>

\* rfbNewFramebuffer; encodings are empty for who is not connected.
rfbNewFramebuffer(pixels, content) ==
  /\ Another
  /\ screen' = pixels /\ fb' = content
  /\ modified' = [c \in Clients |-> IF c \in connected THEN pixels ELSE modified[c]]
  /\ copy' = Nowhere /\ delta' = [c \in Clients |-> NoMove]
  /\ resize' = [c \in Clients |-> resize[c] \/ "NewFBSize" \in encodings[c]]
  /\ UNCHANGED <<connected, encodings, requested, shape, deferring, view, area, lost>>

-----------------------------------------------------------------------------
(* The turn of a client in rfbProcessEvents.                               *)

\* FB_UPDATE_PENDING, and a request to answer.
Due(c) ==
  /\ c \in connected /\ requested[c] # {}
  /\ \/ "Cursor" \in encodings[c] /\ shape[c]
     \/ "NewFBSize" \in encodings[c] /\ resize[c]
     \/ copy[c] # {} \/ modified[c] # {}

\* The first such turn starts the timer.
StartDeferring(c) ==
  /\ Due(c) /\ ~deferring[c]
  /\ deferring' = [deferring EXCEPT ![c] = TRUE]
  /\ UNCHANGED <<server, changes, connected, encodings, modified, requested, copy, delta,
                 resize, shape, view, area, lost>>

\* The new size goes alone, whatever else is due; the client allocates a frame.
SendNewFBSize(c) ==
  /\ resize' = [resize EXCEPT ![c] = FALSE]
  /\ view' = [view EXCEPT ![c] = Fresh]
  /\ area' = [area EXCEPT ![c] = screen]
  /\ lost' = [lost EXCEPT ![c] = screen]
  /\ UNCHANGED <<modified, requested, copy, delta, shape>>

\* What a pixel of an update looks like: rfbShowCursor draws the pointer first.
Shown(c, p) == IF p \in Cursor /\ "Cursor" \notin encodings[c] THEN Pointer ELSE fb[p]

\* copyRegion, after what will be overwritten anyway was taken out of it.
Copyable(c) == copy[c] \ modified[c]

\* updateRegion: what is due and requested.
Update(c) == (modified[c] \cup copy[c]) \cap requested[c]

\* updateCopyRegion: the client has no pixels outside of what it requested, so
\* both ends of a copy must lie there.
Copied(c) == Copyable(c) \cap requested[c] \cap Offset(requested[c], delta[c])

\* (mutant: the pixels come before the copies)
Received_PixelsFirst(c, pixels) ==
  [p \in Pixel |->
     LET now(q) == IF q \in pixels THEN Shown(c, q) ELSE view[c][q]
     IN IF p \in Copied(c) THEN now(From(p, delta[c])) ELSE now(p)]

\* What the client shows once it has the copies, and then the pixels.
Received(c, pixels) ==
  [p \in Pixel |->
     IF p \in pixels THEN Shown(c, p)
     ELSE IF p \in Copied(c) THEN view[c][From(p, delta[c])] ELSE view[c][p]]

\* Its pixels that hold nothing after that.
StillLost(c, pixels) ==
  {p \in Pixel \ pixels :
     IF p \in Copied(c) THEN From(p, delta[c]) \in lost[c] ELSE p \in lost[c]}

\* (mutant: all that was modified counts as sent)
Left_Nothing(c) == {}

\* The part of the changes that was not requested stays for later.
Left(c) == (modified[c] \cup copy[c]) \ (Update(c) \cup Copied(c))

\* Pixels and copies; more than maxRectsPerUpdate rectangles are sent as their
\* bounding box, which here may happen to any update.
SendUpdate(c) ==
  /\ \E pixels \in {Update(c) \ Copied(c), BBox(Update(c) \ Copied(c))} :
       /\ view' = [view EXCEPT ![c] = Received(c, pixels)]
       /\ lost' = [lost EXCEPT ![c] = StillLost(c, pixels)]
  /\ modified' = [modified EXCEPT ![c] = Left(c)]
  /\ requested' = [requested EXCEPT ![c] = {}]
  /\ copy' = [copy EXCEPT ![c] = {}]
  /\ delta' = [delta EXCEPT ![c] = NoMove]
  /\ shape' = [shape EXCEPT ![c] = @ /\ "Cursor" \notin encodings[c]]
  /\ UNCHANGED <<resize, area>>

\* Nothing of what changed is requested.
SendNothing(c) ==
  /\ copy' = [copy EXCEPT ![c] = Copyable(c)]
  /\ UNCHANGED <<modified, requested, delta, resize, shape, view, area, lost>>

\* A turn after the time of the timer: rfbSendFramebufferUpdate.
rfbSendFramebufferUpdate(c) ==
  /\ Due(c) /\ deferring[c]
  /\ deferring' = [deferring EXCEPT ![c] = FALSE]
  /\ CASE "NewFBSize" \in encodings[c] /\ resize[c] -> SendNewFBSize(c)
       [] OTHER -> IF Update(c) = {} /\ ~("Cursor" \in encodings[c] /\ shape[c])
                   THEN SendNothing(c) ELSE SendUpdate(c)
  /\ UNCHANGED <<server, changes, connected, encodings>>

-----------------------------------------------------------------------------
Turn(c) == StartDeferring(c) \/ rfbSendFramebufferUpdate(c)

\* A viewer asks for the changes of its whole frame as long as that does not wait
\* for an answer, and for all of it once it has allocated a frame.
Ask(c) ==
  /\ ~ area[c] \cap screen \subseteq requested[c] \/ ~ lost[c] \subseteq modified[c]
  /\ rfbFramebufferUpdateRequest(c, area[c], lost[c] = {})

Message(c) ==
  \/ \E set \in SUBSET Encodings : rfbSetEncodings(c, set)
  \/ Another /\ \E rect \in Rectangles, incremental \in BOOLEAN :
       rfbFramebufferUpdateRequest(c, rect \cap area[c], incremental)
  \/ rfbClientConnectionGone(c)

Next ==
  \/ \E c \in Clients : rfbNewClient(c) \/ Message(c) \/ Turn(c)
  \/ \E c \in Clients : Ask(c) /\ UNCHANGED changes
  \/ \E rect \in Rectangles, colour \in Colour : Draw(rect, colour)
  \/ \E rect \in Rectangles, d \in Vectors : rfbDoCopyRect(rect, d)
  \/ \E pixels \in Screens : \E content \in [pixels -> Colour] : rfbNewFramebuffer(pixels, content)

Spec == Init /\ [][Next]_vars

\* The loop takes its turns, and a viewer that is connected goes on asking.
FairSpec == Spec /\ \A c \in Clients : WF_vars(Turn(c)) /\ WF_vars(Ask(c) /\ UNCHANGED changes)
-----------------------------------------------------------------------------
Content == Colour \cup {Pointer, Blank}

TypeOK ==
  /\ screen \in Screens /\ fb \in [screen -> Colour] /\ changes \in 0 .. MaxChanges
  /\ connected \subseteq Clients /\ encodings \in [Clients -> SUBSET Encodings]
  /\ modified \in [Clients -> SUBSET Pixel] /\ requested \in [Clients -> SUBSET Pixel]
  /\ copy \in [Clients -> SUBSET Pixel] /\ delta \in [Clients -> Vectors \cup {NoMove}]
  /\ resize \in [Clients -> BOOLEAN] /\ shape \in [Clients -> BOOLEAN]
  /\ deferring \in [Clients -> BOOLEAN]
  /\ view \in [Clients -> [Pixel -> Content]]
  /\ area \in [Clients -> SUBSET Pixel] /\ lost \in [Clients -> SUBSET Pixel]

\* The client shows the server's pixel p, or its pointer.
Shows(c, p) == view[c][p] = fb[p] \/ (p \in Cursor /\ view[c][p] = Pointer)

\* No change is forgotten: a pixel of the client that differs from the server's is
\* due for an update, or the client has to ask for it again.  (The three regions of
\* rfbClientRec "represent the update needed to get the client's framebuffer from its
\* present state to the current state of our framebuffer".)
NoChangeForgotten == \A c \in connected : \A p \in screen :
  p \in modified[c] \cup copy[c] \cup lost[c] \/ Shows(c, p)

\* A copy that waits will bring what the server shows: until it is sent, and
\* whatever is drawn, copied or requested meanwhile, the client holds at its
\* source what the server has at its destination.
CopiesStayRight == \A c \in connected : \A p \in copy[c] \ modified[c] :
  LET q == From(p, delta[c]) IN q \in lost[c] \/ view[c][q] = fb[p]

Picture == [p \in Pixel |-> IF p \in screen THEN fb[p] ELSE CHOOSE k \in Colour : TRUE]

Mirror(c) == INSTANCE ScreenMirror WITH picture <- Picture, shown <- view[c]

\* Every client may be late, but sees nothing that the server did not show: the
\* three regions implement ScreenMirror.
ShowsOnlyTheScreen ==
  /\ \A c \in Clients : Mirror(c)!Init
  /\ [][\A c \in Clients : [Mirror(c)!Next]_(Mirror(c)!vars)]_vars

\* When the changes end, every viewer that goes on asking sees the server's picture.
Converges == \A c \in Clients :
  <>[](c \in connected => \A p \in area[c] \cap screen : Shows(c, p))
=============================================================================
