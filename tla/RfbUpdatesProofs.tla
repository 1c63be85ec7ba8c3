-------------------------- MODULE RfbUpdatesProofs --------------------------
(***************************************************************************)
(* What holds of the updates for any clients, screens, drawings, copies    *)
(* and requests: no change is forgotten, a copy that waits stays right,    *)
(* and a viewer shows nothing that the server did not show.                *)
(***************************************************************************)
EXTENDS RfbUpdates, TLAPS

\* A client that is not connected is due nothing.
Idle(c) == c \notin connected => modified[c] = {} /\ copy[c] = {} /\ encodings[c] = {}

\* What is due lies on the screen, with the sources of the copies.
Inside(c) ==
  /\ modified[c] \subseteq screen /\ copy[c] \subseteq screen
  /\ \A p \in copy[c] : From(p, delta[c]) \in screen

\* What a client was not sent it shows as blank.
LostIsBlank(c) == \A p \in lost[c] : view[c][p] = Blank

\* What a client is owed, or has to ask for.
Owed(c) == modified[c] \cup copy[c] \cup lost[c]

\* NoChangeForgotten, and no pointer is left in the picture of a client that draws
\* the pointer itself.
Current(c) == c \in connected =>
  \A p \in screen \ Owed(c) :
    /\ Shows(c, p)
    /\ "Cursor" \in encodings[c] => view[c][p] = fb[p]

\* CopiesStayRight
CopiesRight(c) == c \in connected =>
  \A p \in copy[c] \ modified[c] :
    From(p, delta[c]) \in lost[c] \/ view[c][From(p, delta[c])] = fb[p]

Kept(c) == Idle(c) /\ Inside(c) /\ LostIsBlank(c) /\ Current(c) /\ CopiesRight(c)

IInv == TypeOK /\ \A c \in Clients : Kept(c)

-----------------------------------------------------------------------------
(* Pixels and translations.                                                *)

LEMMA Grid ==
  /\ Pixel \subseteq Int \X Int
  /\ Vectors \cup {NoMove} \subseteq Int \X Int
  /\ Cursor \subseteq Int \X Int
BY RfbUpdatesAssumption DEF Pixel, NoMove

LEMMA OnScreen == ASSUME screen \in Screens PROVE screen \subseteq Pixel
BY DEF Pixel

\* From(p, d) is where the pixel at p comes from when a region moves by d.
LEMMA OffsetFrom ==
  ASSUME NEW region \in SUBSET (Int \X Int), NEW d \in Int \X Int, NEW p \in Int \X Int
  PROVE  /\ From(p, d) \in Int \X Int
         /\ p \in Offset(region, d) <=> From(p, d) \in region
<1>1. From(p, d) \in Int \X Int /\ p = <<From(p, d)[1] + d[1], From(p, d)[2] + d[2]>>
  BY DEF From
<1>2. ASSUME From(p, d) \in region PROVE p \in Offset(region, d)
  BY <1>1, <1>2 DEF Offset
<1>3. ASSUME p \in Offset(region, d) PROVE From(p, d) \in region
  <2>1. PICK q \in region : p = <<q[1] + d[1], q[2] + d[2]>>
    BY <1>3 DEF Offset
  <2>2. q \in Int \X Int
    OBVIOUS
  <2>3. From(p, d) = q
    BY <2>1, <2>2 DEF From
  <2> QED
    BY <2>3
<1> QED
  BY <1>1, <1>2, <1>3

\* The sources of a region that moves by d are that region moved back.
LEMMA SourceOf ==
  ASSUME NEW region \in SUBSET (Int \X Int), NEW d \in Int \X Int, NEW p \in region
  PROVE  From(p, d) \in Offset(region, <<-d[1], -d[2]>>)
<1>1. p \in Int \X Int
  OBVIOUS
<1>2. From(p, d) = <<p[1] + (-d[1]), p[2] + (-d[2])>>
  BY <1>1 DEF From
<1>3. <<-d[1], -d[2]>>[1] = -d[1] /\ <<-d[1], -d[2]>>[2] = -d[2]
  OBVIOUS
<1> QED
  BY <1>2, <1>3 DEF Offset

\* A bounding box covers its region, and stays on the screen.
LEMMA Boxed ==
  ASSUME NEW region \in SUBSET screen, screen \subseteq Int \X Int
  PROVE  region \subseteq BBox(region) /\ BBox(region) \subseteq screen
<1>1. BBox(region) \subseteq screen
  BY DEF BBox
<1>2. ASSUME NEW p \in region PROVE p \in BBox(region)
  <2>1. p \in screen /\ p[1] \in Int /\ p[2] \in Int
    OBVIOUS
  <2>2. \A k \in {1, 2} : p[k] <= p[k] /\ p[k] <= p[k]
    BY <2>1
  <2> QED
    BY <2>1, <2>2 DEF BBox
<1> QED
  BY <1>1, <1>2

\* What is sent lies on the screen.
LEMMA Sent ==
  ASSUME TypeOK, NEW c \in Clients, Inside(c),
         NEW pixels \in {Update(c) \ Copied(c), BBox(Update(c) \ Copied(c))}
  PROVE  Update(c) \ Copied(c) \subseteq pixels /\ pixels \subseteq screen
<1>1. Update(c) \ Copied(c) \subseteq screen
  BY DEF Inside, Update
<1>2. screen \subseteq Int \X Int
  BY RfbUpdatesAssumption DEF TypeOK
<1> QED
  BY <1>1, <1>2, Boxed

-----------------------------------------------------------------------------
(* Types.                                                                  *)

LEMMA InitTypes == Init => TypeOK
<1> SUFFICES ASSUME Init PROVE TypeOK
  OBVIOUS
<1>1. MaxChanges \in Nat
  BY RfbUpdatesAssumption
<1>2. view \in [Clients -> [Pixel -> Content]]
  BY DEF Init, Fresh, Content
<1> QED
  BY <1>1, <1>2 DEF Init, TypeOK, Nowhere, No

LEMMA Counted == ASSUME TypeOK, Another \/ UNCHANGED changes PROVE changes' \in 0 .. MaxChanges
BY RfbUpdatesAssumption DEF TypeOK, Another

LEMMA ClientTypes ==
  ASSUME TypeOK, NEW c \in Clients, rfbNewClient(c) \/ rfbClientConnectionGone(c)
  PROVE  TypeOK'
<1>1. changes' \in 0 .. MaxChanges
  BY Counted DEF rfbNewClient, rfbClientConnectionGone
<1>2. screen \subseteq Pixel /\ Fresh \in [Pixel -> Content]
  BY OnScreen DEF TypeOK, Fresh, Content
<1>3. CASE rfbNewClient(c)
  BY <1>1, <1>2, <1>3 DEF TypeOK, rfbNewClient, server
<1>4. CASE rfbClientConnectionGone(c)
  BY <1>1, <1>2, <1>4 DEF TypeOK, rfbClientConnectionGone, server
<1> QED
  BY <1>3, <1>4

LEMMA MessageTypes ==
  ASSUME TypeOK, NEW c \in Clients, NEW rect, NEW incremental, NEW set \in SUBSET Encodings,
         \/ rfbSetEncodings(c, set)
         \/ rfbFramebufferUpdateRequest(c, rect, incremental) /\ (Another \/ UNCHANGED changes)
  PROVE  TypeOK'
<1>1. changes' \in 0 .. MaxChanges
  BY Counted DEF rfbSetEncodings
<1>2. screen \subseteq Pixel
  BY OnScreen DEF TypeOK
<1>3. CASE rfbSetEncodings(c, set)
  BY <1>1, <1>2, <1>3 DEF TypeOK, rfbSetEncodings, server, Redrawn
<1>4. CASE rfbFramebufferUpdateRequest(c, rect, incremental)
  <2>1. /\ requested' \in [Clients -> SUBSET Pixel] /\ modified' \in [Clients -> SUBSET Pixel]
        /\ copy' \in [Clients -> SUBSET Pixel]
    <3>1. rect \cap screen \subseteq Pixel
      BY <1>2
    <3>2. CASE incremental
      BY <1>4, <3>1, <3>2 DEF TypeOK, rfbFramebufferUpdateRequest, Requested
    <3>3. CASE ~incremental
      <4>1. /\ requested' = [requested EXCEPT ![c] = @ \cup (rect \cap screen)]
            /\ modified' = [modified EXCEPT ![c] = @ \cup (rect \cap screen)]
            /\ copy' = [copy EXCEPT ![c] = @ \ rect]
        BY <1>4, <3>3, Zenon DEF rfbFramebufferUpdateRequest, Requested
      <4>2. requested' \in [Clients -> SUBSET Pixel] /\ modified' \in [Clients -> SUBSET Pixel]
        BY <3>1, <4>1 DEF TypeOK
      <4>3. copy' \in [Clients -> SUBSET Pixel]
        BY <4>1 DEF TypeOK
      <4> QED
        BY <4>2, <4>3
    <3> QED
      BY <3>2, <3>3
  <2> QED
    BY <1>1, <1>4, <2>1 DEF TypeOK, rfbFramebufferUpdateRequest, server
<1> QED
  BY <1>3, <1>4

LEMMA DrawTypes ==
  ASSUME TypeOK, NEW rect, NEW colour \in Colour, Draw(rect, colour)
  PROVE  TypeOK'
<1>1. changes' \in 0 .. MaxChanges
  BY Counted DEF Draw
<1>2. rect \subseteq Pixel
  BY OnScreen DEF TypeOK, Draw
<1> QED
  BY <1>1, <1>2 DEF TypeOK, Draw, Marked

LEMMA CopyTypes ==
  ASSUME TypeOK, NEW rect, NEW d \in Vectors, rfbDoCopyRect(rect, d)
  PROVE  TypeOK'
<1>1. changes' \in 0 .. MaxChanges
  BY Counted DEF rfbDoCopyRect
<1>2. rect \subseteq Pixel
  BY OnScreen DEF TypeOK, rfbDoCopyRect
<1>3. fb' \in [screen' -> Colour] /\ screen' \in Screens
  BY DEF TypeOK, rfbDoCopyRect
<1>4. \A c \in Clients : Waiting(c, rect, d) \subseteq Pixel /\ Stale(c, rect, d) \subseteq Pixel
                         /\ Spoilt(c, rect, d) \subseteq Pixel
  BY <1>2 DEF TypeOK, Waiting, Stale, Spoilt
<1>5. /\ copy' \in [Clients -> SUBSET Pixel] /\ modified' \in [Clients -> SUBSET Pixel]
      /\ delta' \in [Clients -> Vectors \cup {NoMove}]
  BY <1>2, <1>4 DEF TypeOK, rfbDoCopyRect, Scheduled
<1> QED
  BY <1>1, <1>3, <1>5 DEF TypeOK, rfbDoCopyRect

LEMMA ResizeTypes ==
  ASSUME TypeOK, NEW pixels \in Screens, NEW content \in [pixels -> Colour],
         rfbNewFramebuffer(pixels, content)
  PROVE  TypeOK'
<1>1. changes' \in 0 .. MaxChanges
  BY Counted DEF rfbNewFramebuffer
<1>2. pixels \subseteq Pixel
  BY DEF Pixel
<1> QED
  BY <1>1, <1>2 DEF TypeOK, rfbNewFramebuffer, Nowhere

LEMMA ReceivedTypes ==
  ASSUME TypeOK, NEW c \in Clients, Inside(c), NEW pixels \in SUBSET screen
  PROVE  Received(c, pixels) \in [Pixel -> Content]
<1>1. \A p \in pixels : Shown(c, p) \in Content
  BY DEF TypeOK, Shown, Content
<1>2. \A p \in Copied(c) : From(p, delta[c]) \in Pixel
  BY OnScreen DEF TypeOK, Inside, Copied, Copyable
<1> QED
  BY <1>1, <1>2 DEF Received, TypeOK

LEMMA TurnTypes ==
  ASSUME TypeOK, NEW c \in Clients, Inside(c), Turn(c)
  PROVE  TypeOK'
<1>1. screen \subseteq Pixel /\ Fresh \in [Pixel -> Content]
  BY OnScreen DEF TypeOK, Fresh, Content
<1>2. CASE StartDeferring(c)
  BY <1>2 DEF TypeOK, StartDeferring, server
<1>3. ASSUME rfbSendFramebufferUpdate(c), SendNewFBSize(c) PROVE TypeOK'
  BY <1>1, <1>3 DEF TypeOK, rfbSendFramebufferUpdate, SendNewFBSize, server
<1>4. ASSUME rfbSendFramebufferUpdate(c), SendNothing(c) PROVE TypeOK'
  BY <1>4 DEF TypeOK, rfbSendFramebufferUpdate, SendNothing, server, Copyable
<1>5. ASSUME rfbSendFramebufferUpdate(c), SendUpdate(c) PROVE TypeOK'
  <2>1. PICK pixels \in {Update(c) \ Copied(c), BBox(Update(c) \ Copied(c))} :
          /\ view' = [view EXCEPT ![c] = Received(c, pixels)]
          /\ lost' = [lost EXCEPT ![c] = StillLost(c, pixels)]
    BY <1>5 DEF SendUpdate
  <2>2. pixels \subseteq screen
    BY Sent
  <2>3. view' \in [Clients -> [Pixel -> Content]] /\ lost' \in [Clients -> SUBSET Pixel]
    BY <2>1, <2>2, ReceivedTypes DEF TypeOK, StillLost
  <2>4. Left(c) \subseteq Pixel
    BY DEF TypeOK, Left
  <2> QED
    BY <1>5, <2>3, <2>4 DEF TypeOK, rfbSendFramebufferUpdate, SendUpdate, server
<1> QED
  BY <1>2, <1>3, <1>4, <1>5 DEF Turn, rfbSendFramebufferUpdate

-----------------------------------------------------------------------------
(* What is kept of each client.                                            *)

\* Of what Kept(c) speaks.
About(c) == <<screen, fb, c \in connected, encodings[c], modified[c], copy[c], delta[c],
              view[c], lost[c]>>

LEMMA Untouched == ASSUME NEW c, Kept(c), UNCHANGED About(c) PROVE Kept(c)'
<1> USE DEF Kept, About
<1>1. Idle(c)' /\ Inside(c)'
  BY DEF Idle, Inside, From
<1>2. LostIsBlank(c)' /\ Current(c)' /\ CopiesRight(c)'
  BY DEF LostIsBlank, Current, CopiesRight, Owed, Shows, From
<1> QED
  BY <1>1, <1>2

LEMMA InitKept == ASSUME Init, NEW c \in Clients PROVE Kept(c)
BY DEF Init, Nowhere, Kept, Idle, Inside, LostIsBlank, Current, CopiesRight

LEMMA NewClientKept ==
  ASSUME TypeOK, NEW d \in Clients, rfbNewClient(d), NEW c \in Clients, Kept(c)
  PROVE  Kept(c)'
<1>1. CASE c = d
  <2>1. /\ modified'[c] = screen' /\ copy'[c] = {} /\ lost'[c] = {} /\ c \in connected'
    BY <1>1 DEF TypeOK, rfbNewClient, server
  <2> QED
    BY <2>1 DEF Kept, Idle, Inside, LostIsBlank, Current, CopiesRight, Owed
<1>2. CASE c # d
  <2>1. UNCHANGED About(c)
    BY <1>2 DEF TypeOK, rfbNewClient, server, About
  <2> QED
    BY <2>1, Untouched
<1> QED
  BY <1>1, <1>2

LEMMA ConnectionGoneKept ==
  ASSUME TypeOK, NEW d \in Clients, rfbClientConnectionGone(d), NEW c \in Clients, Kept(c)
  PROVE  Kept(c)'
<1>1. CASE c = d
  <2>1. /\ modified'[c] = {} /\ copy'[c] = {} /\ lost'[c] = {} /\ encodings'[c] = {}
        /\ c \notin connected'
    BY <1>1 DEF TypeOK, rfbClientConnectionGone
  <2> QED
    BY <2>1 DEF Kept, Idle, Inside, LostIsBlank, Current, CopiesRight
<1>2. CASE c # d
  <2>1. UNCHANGED About(c)
    BY <1>2 DEF TypeOK, rfbClientConnectionGone, server, About
  <2> QED
    BY <2>1, Untouched
<1> QED
  BY <1>1, <1>2

LEMMA SetEncodingsKept ==
  ASSUME TypeOK, NEW d \in Clients, NEW set \in SUBSET Encodings, rfbSetEncodings(d, set),
         NEW c \in Clients, Kept(c)
  PROVE  Kept(c)'
<1>1. CASE c = d
  <2>1. /\ c \in connected /\ UNCHANGED <<screen, fb, connected, copy, delta, view, lost>>
        /\ encodings'[c] = set
        /\ modified'[c] = modified[c] \cup IF "Cursor" \in set THEN Redrawn ELSE {}
    BY <1>1 DEF TypeOK, rfbSetEncodings, server
  <2>2. modified[c] \subseteq modified'[c] /\ modified'[c] \subseteq screen
    BY <2>1 DEF Redrawn, Kept, Inside
  <2>3. Idle(c)' /\ Inside(c)' /\ LostIsBlank(c)' /\ CopiesRight(c)'
    BY <2>1, <2>2 DEF Kept, Idle, Inside, LostIsBlank, CopiesRight, From
  <2>4. ASSUME NEW p \in screen, p \notin Owed(c)'
        PROVE  Shows(c, p) /\ ("Cursor" \in set => view[c][p] = fb[p])
    <3>1. p \notin Owed(c) /\ Shows(c, p)
      BY <2>1, <2>2, <2>4 DEF Owed, Kept, Current
    <3>2. ASSUME "Cursor" \in set PROVE p \notin Cursor
      BY <2>1, <2>4, <3>2 DEF Owed, Redrawn
    <3> QED
      BY <3>1, <3>2 DEF Shows
  <2>5. Current(c)'
    BY <2>1, <2>4 DEF Current, Shows
  <2> QED
    BY <2>3, <2>5 DEF Kept
<1>2. CASE c # d
  <2>1. UNCHANGED About(c)
    BY <1>2 DEF TypeOK, rfbSetEncodings, server, About
  <2> QED
    BY <2>1, Untouched
<1> QED
  BY <1>1, <1>2

LEMMA RequestKept ==
  ASSUME TypeOK, NEW d \in Clients, NEW rect, NEW incremental,
         rfbFramebufferUpdateRequest(d, rect, incremental), NEW c \in Clients, Kept(c)
  PROVE  Kept(c)'
<1>1. CASE c = d /\ ~incremental
  <2>1. /\ c \in connected
        /\ UNCHANGED <<screen, fb, connected, encodings, delta, view, lost>>
    BY <1>1 DEF rfbFramebufferUpdateRequest, server
  <2>2. modified'[c] = modified[c] \cup (rect \cap screen) /\ copy'[c] = copy[c] \ rect
    BY <1>1 DEF TypeOK, rfbFramebufferUpdateRequest, Requested
  <2>3. Owed(c) \subseteq Owed(c)'
    BY <2>1, <2>2 DEF Owed, Kept, Inside
  <2>4. Idle(c)' /\ Inside(c)' /\ LostIsBlank(c)'
    BY <2>1, <2>2 DEF Kept, Idle, Inside, LostIsBlank, From
  <2>5. Current(c)'
    BY <2>1, <2>3 DEF Kept, Current, Shows
  <2>6. CopiesRight(c)'
    BY <2>1, <2>2 DEF Kept, CopiesRight, From
  <2> QED
    BY <2>4, <2>5, <2>6 DEF Kept
<1>2. CASE c # d \/ incremental
  <2>1. UNCHANGED About(c)
    BY <1>2 DEF TypeOK, rfbFramebufferUpdateRequest, Requested, server, About
  <2> QED
    BY <2>1, Untouched
<1> QED
  BY <1>1, <1>2

LEMMA DrawKept ==
  ASSUME TypeOK, NEW rect, NEW colour \in Colour, Draw(rect, colour),
         NEW c \in Clients, Kept(c)
  PROVE  Kept(c)'
<1>1. UNCHANGED <<screen, connected, encodings, copy, delta, view, lost>>
  BY DEF Draw
<1>2. modified'[c] = IF c \in connected THEN modified[c] \cup rect ELSE modified[c]
  BY DEF Draw, Marked
<1>3. rect \subseteq screen /\ \A p \in screen \ rect : fb'[p] = fb[p]
  BY DEF Draw
<1>4. Idle(c)' /\ Inside(c)' /\ LostIsBlank(c)'
  BY <1>1, <1>2, <1>3 DEF Kept, Idle, Inside, LostIsBlank, From
<1>5. Current(c)'
  BY <1>1, <1>2, <1>3 DEF Kept, Current, Shows, Owed
<1>6. CopiesRight(c)'
  BY <1>1, <1>2, <1>3 DEF Kept, CopiesRight, Inside, From
<1> QED
  BY <1>4, <1>5, <1>6 DEF Kept

LEMMA ResizeKept ==
  ASSUME TypeOK, NEW pixels \in Screens, NEW content \in [pixels -> Colour],
         rfbNewFramebuffer(pixels, content), NEW c \in Clients, Kept(c)
  PROVE  Kept(c)'
<1>1. /\ screen' = pixels /\ copy'[c] = {} /\ UNCHANGED <<connected, encodings, view, lost>>
      /\ modified'[c] = IF c \in connected THEN pixels ELSE modified[c]
  BY DEF rfbNewFramebuffer, Nowhere
<1>2. Idle(c)' /\ Inside(c)' /\ LostIsBlank(c)' /\ CopiesRight(c)'
  BY <1>1 DEF Kept, Idle, Inside, LostIsBlank, CopiesRight
<1>3. Current(c)'
  BY <1>1 DEF Current, Owed
<1> QED
  BY <1>2, <1>3 DEF Kept

\* A copy for a client that takes no copies: its destination is modified.
LEMMA NotCopyingKept ==
  ASSUME TypeOK, NEW rect, NEW d \in Vectors, rfbDoCopyRect(rect, d), NEW c \in Clients, Kept(c),
         ~ (c \in connected /\ "CopyRect" \in encodings[c])
  PROVE  Kept(c)'
<1>1. /\ UNCHANGED <<screen, connected, encodings, view, lost>>
      /\ copy'[c] = copy[c] /\ delta'[c] = delta[c]
      /\ modified'[c] = IF c \in connected THEN modified[c] \cup rect ELSE modified[c]
  BY DEF rfbDoCopyRect, Scheduled
<1>2. rect \subseteq screen /\ \A p \in screen \ rect : fb'[p] = fb[p]
  BY DEF rfbDoCopyRect
<1>3. Idle(c)' /\ Inside(c)' /\ LostIsBlank(c)'
  BY <1>1, <1>2 DEF Kept, Idle, Inside, LostIsBlank, From
<1>4. Current(c)'
  BY <1>1, <1>2 DEF Kept, Current, Shows, Owed
<1>5. CopiesRight(c)'
  BY <1>1, <1>2 DEF Kept, CopiesRight, Inside, From
<1> QED
  BY <1>3, <1>4, <1>5 DEF Kept

\* A copy for a client that takes them.  The pixels at the sources of what waits
\* are neither modified nor wait themselves, and the client has them as they are.
LEMMA CopyingKept ==
  ASSUME TypeOK, NEW rect, NEW d \in Vectors, rfbDoCopyRect(rect, d), NEW c \in Clients, Kept(c),
         c \in connected, "CopyRect" \in encodings[c]
  PROVE  Kept(c)'
<1> DEFINE W == Waiting(c, rect, d)
           S == Stale(c, rect, d)
           M == modified[c] \cup S
<1>1. /\ UNCHANGED <<screen, connected, encodings, view, lost>>
      /\ copy'[c] = W /\ delta'[c] = d /\ modified'[c] = M \cup Spoilt(c, rect, d)
  BY DEF rfbDoCopyRect, Scheduled
<1>2. /\ rect \subseteq screen /\ \A p \in screen \ rect : fb'[p] = fb[p]
      /\ \A p \in rect : From(p, d) \in screen /\ fb'[p] = fb[From(p, d)]
  BY DEF rfbDoCopyRect
<1>3. screen \subseteq Int \X Int /\ d \in Int \X Int
  BY RfbUpdatesAssumption DEF TypeOK
<1>4. rect \subseteq W /\ copy[c] \subseteq W \cup S /\ S \subseteq copy[c]
  BY DEF Waiting, Stale
<1>5. /\ W \subseteq screen /\ M \subseteq screen /\ Spoilt(c, rect, d) \subseteq W
      /\ \A p \in W : From(p, d) \in screen
  BY <1>2, <1>4 DEF Kept, Inside, Waiting, Spoilt
<1>6. Idle(c)' /\ LostIsBlank(c)'
  BY <1>1 DEF Kept, Idle, LostIsBlank
<1>7. Inside(c)'
  BY <1>1, <1>5 DEF Inside, From
<1>8. Current(c)'
  BY <1>1, <1>2, <1>4 DEF Kept, Current, Shows, Owed
<1>9. ASSUME NEW p \in W \ modified'[c]
      PROVE  From(p, d) \in lost[c] \/ view[c][From(p, d)] = fb'[p]
  <2>1. p \notin Offset(M, d)
    BY <1>1, <1>9 DEF Spoilt
  <2>2. From(p, d) \in screen /\ From(p, d) \notin M
    BY <1>3, <1>5, <1>9, <2>1, OffsetFrom
  <2>3. "Cursor" \notin encodings[c] => From(p, d) \notin Cursor
    <3>1. "Cursor" \notin encodings[c] => p \notin Offset(Cursor, d)
      BY <1>1, <1>9 DEF Spoilt
    <3> QED
      BY <1>3, <1>5, <1>9, <3>1, Grid, OffsetFrom
  <2>4. CASE p \in rect
    <3>1. From(p, d) \notin copy[c]
      <4>1. From(p, d) \in Offset(rect, <<-d[1], -d[2]>>)
        BY <1>2, <1>3, <2>4, SourceOf
      <4> QED
        BY <2>2, <4>1 DEF Stale
    <3>2. From(p, d) \in lost[c] \/ view[c][From(p, d)] = fb[From(p, d)]
      BY <2>2, <2>3, <3>1 DEF Kept, Current, Owed, Shows
    <3> QED
      BY <1>2, <2>4, <3>2
  <2>5. CASE p \notin rect
    <3>1. p \in copy[c] /\ delta[c] = d /\ p \notin modified[c] /\ fb'[p] = fb[p]
      BY <1>1, <1>2, <1>5, <1>9, <2>5 DEF Waiting
    <3> QED
      BY <3>1 DEF Kept, CopiesRight
  <2> QED
    BY <2>4, <2>5
<1>10. CopiesRight(c)'
  BY <1>1, <1>9 DEF CopiesRight, From
<1> QED
  BY <1>6, <1>7, <1>8, <1>10 DEF Kept

\* What a client shows once an update arrived.
LEMMA SendUpdateKept ==
  ASSUME TypeOK, NEW c \in Clients, Kept(c), c \in connected,
         rfbSendFramebufferUpdate(c), SendUpdate(c)
  PROVE  Kept(c)'
<1>1. PICK pixels \in {Update(c) \ Copied(c), BBox(Update(c) \ Copied(c))} :
        view' = [view EXCEPT ![c] = Received(c, pixels)] /\
        lost' = [lost EXCEPT ![c] = StillLost(c, pixels)]
  BY DEF SendUpdate
<1>2. Update(c) \ Copied(c) \subseteq pixels /\ pixels \subseteq screen
  BY Sent DEF Kept
<1>3. /\ UNCHANGED <<screen, fb, connected, encodings>>
      /\ modified'[c] = Left(c) /\ copy'[c] = {}
      /\ view'[c] = Received(c, pixels) /\ lost'[c] = StillLost(c, pixels)
  BY <1>1 DEF TypeOK, rfbSendFramebufferUpdate, SendUpdate, server
<1>4. Idle(c)' /\ Inside(c)' /\ CopiesRight(c)'
  BY <1>3 DEF Kept, Idle, Inside, CopiesRight, Left
<1>5. LostIsBlank(c)'
  BY <1>3 DEF Kept, LostIsBlank, StillLost, Received
<1>6. screen \subseteq Pixel
  BY OnScreen DEF TypeOK
<1>7. ASSUME NEW p \in screen, p \notin Left(c) \cup StillLost(c, pixels)
      PROVE  \/ p \in pixels /\ Received(c, pixels)[p] = Shown(c, p)
             \/ p \notin pixels /\ p \in Copied(c) /\ Received(c, pixels)[p] = fb[p]
             \/ p \notin Owed(c) /\ Received(c, pixels)[p] = view[c][p]
  <2>1. CASE p \in pixels
    BY <1>6, <2>1 DEF Received
  <2>2. CASE p \notin pixels /\ p \in Copied(c)
    <3>1. From(p, delta[c]) \notin lost[c] /\ p \in copy[c] \ modified[c]
      BY <1>6, <1>7, <2>2 DEF StillLost, Copied, Copyable
    <3> QED
      BY <1>6, <2>2, <3>1 DEF Received, Kept, CopiesRight
  <2>3. CASE p \notin pixels /\ p \notin Copied(c)
    BY <1>2, <1>6, <1>7, <2>3 DEF Received, StillLost, Left, Owed
  <2> QED
    BY <2>1, <2>2, <2>3
<1>8. ASSUME NEW p \in screen \ Owed(c)'
      PROVE  /\ Shows(c, p)'
             /\ "Cursor" \in encodings[c] => view'[c][p] = fb[p]
  <2>1. p \notin Left(c) \cup StillLost(c, pixels)
    BY <1>3, <1>8 DEF Owed
  <2> QED
    BY <1>3, <1>7, <2>1 DEF Shows, Shown, Kept, Current
<1>9. Current(c)'
  BY <1>3, <1>8 DEF Current
<1> QED
  BY <1>4, <1>5, <1>9 DEF Kept

LEMMA TurnKept ==
  ASSUME TypeOK, NEW d \in Clients, Turn(d), NEW c \in Clients, Kept(c)
  PROVE  Kept(c)'
<1>1. CASE StartDeferring(d)
  <2>1. UNCHANGED About(c)
    BY <1>1 DEF StartDeferring, server, About
  <2> QED
    BY <2>1, Untouched
<1>2. ASSUME rfbSendFramebufferUpdate(d), c # d PROVE Kept(c)'
  <2>1. UNCHANGED About(c)
    BY <1>2 DEF TypeOK, rfbSendFramebufferUpdate, SendNewFBSize, SendNothing, SendUpdate,
                server, About
  <2> QED
    BY <2>1, Untouched
<1>3. ASSUME rfbSendFramebufferUpdate(c), SendNewFBSize(c) PROVE Kept(c)'
  <2>1. /\ UNCHANGED <<screen, fb, connected, encodings, modified, copy, delta>>
        /\ view'[c] = Fresh /\ lost'[c] = screen
    BY <1>3 DEF TypeOK, rfbSendFramebufferUpdate, SendNewFBSize, server
  <2>2. Idle(c)' /\ Inside(c)' /\ CopiesRight(c)'
    BY <2>1 DEF Kept, Idle, Inside, CopiesRight, From
  <2>3. Current(c)'
    BY <2>1 DEF Current, Owed
  <2>4. LostIsBlank(c)'
    BY <2>1, OnScreen DEF LostIsBlank, Fresh, TypeOK
  <2> QED
    BY <2>2, <2>3, <2>4 DEF Kept
<1>4. ASSUME rfbSendFramebufferUpdate(c), SendNothing(c) PROVE Kept(c)'
  <2>1. /\ UNCHANGED <<screen, fb, connected, encodings, modified, delta, view, lost>>
        /\ copy'[c] = copy[c] \ modified[c]
    BY <1>4 DEF TypeOK, rfbSendFramebufferUpdate, SendNothing, server, Copyable
  <2>2. Idle(c)' /\ Inside(c)' /\ LostIsBlank(c)' /\ CopiesRight(c)'
    BY <2>1 DEF Kept, Idle, Inside, LostIsBlank, CopiesRight, From
  <2>3. Current(c)'
    BY <2>1 DEF Kept, Current, Owed, Shows
  <2> QED
    BY <2>2, <2>3 DEF Kept
<1>5. ASSUME rfbSendFramebufferUpdate(c), SendUpdate(c) PROVE Kept(c)'
  BY <1>5, SendUpdateKept DEF rfbSendFramebufferUpdate, Due
<1> QED
  BY <1>1, <1>2, <1>3, <1>4, <1>5 DEF Turn, rfbSendFramebufferUpdate

LEMMA NextKept == IInv /\ [Next]_vars => IInv'
<1> SUFFICES ASSUME IInv, [Next]_vars PROVE IInv'
  OBVIOUS
<1> USE DEF IInv
<1>1. ASSUME NEW c \in Clients, rfbNewClient(c) \/ rfbClientConnectionGone(c) PROVE IInv'
  BY <1>1, ClientTypes, NewClientKept, ConnectionGoneKept
<1>2. ASSUME NEW c \in Clients, NEW set \in SUBSET Encodings, rfbSetEncodings(c, set) PROVE IInv'
  BY <1>2, MessageTypes, SetEncodingsKept
<1>3. ASSUME NEW c \in Clients, NEW rect, NEW incremental,
             rfbFramebufferUpdateRequest(c, rect, incremental), Another \/ UNCHANGED changes
      PROVE  IInv'
  BY <1>3, MessageTypes, RequestKept
<1>4. ASSUME NEW c \in Clients, Turn(c) PROVE IInv'
  BY <1>4, TurnTypes, TurnKept DEF Kept
<1>5. ASSUME NEW rect, NEW colour \in Colour, Draw(rect, colour) PROVE IInv'
  BY <1>5, DrawTypes, DrawKept
<1>6. ASSUME NEW rect, NEW d \in Vectors, rfbDoCopyRect(rect, d) PROVE IInv'
  <2>1. TypeOK'
    BY <1>6, CopyTypes
  <2>2. ASSUME NEW c \in Clients PROVE Kept(c)'
    BY <1>6, <2>2, NotCopyingKept, CopyingKept
  <2> QED
    BY <2>1, <2>2
<1>7. ASSUME NEW pixels \in Screens, NEW content \in [pixels -> Colour],
             rfbNewFramebuffer(pixels, content)
      PROVE  IInv'
  BY <1>7, ResizeTypes, ResizeKept
<1>8. CASE UNCHANGED vars
  <2>1. TypeOK'
    BY <1>8 DEF vars, server, client, TypeOK
  <2>2. ASSUME NEW c \in Clients PROVE Kept(c)'
    BY <1>8, <2>2, Untouched DEF vars, server, client, About
  <2> QED
    BY <2>1, <2>2
<1> QED
  BY <1>1, <1>2, <1>3, <1>4, <1>5, <1>6, <1>7, <1>8 DEF Next, Message, Ask

\* Every reachable state is well typed.
THEOREM TypesHold == Spec => []TypeOK
<1>1. Init => IInv
  BY InitTypes, InitKept DEF IInv
<1>2. IInv => TypeOK
  BY DEF IInv
<1> QED
  BY <1>1, <1>2, NextKept, PTL DEF Spec

\* Whatever is drawn, copied, requested and sent in any order, what a client does
\* not have is due to it, or it has to ask for it.
THEOREM NoChangeIsForgotten == Spec => []NoChangeForgotten
<1>1. Init => IInv
  BY InitTypes, InitKept DEF IInv
<1>2. IInv => NoChangeForgotten
  BY DEF IInv, TypeOK, Kept, Current, Owed, NoChangeForgotten
<1> QED
  BY <1>1, <1>2, NextKept, PTL DEF Spec

\* A copy that waits is right whenever it is sent.
THEOREM CopiesAreRight == Spec => []CopiesStayRight
<1>1. Init => IInv
  BY InitTypes, InitKept DEF IInv
<1>2. IInv => CopiesStayRight
  BY DEF IInv, TypeOK, Kept, CopiesRight, CopiesStayRight
<1> QED
  BY <1>1, <1>2, NextKept, PTL DEF Spec

-----------------------------------------------------------------------------
(* ScreenMirror.                                                           *)

LEMMA Pictured == TypeOK => Picture \in [Pixel -> Colour]
<1>1. (CHOOSE k \in Colour : TRUE) \in Colour
  BY RfbUpdatesAssumption
<1> QED
  BY <1>1 DEF TypeOK, Picture

LEMMA InitMirrored == ASSUME Init, NEW c \in Clients PROVE Mirror(c)!Init
BY InitTypes, Pictured DEF Init, Fresh, Mirror!Init

\* What a client may see in a step that leaves the server's picture alone.
LEMMA Refreshed ==
  ASSUME TypeOK, TypeOK', UNCHANGED server, NEW c \in Clients,
         \A p \in Pixel : \/ view'[c][p] \in {view[c][p], Blank}
                          \/ p \in screen /\ view'[c][p] = fb[p]
                          \/ p \in Cursor /\ view'[c][p] = Pointer
  PROVE  Mirror(c)!Next
<1>1. view'[c] \in [Pixel -> Colour \cup {Pointer, Blank}]
  BY DEF TypeOK, Content
<1>2. \A p \in screen : Picture[p] = fb[p]
  BY OnScreen DEF TypeOK, Picture
<1>3. UNCHANGED Picture
  BY DEF Picture, server
<1>4. \A p \in Pixel : view'[c][p] \in Mirror(c)!May(p)
  BY <1>2 DEF Mirror!May
<1> QED
  BY <1>1, <1>3, <1>4 DEF Mirror!Next, Mirror!Refresh

\* What a client may see in any other step: nothing new.
LEMMA Changed ==
  ASSUME TypeOK', NEW c \in Clients, view'[c] = view[c]
  PROVE  Mirror(c)!Next
<1>1. (CHOOSE k \in Colour : TRUE) \in Colour
  BY RfbUpdatesAssumption
<1>2. Picture' \in [Pixel -> Colour]
  BY <1>1 DEF TypeOK, Picture
<1> QED
  BY <1>2 DEF Mirror!Next, Mirror!Change

\* An update brings what the server shows.
LEMMA SendUpdateMirrored ==
  ASSUME IInv, IInv', NEW c \in Clients, rfbSendFramebufferUpdate(c), SendUpdate(c)
  PROVE  Mirror(c)!Next
<1> USE DEF IInv
<1>1. PICK pixels \in {Update(c) \ Copied(c), BBox(Update(c) \ Copied(c))} :
        view' = [view EXCEPT ![c] = Received(c, pixels)]
  BY DEF SendUpdate
<1>2. pixels \subseteq screen /\ screen \subseteq Pixel
  BY Sent, OnScreen DEF Kept, TypeOK
<1>3. view'[c] = Received(c, pixels) /\ UNCHANGED server
  BY <1>1 DEF TypeOK, rfbSendFramebufferUpdate
<1>4. ASSUME NEW p \in Copied(c)
      PROVE  view[c][From(p, delta[c])] \in {Blank, fb[p]} /\ p \in screen
  <2>1. p \in copy[c] \ modified[c] /\ c \in connected
    BY <1>4 DEF Copied, Copyable, Due, rfbSendFramebufferUpdate
  <2> QED
    BY <2>1 DEF Kept, LostIsBlank, CopiesRight, Inside
<1>5. \A p \in Pixel : \/ view'[c][p] \in {view[c][p], Blank}
                       \/ p \in screen /\ view'[c][p] = fb[p]
                       \/ p \in Cursor /\ view'[c][p] = Pointer
  BY <1>2, <1>3, <1>4 DEF Received, Shown
<1> QED
  BY <1>3, <1>5, Refreshed

\* A frame that is allocated is blank.
LEMMA FreshMirrored ==
  ASSUME TypeOK, TypeOK', UNCHANGED server, NEW c \in Clients, view'[c] = Fresh
  PROVE  Mirror(c)!Next
BY Refreshed DEF Fresh

LEMMA NextMirrored ==
  ASSUME IInv, IInv', [Next]_vars, NEW c \in Clients
  PROVE  Mirror(c)!Next
<1> USE DEF IInv
<1>1. ASSUME NEW d \in Clients, rfbNewClient(d) \/ rfbClientConnectionGone(d)
      PROVE  Mirror(c)!Next
  <2>1. view'[c] \in {view[c], Fresh} /\ UNCHANGED server
    BY <1>1 DEF TypeOK, rfbNewClient, rfbClientConnectionGone
  <2> QED
    BY <2>1, Changed, FreshMirrored
<1>2. ASSUME UNCHANGED view PROVE Mirror(c)!Next
  BY <1>2, Changed
<1>3. ASSUME NEW d \in Clients, rfbSendFramebufferUpdate(d), c # d PROVE Mirror(c)!Next
  <2>1. view'[c] = view[c]
    BY <1>3 DEF TypeOK, rfbSendFramebufferUpdate, SendNewFBSize, SendNothing, SendUpdate
  <2> QED
    BY <2>1, Changed
<1>4. ASSUME rfbSendFramebufferUpdate(c), ~ SendUpdate(c) PROVE Mirror(c)!Next
  <2>1. view'[c] \in {view[c], Fresh} /\ UNCHANGED server
    BY <1>4 DEF TypeOK, rfbSendFramebufferUpdate, SendNewFBSize, SendNothing
  <2> QED
    BY <2>1, Changed, FreshMirrored
<1>5. ASSUME rfbSendFramebufferUpdate(c), SendUpdate(c) PROVE Mirror(c)!Next
  BY <1>5, SendUpdateMirrored
<1>6. CASE UNCHANGED vars
  BY <1>6, <1>2 DEF vars, client
<1> QED
  BY <1>1, <1>2, <1>3, <1>4, <1>5, <1>6
  DEF Next, Message, Ask, Turn, StartDeferring, rfbSetEncodings, rfbFramebufferUpdateRequest,
      Draw, rfbDoCopyRect, rfbNewFramebuffer

\* The three regions implement ScreenMirror: whatever happens, no viewer shows a
\* pixel that the server did not show.
THEOREM OnlyTheScreenIsShown == Spec => ShowsOnlyTheScreen
<1>1. Init => IInv
  BY InitTypes, InitKept DEF IInv
<1>2. Init => \A c \in Clients : Mirror(c)!Init
  BY InitMirrored
<1>3. IInv /\ IInv' /\ [Next]_vars =>
        [\A c \in Clients : [Mirror(c)!Next]_(Mirror(c)!vars)]_vars
  BY NextMirrored
<1> QED
  BY <1>1, <1>2, <1>3, NextKept, PTL DEF Spec, ShowsOnlyTheScreen
=============================================================================
