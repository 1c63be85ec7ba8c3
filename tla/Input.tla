------------------------------- MODULE Input --------------------------------
(***************************************************************************)
(* Pointer and keyboard events of the VNC clients: libvncserver reads them *)
(* from the sockets, one message at a time, and lets a client use the      *)
(* pointer while no other holds a button; ptrevent and keyevent of         *)
(* fbvncserver turn them into events of one uinput device.  The flags of   *)
(* ptrevent are static: there is one of each for all of the clients.       *)
(*                                                                         *)
(* A client whose connection is closed stays in the list of clients until  *)
(* rfbProcessEvents has been through the sockets and goes through that     *)
(* list.  Coordinates, and the turning of the screen (F4), are left out.   *)
(***************************************************************************)
EXTENDS Integers

CONSTANTS
  Client,     \* the VNC clients
  NoClient,   \* a null pointerClient
  Keysyms,    \* the keys that clients press, of those below
  MaxMessages \* bound: pointer and key events

Button == {"left", "middle", "right"}

ASSUME InputAssumption ==
  /\ NoClient \notin Client
  /\ Keysyms \subseteq {"letter", "capital", "accent", "ESC", "END", "F11", "F12"}
  /\ MaxMessages \in Nat

VARIABLES
  conn,           \* client -> "away", "open", "closed": not yet out of the list
  pointerClient,  \* pointerClient of the screen
  lastPtrButtons, \* client -> lastPtrButtons, a set of buttons
  listening,      \* whether the server has a socket to accept clients from
  running,        \* whether the process runs
  turn,           \* "sockets": in rfbCheckFds; "list": about to go through the list
  clicked,        \* leftClicked, middleClicked and rightClicked, as a set
  i,              \* the static i of ptrevent, modulo 10
  down,           \* what is down on the uinput device
  last,           \* history: what the last pointer event did, and for whom
  messages        \* events so far

clients == <<conn, pointerClient, lastPtrButtons, listening>>
pointer == <<clicked, i>>
inputVars == <<clients, running, turn, pointer, down, last, messages>>

InputInit ==
  /\ conn = [c \in Client |-> "away"] /\ pointerClient = NoClient
  /\ lastPtrButtons = [c \in Client |-> {}] /\ listening = TRUE
  /\ running = TRUE /\ turn = "sockets"
  /\ clicked = {} /\ i = 0 /\ down = {}
  /\ last = [by |-> NoClient, did |-> "nothing"] /\ messages = 0

-----------------------------------------------------------------------------
(* The device.                                                             *)

\* What ptrevent keeps down for a button: BTN_TOUCH, KEY_END, the back key.
Code == [left |-> "touch", middle |-> "END", right |-> "back"]

\* What a mask does to the left button, given the flags.
LeftButton(mask) ==
  CASE "left" \in mask /\ "left" \in clicked    -> "move"
    [] "left" \in mask /\ "left" \notin clicked -> "press"
    [] "left" \notin mask /\ "left" \in clicked -> "release"
    [] OTHER                                    -> "nothing"

\* (mutant: a released right button does not release its key)
ptrevent_KeepsTheKey(c, mask) ==
  /\ clicked' = mask
  /\ down' = (down \ {Code[b] : b \in (clicked \ mask) \ {"right"}}) \cup {Code[b] : b \in mask}
  /\ i' = IF LeftButton(mask) = "move" THEN (i + 1) % 10 ELSE i
  /\ last' = [by |-> c, did |-> LeftButton(mask)]

\* ptrevent: every button's flag follows the mask, and its key the flag; of
\* the moves, one in ten is reported.
ptrevent(c, mask) ==
  /\ clicked' = mask
  /\ down' = (down \ {Code[b] : b \in clicked \ mask}) \cup {Code[b] : b \in mask}
  /\ i' = IF LeftButton(mask) = "move" THEN (i + 1) % 10 ELSE i
  /\ last' = [by |-> c, did |-> LeftButton(mask)]

\* keysym2scancode: the key, and the modifiers held around it.
Scancode(key) ==
  CASE key \in {"letter", "capital", "accent"} -> "letter"
    [] key = "ESC" -> "back"
    [] key = "END" -> "END"
    [] OTHER       -> "none"
Modifiers(key) ==
  (IF key = "capital" THEN {"shift"} ELSE {}) \cup (IF key = "accent" THEN {"shift", "alt"} ELSE {})

\* (mutant: only the key itself is released)
Typed_KeepsModifiers(key) == (down \cup Modifiers(key) \cup {Scancode(key)}) \ {Scancode(key)}

\* The device after the key and its modifiers are pressed, then released.
Typed(key) == (down \cup Modifiers(key) \cup {Scancode(key)}) \ (Modifiers(key) \cup {Scancode(key)})

-----------------------------------------------------------------------------
(* rfbCheckFds.                                                            *)

Reads(c) == running /\ turn = "sockets" /\ conn[c] = "open"

Message == messages < MaxMessages /\ messages' = messages + 1

\* rfbNewClient; when nothing else was ready, rfbCheckFds returns.
Accepts(c) ==
  /\ running /\ turn = "sockets" /\ listening /\ conn[c] = "away"
  /\ conn' = [conn EXCEPT ![c] = "open"]
  /\ lastPtrButtons' = [lastPtrButtons EXCEPT ![c] = {}]
  /\ turn' \in {"sockets", "list"}
  /\ UNCHANGED <<pointerClient, listening, running, pointer, down, last, messages>>

\* (mutant: whoever sends an event takes the pointer)
MayPoint_Anyone(c) == TRUE

MayPoint(c) == pointerClient \in {NoClient, c}

PointerEvent(c, mask) ==
  /\ Reads(c) /\ Message /\ MayPoint(c)
  /\ pointerClient' = IF mask = {} THEN NoClient ELSE c
  /\ ptrevent(c, mask)
  /\ lastPtrButtons' = [lastPtrButtons EXCEPT ![c] = mask]
  /\ UNCHANGED <<conn, listening, running, turn>>

PointerEventIgnored(c) ==
  /\ Reads(c) /\ Message /\ ~MayPoint(c)
  /\ UNCHANGED <<clients, running, turn, pointer, down, last>>

\* keyevent, where a key going up does nothing.
KeyEvent(c, key) ==
  /\ Reads(c) /\ Message /\ key \notin {"F11", "F12"}
  /\ down' = Typed(key)
  /\ UNCHANGED <<clients, running, turn, pointer, last>>

\* F11: rfbShutdownServer closes every client and the listening socket.
Shutdown(c) ==
  /\ Reads(c) /\ Message
  /\ conn' = [d \in Client |-> IF conn[d] = "open" THEN "closed" ELSE conn[d]]
  /\ listening' = FALSE
  /\ UNCHANGED <<pointerClient, lastPtrButtons, running, turn, pointer, down, last>>

\* F12: exit(0), and the kernel destroys the device.
Exit(c) ==
  /\ Reads(c) /\ Message
  /\ running' = FALSE /\ down' = {}
  /\ UNCHANGED <<clients, turn, pointer, last>>

\* The connection is lost: rfbCloseClient.
Close(c) ==
  /\ Reads(c)
  /\ conn' = [conn EXCEPT ![c] = "closed"]
  /\ UNCHANGED <<pointerClient, lastPtrButtons, listening, running, turn, pointer, down, last, messages>>

\* select finds nothing to read: rfbCheckFds, which handles events eagerly,
\* returns.
Timeout ==
  /\ running /\ turn = "sockets" /\ turn' = "list"
  /\ UNCHANGED <<clients, running, pointer, down, last, messages>>

-----------------------------------------------------------------------------
(* The rest of rfbProcessEvents.                                           *)

ClosedClients == {c \in Client : conn[c] = "closed"}

\* (mutant: the pointer stays with a client that has gone)
Freed_Forgotten == pointerClient

Freed == IF pointerClient \in ClosedClients THEN NoClient ELSE pointerClient

\* rfbClientConnectionGone for every client that was closed.
ClientsGone ==
  /\ running /\ turn = "list" /\ turn' = "sockets"
  /\ conn' = [c \in Client |-> IF c \in ClosedClients THEN "away" ELSE conn[c]]
  /\ pointerClient' = Freed
  /\ UNCHANGED <<lastPtrButtons, listening, running, pointer, down, last, messages>>

InputNext ==
  \/ \E c \in Client :
       \/ Accepts(c) \/ Close(c) \/ PointerEventIgnored(c)
       \/ \E mask \in SUBSET Button : PointerEvent(c, mask)
       \/ \E key \in Keysyms : KeyEvent(c, key)
       \/ "F11" \in Keysyms /\ Shutdown(c)
       \/ "F12" \in Keysyms /\ Exit(c)
  \/ Timeout \/ ClientsGone

\* The main loop goes round as long as there are moments without input.
InputFairness == WF_inputVars(Timeout) /\ WF_inputVars(ClientsGone)

InputSpec == InputInit /\ [][InputNext]_inputVars /\ InputFairness

-----------------------------------------------------------------------------
(* Types: of the scancodes that keyevent and ptrevent write, only those that *)
(* a button holds are ever left down between two messages.                   *)
InputTypeOK ==
  /\ conn \in [Client -> {"away", "open", "closed"}]
  /\ pointerClient \in Client \cup {NoClient}
  /\ lastPtrButtons \in [Client -> SUBSET Button]
  /\ listening \in BOOLEAN /\ running \in BOOLEAN /\ turn \in {"sockets", "list"}
  /\ clicked \subseteq Button /\ i \in 0 .. 9
  /\ down \subseteq {"touch", "END", "back"}
  /\ last \in [by : Client \cup {NoClient}, did : {"move", "press", "release", "nothing"}]
  /\ messages \in Nat

(* The library frees the record of a client when it takes it out of the      *)
(* list: no pointerClient is left behind that points to it                   *)
(* (rfbClientConnectionGone).                                                *)
OwnerIsListed == pointerClient # NoClient => conn[pointerClient] # "away"

(* The flags of ptrevent know of whatever is down on the device: the finger  *)
(* is down as long as leftClicked says so, and no sequence of buttons and    *)
(* keys, some of which share a scancode, leaves a key or a modifier down     *)
(* that no event would release.                                              *)
NothingIsStuck ==
  running => /\ "touch" \in down <=> "left" \in clicked
             /\ down \subseteq {Code[b] : b \in clicked}

(* rfb.h calls pointerClient a "Mutex" for pointer events: the clients use   *)
(* the pointer as PointerLock says, whatever closes in between.              *)
Lock == INSTANCE PointerLock
          WITH None <- NoClient, owner <- pointerClient, touching <- "touch" \in down
PointerIsLocked == Lock!Spec

(* A client that goes away in the middle of a drag does not keep the pointer *)
(* (rfbProcessEvents comes to its record, once input pauses).                *)
PointerIsFreed ==
  \A c \in Client :
    pointerClient = c /\ conn[c] = "closed" ~> pointerClient # c \/ ~running

(* "left btn clicked and moving": what is taken for a move, and is reported  *)
(* once in ten times, comes from a client that had its left button down.     *)
MovesWerePressed ==
  [][last'.did = "move" => "left" \in lastPtrButtons[last'.by]]_last
=============================================================================
