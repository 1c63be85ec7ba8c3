---------------------------- MODULE PointerLock -----------------------------
(***************************************************************************)
(* What libvncserver promises of the pointer that all of its clients       *)
(* share: a client uses it only while no other client holds a button of it,*)
(* a finger comes down only for the client that then holds it, and whoever *)
(* holds it may lose it, with the finger where it is.                      *)
(***************************************************************************)
CONSTANTS Client, None

VARIABLES
  owner,   \* the client that holds a button, or None
  touching \* whether a finger is down on the screen

vars == <<owner, touching>>

Init == owner = None /\ touching = FALSE

Use(c) ==
  /\ owner \in {None, c} /\ owner' \in {None, c}
  /\ touching' \in BOOLEAN
  /\ touching' /\ ~touching => owner' = c

\* The client has gone.
Lose == owner' = None /\ UNCHANGED touching

\* The server has gone, and its device with it.
Destroyed == touching' = FALSE /\ UNCHANGED owner

Next == (\E c \in Client : Use(c)) \/ Lose \/ Destroyed

Spec == Init /\ [][Next]_vars
=============================================================================
