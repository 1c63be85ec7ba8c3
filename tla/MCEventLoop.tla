----------------------------- MODULE MCEventLoop ----------------------------
(***************************************************************************)
(* What rfbProcessEvents serves, one after the other in one thread: the    *)
(* viewers that connect, and the browsers of the http server.  Neither     *)
(* reads what the other writes: each is a part of its own here.            *)
(***************************************************************************)
EXTENDS Handshake, MCHttpd

VARIABLE part

loopVars == <<vars, httpVars, part>>

\* Browsers need not meet every configuration of the handshake.
LoopInit ==
  /\ part \in {"viewers", "browsers"}
  /\ Init /\ (part = "viewers" \/ config = CHOOSE c \in Configs : TRUE)
  /\ HttpInit

LoopNext ==
  \/ part = "viewers" /\ Next /\ UNCHANGED <<httpVars, part>>
  \/ part = "browsers" /\ HttpNext /\ UNCHANGED <<vars, part>>

LoopSpec ==
  /\ LoopInit /\ [][LoopNext]_loopVars
  /\ \A v \in Viewers : WF_vars(Serve(v))
  /\ \A v \in Viewers \ Stalling : WF_vars(Proceed(v))
  /\ WF_httpVars(Select \/ rfbHttpCheckFds)
-----------------------------------------------------------------------------
Options(version, password, always, never, dont) ==
  [minor |-> version, password |-> password, alwaysShared |-> always,
   neverShared |-> never, dontDisconnect |-> dont]

\* What fbvncserver uses without and with a password; the options of the library.
MCConfigs == {
  Options(8, FALSE, TRUE, FALSE, FALSE), Options(8, TRUE, TRUE, FALSE, FALSE),
  Options(7, TRUE, FALSE, FALSE, FALSE), Options(3, TRUE, FALSE, FALSE, TRUE),
  Options(8, FALSE, FALSE, TRUE, TRUE), Options(8, FALSE, TRUE, TRUE, FALSE)}
=============================================================================
