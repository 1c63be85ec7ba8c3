----------------------------- MODULE Handshake ------------------------------
(***************************************************************************)
(* From the connection of a viewer to its first update: the server's state *)
(* machine of each client (rfbserver.c, auth.c) against the viewer of      *)
(* libvncclient (InitialiseRFBConnection), for the protocol versions 3.3,  *)
(* 3.7 and 3.8 on either side.                                             *)
(*                                                                         *)
(* A message is a field and its value; each side reads the field that its  *)
(* own state expects.  The server is one thread: while it waits for the    *)
(* rest of a message it serves nobody.                                     *)
(***************************************************************************)
EXTENDS Integers, Sequences, FiniteSets

CONSTANTS
  Viewers,
  Stalling,       \* the viewers that may stop anywhere, also in the middle of a message
  Minors,         \* the protocol versions 3.x that viewers know
  Configs,        \* the options that a server is started with
  MaxConnections, \* bound: connections of all viewers
  None

ASSUME HandshakeAssumption ==
  /\ Stalling \subseteq Viewers /\ None \notin Viewers
  /\ Minors \subseteq 3 .. 8 /\ MaxConnections \in Nat
  /\ Configs \subseteq [minor : 3 .. 8, password : BOOLEAN, alwaysShared : BOOLEAN,
                        neverShared : BOOLEAN, dontDisconnect : BOOLEAN]

VARIABLES
  config,      \* the options of this server
  state,       \* [viewer -> cl->state, or "none" without a record]
  sock,        \* [viewer -> "none", "backlog", "open", or "closed": cl->sock = -1]
  minor,       \* cl->protocolMinorVersion
  waiting,     \* the client whose message rfbReadExact waits for the rest of
  at,          \* what the viewer waits for
  uses,        \* the viewer's client->minor
  ended,       \* the viewer closed its socket
  toServer, toViewer,
  half,        \* of the last message of the viewer only a part was sent
  proved,      \* history: the viewer gave the right password
  connections

server == <<state, sock, minor, waiting, proved>>
viewer == <<at, uses, ended, half>>
vars == <<config, server, viewer, toServer, toViewer, connections>>

Other == 0   \* what is not a version 3.x of RFB

Everyone(x) == [v \in Viewers |-> x]

Init ==
  /\ config \in Configs
  /\ state = Everyone("none") /\ sock = Everyone("none") /\ minor = Everyone(Other)
  /\ waiting = None /\ proved = Everyone(FALSE)
  /\ at = Everyone("away") /\ uses = Everyone(Other)
  /\ ended = Everyone(TRUE) /\ half = Everyone(FALSE)
  /\ toServer = Everyone(<<>>) /\ toViewer = Everyone(<<>>) /\ connections = 0

-----------------------------------------------------------------------------
(* The server.                                                             *)

\* rfbCloseClient: the record stays in the list, and in its state.
Closes(clients) ==
  sock' = [v \in Viewers |-> IF v \in clients THEN "closed" ELSE sock[v]]

Writes(v, fields) ==
  toViewer' = [toViewer EXCEPT ![v] = IF ended[v] THEN @ ELSE @ \o fields]

\* rfbWriteExact, which may fail once the viewer is gone.
Answer(v, fields, next) ==
  \/ /\ Writes(v, fields)
     /\ state' = [state EXCEPT ![v] = next] /\ UNCHANGED sock
  \/ ended[v] /\ Closes({v}) /\ UNCHANGED <<state, toViewer>>

\* The last words to a client.
Dismiss(v, fields) ==
  Writes(v, fields) /\ Closes({v}) /\ UNCHANGED state

\* rfbNewClient; a client that cannot be written to is forgotten at once.
rfbNewClient(v) ==
  /\ waiting = None /\ sock[v] = "backlog"
  /\ \/ /\ sock' = [sock EXCEPT ![v] = "open"]
        /\ state' = [state EXCEPT ![v] = "PROTOCOL_VERSION"]
        /\ Writes(v, <<<<"version", config.minor>>>>)
     \/ ended[v] /\ sock' = [sock EXCEPT ![v] = "none"] /\ UNCHANGED <<state, toViewer>>
  /\ UNCHANGED <<config, minor, waiting, proved, viewer, toServer, connections>>

\* rfbReadExact has all of the message.
Read(v, in) ==
  /\ waiting \in {None, v} /\ waiting' = None
  /\ sock[v] = "open" /\ state[v] = in /\ toServer[v] # <<>> /\ ~half[v]
  /\ toServer' = [toServer EXCEPT ![v] = Tail(@)]

Said(v) == Head(toServer[v])[2]

Scheme == IF config.password THEN "VncAuth" ELSE "None"

\* (mutant: a viewer of 3.6 or before is not asked for the password)
rfbAuthNewClient_OldUnasked(v, m) ==
  IF m >= 7 THEN Answer(v, <<<<"types", Scheme>>>>, "SECURITY_TYPE")
  ELSE Answer(v, <<<<"scheme", "None">>>>, "INITIALISATION")

\* rfbAuthNewClient: a list of types since 3.7, a scheme before.
rfbAuthNewClient(v, m) ==
  CASE m >= 7 -> Answer(v, <<<<"types", Scheme>>>>, "SECURITY_TYPE")
    [] m < 7 /\ ~config.password -> Answer(v, <<<<"scheme", "None">>>>, "INITIALISATION")
    [] OTHER -> Answer(v, <<<<"scheme", "VncAuth">>, <<"challenge", "bytes">>>>, "AUTHENTICATION")

\* (mutant: the server keeps the version it offered)
Agreed_Own(v) == config.minor

\* The version that a client said is the one it is served in.
Agreed(v) == Said(v)

\* rfbProcessClientProtocolVersion: what is not RFB 3 is closed.
rfbProcessClientProtocolVersion(v) ==
  /\ Read(v, "PROTOCOL_VERSION")
  /\ IF Said(v) = Other
     THEN Closes({v}) /\ UNCHANGED <<state, toViewer, minor>>
     ELSE minor' = [minor EXCEPT ![v] = Agreed(v)] /\ rfbAuthNewClient(v, Agreed(v))
  /\ UNCHANGED <<config, proved, viewer, connections>>

\* (mutant: a result since 3.7)
rfbVncAuthNone_Since7(v) ==
  Answer(v, IF minor[v] >= 7 THEN <<<<"result", "OK">>>> ELSE <<>>, "INITIALISATION")

\* rfbVncAuthNone: a result since 3.8.
rfbVncAuthNone(v) ==
  Answer(v, IF minor[v] > 7 THEN <<<<"result", "OK">>>> ELSE <<>>, "INITIALISATION")

\* rfbProcessClientSecurityType, and the handler of the type; what was not offered
\* is closed.
rfbProcessClientSecurityType(v) ==
  /\ Read(v, "SECURITY_TYPE")
  /\ CASE Said(v) = Scheme /\ Scheme = "None" -> rfbVncAuthNone(v)
       [] Said(v) = Scheme /\ Scheme = "VncAuth" ->
            Answer(v, <<<<"challenge", "bytes">>>>, "AUTHENTICATION")
       [] OTHER -> Closes({v}) /\ UNCHANGED <<state, toViewer>>
  /\ UNCHANGED <<config, minor, proved, viewer, connections>>

\* A wrong password: since 3.8 with a reason.
Refused(v) ==
  Dismiss(v, IF minor[v] > 7 THEN <<<<"result", "failed">>, <<"reason", "text">>>>
             ELSE <<<<"result", "failed">>>>)

\* rfbAuthProcessClientMessage
rfbAuthProcessClientMessage(v) ==
  /\ Read(v, "AUTHENTICATION")
  /\ IF Said(v) = "right" THEN Answer(v, <<<<"result", "OK">>>>, "INITIALISATION") ELSE Refused(v)
  /\ proved' = [proved EXCEPT ![v] = Said(v) = "right"]
  /\ UNCHANGED <<config, minor, viewer, connections>>

\* The other clients that are served: a closed record keeps its state, but the
\* iterator passes it over.
Served(v) == {o \in Viewers \ {v} : sock[o] = "open" /\ state[o] = "NORMAL"}

WantsToBeAlone(v) == config.neverShared \/ (~config.alwaysShared /\ Said(v) = "alone")

\* (mutant: the newcomer stays, and so do the others)
Sharing_Forgotten(v) == UNCHANGED sock

\* (mutant: the others are closed, whatever the options say)
Sharing_Always(v) == IF WantsToBeAlone(v) THEN Closes(Served(v)) ELSE UNCHANGED sock

\* The options say who has to go.
Sharing(v) ==
  CASE ~WantsToBeAlone(v) -> UNCHANGED sock
    [] WantsToBeAlone(v) /\ config.dontDisconnect ->
         IF Served(v) # {} THEN Closes({v}) ELSE UNCHANGED sock
    [] OTHER -> Closes(Served(v))

\* rfbProcessClientInitMessage
rfbProcessClientInitMessage(v) ==
  /\ Read(v, "INITIALISATION")
  /\ \/ /\ Writes(v, <<<<"serverInit", "screen">>>>)
        /\ state' = [state EXCEPT ![v] = "NORMAL"]
        /\ Sharing(v)
     \/ ended[v] /\ Closes({v}) /\ UNCHANGED <<state, toViewer>>
  /\ UNCHANGED <<config, minor, proved, viewer, connections>>

\* rfbReadExact has a part of it: it waits, and the thread with it.
WaitForRest(v) ==
  /\ waiting = None /\ sock[v] = "open" /\ toServer[v] # <<>> /\ half[v]
  /\ waiting' = v
  /\ UNCHANGED <<config, state, sock, minor, proved, viewer, toServer, toViewer, connections>>

\* (mutant: it waits without a timeout)
GivesUp_Never(v) == ended[v]

\* rfbReadExact stops waiting after rfbMaxClientWait, or when the other end closed.
GivesUp(v) == half[v] \/ ended[v]

\* It finds the other end closed, or gives up: the client is closed.
ReadFails(v) ==
  /\ sock[v] = "open"
  /\ \/ waiting = v /\ GivesUp(v)
     \/ waiting = None /\ ended[v] /\ toServer[v] = <<>>
  /\ Closes({v}) /\ waiting' = None
  /\ UNCHANGED <<config, state, minor, proved, viewer, toServer, toViewer, connections>>

\* rfbProcessEvents frees the records of closed clients.
rfbClientConnectionGone(v) ==
  /\ waiting = None /\ sock[v] = "closed"
  /\ sock' = [sock EXCEPT ![v] = "none"] /\ state' = [state EXCEPT ![v] = "none"]
  /\ minor' = [minor EXCEPT ![v] = Other] /\ proved' = [proved EXCEPT ![v] = FALSE]
  /\ UNCHANGED <<config, waiting, viewer, toServer, toViewer, connections>>

rfbProcessClientMessage(v) ==
  \/ rfbProcessClientProtocolVersion(v) \/ rfbProcessClientSecurityType(v)
  \/ rfbAuthProcessClientMessage(v) \/ rfbProcessClientInitMessage(v)

Serve(v) ==
  \/ rfbNewClient(v) \/ rfbProcessClientMessage(v) \/ WaitForRest(v) \/ ReadFails(v)
  \/ rfbClientConnectionGone(v)

-----------------------------------------------------------------------------
(* The viewer: InitialiseRFBConnection.                                    *)

Connect(v) ==
  /\ at[v] \in {"away", "failed"} /\ sock[v] = "none" /\ connections < MaxConnections
  /\ connections' = connections + 1
  /\ sock' = [sock EXCEPT ![v] = "backlog"]
  /\ at' = [at EXCEPT ![v] = "version"]
  /\ ended' = [ended EXCEPT ![v] = FALSE] /\ half' = [half EXCEPT ![v] = FALSE]
  /\ toServer' = [toServer EXCEPT ![v] = <<>>] /\ toViewer' = [toViewer EXCEPT ![v] = <<>>]
  /\ UNCHANGED <<config, state, minor, waiting, proved, uses>>

\* ReadFromRFBServer
Gets(v, field) ==
  /\ at[v] = field /\ toViewer[v] # <<>>
  /\ toViewer' = [toViewer EXCEPT ![v] = Tail(@)]

Got(v) == Head(toViewer[v])[2]

\* WriteToRFBServer; one byte cannot be cut.
Sends(v, field, value, then) ==
  /\ toServer' = [toServer EXCEPT ![v] = Append(@, <<field, value>>)]
  /\ half' \in {[half EXCEPT ![v] = h] :
                  h \in IF v \in Stalling /\ field \in {"version", "response"} THEN BOOLEAN ELSE {FALSE}}
  /\ at' = [at EXCEPT ![v] = then] /\ UNCHANGED ended

\* It closes its socket.
Fails(v) ==
  /\ at' = [at EXCEPT ![v] = "failed"] /\ ended' = [ended EXCEPT ![v] = TRUE]
  /\ uses' = [uses EXCEPT ![v] = Other] /\ UNCHANGED <<half, toServer>>

\* ... with its appData.shareDesktop.
SendsInit(v) == \E share \in {"shared", "alone"} : Sends(v, "shared", share, "serverInit")

\* It uses its own version, or the server's if that is older.  Other programs that
\* connect say something else.
GetVersion(v) ==
  /\ Gets(v, "version")
  /\ \E m \in {IF Got(v) < own THEN Got(v) ELSE own : own \in Minors} \cup {Other} :
       /\ Sends(v, "version", m, IF m > 6 THEN "types" ELSE "scheme")
       /\ uses' = [uses EXCEPT ![v] = m]
  /\ UNCHANGED <<config, server, connections>>

\* No result is awaited for "None" before 3.8; the list is read to its end.
GetTypes(v) ==
  /\ Gets(v, "types")
  /\ LET type == Got(v)
     IN Sends(v, "type", type, CASE type = "VncAuth" -> "challenge"
                                 [] type = "None" /\ uses[v] > 7 -> "result"
                                 [] OTHER -> "init")
  /\ UNCHANGED <<config, server, uses, connections>>

GetScheme(v) ==
  /\ Gets(v, "scheme")
  /\ IF Got(v) = "VncAuth"
     THEN at' = [at EXCEPT ![v] = "challenge"] /\ UNCHANGED <<half, ended, toServer>>
     ELSE SendsInit(v)
  /\ UNCHANGED <<config, server, uses, connections>>

\* Nothing to wait for between the type and the initialisation.
Initialise(v) ==
  /\ at[v] = "init" /\ SendsInit(v)
  /\ UNCHANGED <<config, server, uses, toViewer, connections>>

\* GetPassword may yield nothing, or a wrong password.
GetChallenge(v) ==
  /\ Gets(v, "challenge")
  /\ \/ Fails(v)
     \/ \E key \in {"right", "wrong"} : Sends(v, "response", key, "result") /\ UNCHANGED uses
  /\ UNCHANGED <<config, server, connections>>

\* rfbHandleAuthResult
GetResult(v) ==
  /\ Gets(v, "result")
  /\ CASE Got(v) = "OK" -> SendsInit(v) /\ UNCHANGED uses
       [] Got(v) = "failed" /\ uses[v] > 7 ->
            at' = [at EXCEPT ![v] = "reason"] /\ UNCHANGED <<uses, half, ended, toServer>>
       [] OTHER -> Fails(v)
  /\ UNCHANGED <<config, server, connections>>

GetReason(v) ==
  /\ Gets(v, "reason") /\ Fails(v)
  /\ UNCHANGED <<config, server, connections>>

GetServerInit(v) ==
  /\ Gets(v, "serverInit") /\ at' = [at EXCEPT ![v] = "running"]
  /\ UNCHANGED <<config, server, uses, ended, half, toServer, connections>>

\* The rest of the message.
SendRest(v) ==
  /\ half[v] /\ ~ended[v] /\ half' = [half EXCEPT ![v] = FALSE]
  /\ UNCHANGED <<config, server, at, uses, ended, toServer, toViewer, connections>>

Connected(v) == at[v] \notin {"away", "failed"}

\* The server closed; a reset may also take what had not been read.
Lost(v) ==
  /\ Connected(v) /\ sock[v] \in {"closed", "none"} /\ Fails(v)
  /\ toViewer' = [toViewer EXCEPT ![v] = <<>>] /\ UNCHANGED <<config, server, connections>>

\* The user has enough.
Quit(v) ==
  /\ Connected(v) /\ Fails(v)
  /\ toViewer' = [toViewer EXCEPT ![v] = <<>>] /\ UNCHANGED <<config, server, connections>>

Proceed(v) ==
  \/ GetVersion(v) \/ GetTypes(v) \/ GetScheme(v) \/ Initialise(v) \/ GetChallenge(v)
  \/ GetResult(v) \/ GetReason(v) \/ GetServerInit(v) \/ SendRest(v) \/ Lost(v)

Next == \E v \in Viewers : Serve(v) \/ Connect(v) \/ Proceed(v) \/ Quit(v)

Spec == Init /\ [][Next]_vars

\* Each pass of rfbCheckFds serves every client that can be read; a viewer that does
\* not stall goes on, its user answers included.
FairSpec ==
  /\ Spec
  /\ \A v \in Viewers : WF_vars(Serve(v))
  /\ \A v \in Viewers \ Stalling : WF_vars(Proceed(v))
-----------------------------------------------------------------------------
States == {"none", "PROTOCOL_VERSION", "SECURITY_TYPE", "AUTHENTICATION", "INITIALISATION", "NORMAL"}

TypeOK ==
  /\ config \in Configs /\ waiting \in Viewers \cup {None}
  /\ state \in [Viewers -> States]
  /\ sock \in [Viewers -> {"none", "backlog", "open", "closed"}]
  /\ minor \in [Viewers -> 3 .. 8 \cup {Other}] /\ uses \in [Viewers -> 3 .. 8 \cup {Other}]
  /\ ended \in [Viewers -> BOOLEAN]
  /\ half \in [Viewers -> BOOLEAN]
  /\ proved \in [Viewers -> BOOLEAN]
  /\ connections \in 0 .. MaxConnections

Expected == [PROTOCOL_VERSION |-> "version", SECURITY_TYPE |-> "type",
             AUTHENTICATION |-> "response", INITIALISATION |-> "shared"]

\* Both sides read what the other side wrote, whatever versions they know: a field
\* that one of them does not send would be read from the bytes of the next.
Framed == \A v \in Viewers : Connected(v) /\ sock[v] = "open" =>
  /\ toServer[v] # <<>> => state[v] \in DOMAIN Expected /\ Head(toServer[v])[1] = Expected[state[v]]
  /\ toViewer[v] # <<>> /\ at[v] # "init" => Head(toViewer[v])[1] = at[v]

\* Nobody is served who did not give the password that the server was started with,
\* by any way through the versions.
ServedAreAdmitted == \A v \in Viewers :
  sock[v] = "open" /\ state[v] = "NORMAL" /\ config.password => proved[v]

\* A viewer that takes itself for connected is served, and in the version it uses.
InStep == \A v \in Viewers : at[v] = "running" /\ sock[v] = "open" =>
  state[v] = "NORMAL" /\ minor[v] = uses[v]

\* With neverShared at most one client is served.
NeverShared == config.neverShared =>
  Cardinality({v \in Viewers : sock[v] = "open" /\ state[v] = "NORMAL"}) <= 1

\* With dontDisconnect nobody who is served loses its connection to a newcomer.
NotThrownOut ==
  [][config.dontDisconnect =>
       \A v \in Viewers : sock[v] = "open" /\ state[v] = "NORMAL" /\ sock'[v] = "closed" => ended[v]]_vars

\* Every viewer that does not stall is served or refused in the end, though others
\* stop in the middle of a message.
Decided == \A v \in Viewers \ Stalling : at[v] = "version" ~> at[v] \in {"running", "failed"}
=============================================================================
