-------------------------- MODULE EventLoopProofs ---------------------------
(***************************************************************************)
(* What the two conversations of the event loop keep to.  Between a server *)
(* of any options and viewers of any versions: both ends read what the     *)
(* other wrote, and the rules of admission.  Between the http server and   *)
(* its browsers: what it answers, whatever its files and its buffer.       *)
(***************************************************************************)
EXTENDS Handshake, Httpd, FiniteSetTheorems, SequenceTheorems, WellFoundedInduction, TLAPS

-----------------------------------------------------------------------------
(* The handshake.                                                          *)

Versions == 3 .. 8 \cup {Other}

Sockets == {"none", "backlog", "open", "closed"}

\* Types, as far as the steps need them.
RecordsOK ==
  /\ config \in Configs /\ waiting \in Viewers \cup {None}
  /\ state \in [Viewers -> States] /\ sock \in [Viewers -> Sockets]
  /\ minor \in [Viewers -> Versions] /\ uses \in [Viewers -> Versions]
  /\ ended \in [Viewers -> BOOLEAN] /\ half \in [Viewers -> BOOLEAN]
  /\ proved \in [Viewers -> BOOLEAN]
  /\ DOMAIN at = Viewers /\ DOMAIN toServer = Viewers /\ DOMAIN toViewer = Viewers
  /\ connections \in 0 .. MaxConnections

-----------------------------------------------------------------------------
(* The conversation of one viewer that did not end and one server that did *)
(* not close: in each state of the server, what has been written and not   *)
(* read, and what the viewer waits for.                                    *)

ToRead(v, place, fields) == at[v] = place /\ toViewer[v] = fields /\ toServer[v] = <<>>

Sent(v, place, fields) == at[v] = place /\ toViewer[v] = <<>> /\ toServer[v] = fields

Greeting(v) ==
  \/ ToRead(v, "version", <<<<"version", config.minor>>>>) /\ ~half[v]
  \/ Sent(v, IF uses[v] > 6 THEN "types" ELSE "scheme", <<<<"version", uses[v]>>>>)

Choosing(v) ==
  /\ minor[v] = uses[v] /\ uses[v] >= 7 /\ ~half[v]
  /\ \/ ToRead(v, "types", <<<<"types", Scheme>>>>)
     \/ config.password /\ Sent(v, "challenge", <<<<"type", "VncAuth">>>>)
     \/ ~config.password /\ uses[v] > 7 /\ Sent(v, "result", <<<<"type", "None">>>>)
     \/ /\ ~config.password /\ ~(uses[v] > 7)
        /\ \/ Sent(v, "init", <<<<"type", "None">>>>)
           \/ \E share \in {"shared", "alone"} : Sent(v, "serverInit", <<<<"type", "None">>, <<"shared", share>>>>)

Proving(v) ==
  /\ minor[v] = uses[v] /\ config.password
  /\ \/ ToRead(v, "scheme", <<<<"scheme", "VncAuth">>, <<"challenge", "bytes">>>>) /\ ~half[v]
     \/ ToRead(v, "challenge", <<<<"challenge", "bytes">>>>) /\ ~half[v]
     \/ \E key \in {"right", "wrong"} : Sent(v, "result", <<<<"response", key>>>>)

Joining(v) ==
  /\ minor[v] = uses[v] /\ ~half[v]
  /\ \/ ToRead(v, "scheme", <<<<"scheme", "None">>>>)
     \/ ToRead(v, "result", <<<<"result", "OK">>>>)
     \/ Sent(v, "init", <<>>)
     \/ \E share \in {"shared", "alone"} : Sent(v, "serverInit", <<<<"shared", share>>>>)

Serving(v) ==
  /\ minor[v] = uses[v] /\ ~half[v]
  /\ \/ ToRead(v, "serverInit", <<<<"serverInit", "screen">>>>)
     \/ Sent(v, "running", <<>>)

Conversation(v) ==
  \/ state[v] = "PROTOCOL_VERSION" /\ Greeting(v)
  \/ state[v] = "SECURITY_TYPE" /\ Choosing(v)
  \/ state[v] = "AUTHENTICATION" /\ Proving(v)
  \/ state[v] = "INITIALISATION" /\ Joining(v)
  \/ state[v] = "NORMAL" /\ Serving(v)

\* Also of a viewer that ended the server reads no version but what was said as one, and
\* also of a server that closed the viewer reads none but the server's.
Talk(v) ==
  /\ ended[v] <=> at[v] \in {"away", "failed"}
  /\ sock[v] = "backlog" => toServer[v] = <<>>
  /\ sock[v] = "backlog" /\ ~ended[v] => ToRead(v, "version", <<>>) /\ ~half[v]
  /\ sock[v] = "open" /\ ~ended[v] => Conversation(v)
  /\ sock[v] = "open" /\ state[v] = "PROTOCOL_VERSION" =>
       toServer[v] = <<>> \/ \E m \in Versions : toServer[v] = <<<<"version", m>>>>
  /\ at[v] = "version" => toViewer[v] \in {<<>>, <<<<"version", config.minor>>>>}

\* Nobody has come past the password without it.
Admitted == config.password =>
  \A v \in Viewers : state[v] \in {"INITIALISATION", "NORMAL"} => proved[v]

\* Alone is alone.
Alone == config.neverShared => \A v, w \in Viewers :
  sock[v] = "open" /\ state[v] = "NORMAL" /\ sock[w] = "open" /\ state[w] = "NORMAL" => v = w

Kept == RecordsOK /\ (\A v \in Viewers : Talk(v)) /\ Admitted /\ Alone

-----------------------------------------------------------------------------
LEMMA Options ==
  ASSUME NEW c \in Configs
  PROVE  /\ c.minor \in 3 .. 8 /\ c.password \in BOOLEAN /\ c.neverShared \in BOOLEAN
         /\ c.alwaysShared \in BOOLEAN /\ c.dontDisconnect \in BOOLEAN
BY HandshakeAssumption DEF HandshakeAssumption

\* The sequences of a conversation are short.
LEMMA Tuples ==
  ASSUME NEW a, NEW b
  PROVE  /\ Head(<<a>>) = a /\ Tail(<<a>>) = <<>> /\ <<a>> # <<>>
         /\ Head(<<a, b>>) = a /\ Tail(<<a, b>>) = <<b>> /\ <<a, b>> # <<>>
         /\ Append(<<>>, a) = <<a>> /\ Append(<<a>>, b) = <<a, b>>
         /\ <<>> \o <<>> = <<>> /\ <<>> \o <<a>> = <<a>> /\ <<>> \o <<a, b>> = <<a, b>>
<1>1. Head(<<a>>) = a /\ <<a>> # <<>> /\ Head(<<a, b>>) = a /\ <<a, b>> # <<>>
  OBVIOUS
<1>2. Tail(<<a>>) = <<>>
  OBVIOUS
<1>3. Tail(<<a, b>>) = <<b>>
  OBVIOUS
<1>4. Append(<<>>, a) = <<a>>
  OBVIOUS
<1>5. Append(<<a>>, b) = <<a, b>>
  <2>1. <<a>> \in Seq({a, b}) /\ b \in {a, b} /\ Len(<<a>>) = 1
    OBVIOUS
  <2>2. /\ Append(<<a>>, b) \in Seq({a, b}) /\ Len(Append(<<a>>, b)) = 2
        /\ Append(<<a>>, b)[1] = a /\ Append(<<a>>, b)[2] = b
    BY <2>1, AppendProperties
  <2>3. /\ <<a, b>> \in Seq({a, b}) /\ Len(<<a, b>>) = 2 /\ <<a, b>>[1] = a /\ <<a, b>>[2] = b
        /\ 1 .. 2 = {1, 2}
    OBVIOUS
  <2> QED
    BY <2>2, <2>3, SeqEqual
<1>6. <<>> \o <<>> = <<>>
  OBVIOUS
<1>7. <<>> \o <<a>> = <<a>>
  OBVIOUS
<1>8. <<>> \o <<a, b>> = <<a, b>>
  OBVIOUS
<1> QED
  BY <1>1, <1>2, <1>3, <1>4, <1>5, <1>6, <1>7, <1>8

-----------------------------------------------------------------------------
(* Types.                                                                  *)

LEMMA ConfigTypes ==
  ASSUME RecordsOK
  PROVE  /\ config.minor \in 3 .. 8 /\ config.password \in BOOLEAN
         /\ Scheme = (IF config.password THEN "VncAuth" ELSE "None")
BY Options DEF RecordsOK, Scheme

\* A version that is read was said as one, at either end.
LEMMA SaidVersion ==
  ASSUME RecordsOK, NEW v \in Viewers, Talk(v), rfbProcessClientProtocolVersion(v)
  PROVE  Said(v) \in Versions
BY Tuples DEF Talk, rfbProcessClientProtocolVersion, Read, Said

LEMMA GotVersion ==
  ASSUME RecordsOK, NEW v \in Viewers, Talk(v), GetVersion(v)
  PROVE  Got(v) = config.minor
BY Tuples DEF Talk, GetVersion, Gets, Got

LEMMA ServerTypes ==
  ASSUME RecordsOK, NEW v \in Viewers, Talk(v), Serve(v)
  PROVE  RecordsOK'
<1>1. UNCHANGED <<config, viewer, connections>>
  BY DEF Serve, rfbNewClient, rfbProcessClientMessage, rfbProcessClientProtocolVersion,
         rfbProcessClientSecurityType, rfbAuthProcessClientMessage, rfbProcessClientInitMessage,
         WaitForRest, ReadFails, rfbClientConnectionGone
<1>2. DOMAIN toServer' = Viewers /\ waiting' \in Viewers \cup {None}
  BY DEF Serve, rfbNewClient, rfbProcessClientMessage, rfbProcessClientProtocolVersion,
         rfbProcessClientSecurityType, rfbAuthProcessClientMessage, rfbProcessClientInitMessage,
         WaitForRest, ReadFails, rfbClientConnectionGone, Read, RecordsOK
<1>3. \A c : Closes(c) => sock' \in [Viewers -> Sockets]
  BY DEF Closes, RecordsOK, Sockets
<1>4. \A fields : Writes(v, fields) => DOMAIN toViewer' = Viewers
  BY DEF Writes, RecordsOK
<1> DEFINE Answered == /\ state' \in [Viewers -> States] /\ sock' \in [Viewers -> Sockets]
                        /\ DOMAIN toViewer' = Viewers
<1>5. ASSUME NEW fields, NEW next \in States, Answer(v, fields, next)
      PROVE  Answered
  BY <1>3, <1>4, <1>5 DEF Answer, RecordsOK
<1>6. /\ state' \in [Viewers -> States] /\ sock' \in [Viewers -> Sockets]
      /\ DOMAIN toViewer' = Viewers /\ minor' \in [Viewers -> Versions]
      /\ proved' \in [Viewers -> BOOLEAN]
  <2>1. CASE rfbNewClient(v)
    BY <1>4, <2>1 DEF rfbNewClient, RecordsOK, States, Sockets
  <2>2. CASE rfbProcessClientProtocolVersion(v)
    <3>1. Said(v) \in Versions
      BY <2>2, SaidVersion
    <3>2. CASE Said(v) = Other
      BY <1>3, <2>2, <3>2 DEF rfbProcessClientProtocolVersion, RecordsOK
    <3>3. CASE Said(v) # Other
      <4>1. minor' = [minor EXCEPT ![v] = Said(v)] /\ UNCHANGED proved
        BY <2>2, <3>3 DEF rfbProcessClientProtocolVersion, Agreed
      <4>2. rfbAuthNewClient(v, Said(v))
        BY <2>2, <3>3 DEF rfbProcessClientProtocolVersion, Agreed
      <4>3. Answered
        BY <1>5, <4>2 DEF rfbAuthNewClient, States
      <4> QED
        BY <3>1, <4>1, <4>3 DEF RecordsOK
    <3> QED
      BY <3>2, <3>3
  <2>3. CASE rfbProcessClientSecurityType(v)
    <3>1. UNCHANGED <<minor, proved>>
      BY <2>3 DEF rfbProcessClientSecurityType
    <3>2. Answered
      BY <1>3, <1>5, <2>3 DEF rfbProcessClientSecurityType, rfbVncAuthNone, States, RecordsOK
    <3> QED
      BY <3>1, <3>2 DEF RecordsOK
  <2>4. CASE rfbAuthProcessClientMessage(v)
    <3>1. UNCHANGED minor /\ proved' \in [Viewers -> BOOLEAN]
      BY <2>4 DEF rfbAuthProcessClientMessage, RecordsOK
    <3>2. Answered
      BY <1>3, <1>4, <1>5, <2>4 DEF rfbAuthProcessClientMessage, Refused, Dismiss, States, RecordsOK
    <3> QED
      BY <3>1, <3>2 DEF RecordsOK
  <2>5. CASE rfbProcessClientInitMessage(v)
    BY <1>3, <1>4, <2>5 DEF rfbProcessClientInitMessage, Sharing, RecordsOK, States
  <2>6. CASE WaitForRest(v)
    BY <2>6 DEF WaitForRest, RecordsOK
  <2>7. CASE ReadFails(v)
    BY <1>3, <2>7 DEF ReadFails, RecordsOK
  <2>8. CASE rfbClientConnectionGone(v)
    BY <2>8 DEF rfbClientConnectionGone, RecordsOK, States, Sockets, Versions
  <2> QED
    BY <2>1, <2>2, <2>3, <2>4, <2>5, <2>6, <2>7, <2>8 DEF Serve, rfbProcessClientMessage
<1> QED
  BY <1>1, <1>2, <1>6 DEF RecordsOK, viewer

LEMMA ViewerTypes ==
  ASSUME RecordsOK, NEW v \in Viewers, Talk(v), Connect(v) \/ Proceed(v) \/ Quit(v)
  PROVE  RecordsOK'
<1>1. \A field, value, then : Sends(v, field, value, then) =>
        /\ half' \in [Viewers -> BOOLEAN] /\ DOMAIN at' = Viewers /\ DOMAIN toServer' = Viewers
        /\ UNCHANGED ended
  BY DEF Sends, RecordsOK
<1>2. Fails(v) => /\ UNCHANGED <<half, toServer>> /\ uses' \in [Viewers -> Versions]
                  /\ DOMAIN at' = Viewers /\ ended' \in [Viewers -> BOOLEAN]
  BY DEF Fails, RecordsOK, Versions
<1>3. \A field : Gets(v, field) => DOMAIN toViewer' = Viewers
  BY DEF Gets, RecordsOK
<1>4. CASE Connect(v)
  BY <1>4, HandshakeAssumption DEF HandshakeAssumption, Connect, RecordsOK, Sockets
<1>5. CASE GetVersion(v)
  <2>1. Got(v) = config.minor /\ config.minor \in 3 .. 8
    BY <1>5, GotVersion, ConfigTypes
  <2>2. {IF Got(v) < own THEN Got(v) ELSE own : own \in Minors} \cup {Other} \subseteq Versions
    BY <2>1, HandshakeAssumption DEF HandshakeAssumption, Versions
  <2>3. PICK m \in Versions :
          /\ Sends(v, "version", m, IF m > 6 THEN "types" ELSE "scheme")
          /\ uses' = [uses EXCEPT ![v] = m]
    BY <1>5, <2>2 DEF GetVersion
  <2> QED
    BY <1>1, <1>3, <1>5, <2>3 DEF GetVersion, RecordsOK, server
<1>6. CASE GetTypes(v)
  BY <1>1, <1>3, <1>6 DEF GetTypes, RecordsOK, server
<1>7. CASE GetScheme(v)
  BY <1>1, <1>3, <1>7 DEF GetScheme, SendsInit, RecordsOK, server
<1>8. CASE Initialise(v)
  BY <1>1, <1>8 DEF Initialise, SendsInit, RecordsOK, server
<1>9. CASE GetChallenge(v)
  BY <1>1, <1>2, <1>3, <1>9 DEF GetChallenge, RecordsOK, server
<1>10. CASE GetResult(v)
  BY <1>1, <1>2, <1>3, <1>10 DEF GetResult, SendsInit, RecordsOK, server
<1>11. CASE GetReason(v) \/ GetServerInit(v)
  BY <1>2, <1>3, <1>11 DEF GetReason, GetServerInit, RecordsOK, server
<1>12. CASE SendRest(v)
  BY <1>12 DEF SendRest, RecordsOK, server
<1>13. CASE Lost(v) \/ Quit(v)
  BY <1>2, <1>13 DEF Lost, Quit, RecordsOK, server
<1> QED
  BY <1>4, <1>5, <1>6, <1>7, <1>8, <1>9, <1>10, <1>11, <1>12, <1>13 DEF Proceed

-----------------------------------------------------------------------------
(* What a step of one leaves of another.                                   *)

\* A newcomer may close others, and does nothing else to them.
Untouched(o) ==
  /\ state'[o] = state[o] /\ minor'[o] = minor[o] /\ proved'[o] = proved[o]
  /\ at'[o] = at[o] /\ uses'[o] = uses[o] /\ ended'[o] = ended[o] /\ half'[o] = half[o]
  /\ toServer'[o] = toServer[o] /\ toViewer'[o] = toViewer[o]
  /\ sock'[o] \in {sock[o], "closed"}

Step(v) == Serve(v) \/ Connect(v) \/ Proceed(v) \/ Quit(v)

Domains ==
  /\ DOMAIN state = Viewers /\ DOMAIN sock = Viewers /\ DOMAIN minor = Viewers
  /\ DOMAIN proved = Viewers /\ DOMAIN at = Viewers /\ DOMAIN uses = Viewers
  /\ DOMAIN ended = Viewers /\ DOMAIN half = Viewers
  /\ DOMAIN toServer = Viewers /\ DOMAIN toViewer = Viewers

LEMMA ServerLeavesOthers ==
  ASSUME RecordsOK, NEW v \in Viewers, NEW o \in Viewers \ {v}, Serve(v)
  PROVE  Untouched(o) /\ UNCHANGED config
<1>0. Domains /\ o \in Viewers /\ o # v
  BY DEF RecordsOK, Domains
<1>1. UNCHANGED <<config, viewer, connections>> /\ toServer'[o] = toServer[o]
  BY <1>0 DEF Domains, Serve, rfbNewClient, rfbProcessClientMessage, rfbProcessClientProtocolVersion,
         rfbProcessClientSecurityType, rfbAuthProcessClientMessage, rfbProcessClientInitMessage,
         WaitForRest, ReadFails, rfbClientConnectionGone, Read
<1>2. minor'[o] = minor[o] /\ proved'[o] = proved[o]
  BY <1>0 DEF Domains, Serve, rfbNewClient, rfbProcessClientMessage, rfbProcessClientProtocolVersion,
         rfbProcessClientSecurityType, rfbAuthProcessClientMessage, rfbProcessClientInitMessage,
         WaitForRest, ReadFails, rfbClientConnectionGone
<1>3. \A c : Closes(c) => sock'[o] \in {sock[o], "closed"}
  BY <1>0 DEF Domains, Closes
<1>4. \A fields : Writes(v, fields) => toViewer'[o] = toViewer[o]
  BY <1>0 DEF Domains, Writes
<1> DEFINE Same == /\ state'[o] = state[o] /\ toViewer'[o] = toViewer[o]
                   /\ sock'[o] \in {sock[o], "closed"}
<1>5. ASSUME NEW fields, NEW next, Answer(v, fields, next) PROVE Same
  BY <1>0, <1>3, <1>4, <1>5 DEF Domains, Answer
<1>6. ASSUME rfbProcessClientProtocolVersion(v) PROVE Same
  BY <1>3, <1>5, <1>6 DEF rfbProcessClientProtocolVersion, rfbAuthNewClient
<1>7. ASSUME rfbProcessClientSecurityType(v) PROVE Same
  BY <1>3, <1>5, <1>7 DEF rfbProcessClientSecurityType, rfbVncAuthNone
<1>8. ASSUME rfbAuthProcessClientMessage(v) PROVE Same
  BY <1>3, <1>4, <1>5, <1>8 DEF rfbAuthProcessClientMessage, Refused, Dismiss
<1>9. ASSUME rfbProcessClientInitMessage(v) PROVE Same
  BY <1>0, <1>3, <1>4, <1>9 DEF Domains, rfbProcessClientInitMessage, Sharing
<1>10. ASSUME rfbNewClient(v) \/ WaitForRest(v) \/ ReadFails(v) \/ rfbClientConnectionGone(v) PROVE Same
  BY <1>0, <1>3, <1>4, <1>10 DEF Domains, rfbNewClient, WaitForRest, ReadFails, rfbClientConnectionGone
<1>11. Same
  BY <1>6, <1>7, <1>8, <1>9, <1>10 DEF Serve, rfbProcessClientMessage
<1> QED
  BY <1>1, <1>2, <1>11 DEF Untouched, viewer

LEMMA ViewerLeavesOthers ==
  ASSUME RecordsOK, NEW v \in Viewers, NEW o \in Viewers \ {v}, Connect(v) \/ Proceed(v) \/ Quit(v)
  PROVE  Untouched(o) /\ UNCHANGED config
<1>0. Domains /\ o \in Viewers /\ o # v
  BY DEF RecordsOK, Domains
<1>1. ASSUME NEW field, NEW value, NEW then, Sends(v, field, value, then)
      PROVE  toServer'[o] = toServer[o] /\ half'[o] = half[o] /\ at'[o] = at[o] /\ UNCHANGED ended
  BY <1>0, <1>1 DEF Domains, Sends
<1>2. Fails(v) => /\ at'[o] = at[o] /\ ended'[o] = ended[o] /\ uses'[o] = uses[o]
                  /\ UNCHANGED <<half, toServer>>
  BY <1>0 DEF Domains, Fails
<1>3. \A field : Gets(v, field) => toViewer'[o] = toViewer[o]
  BY <1>0 DEF Domains, Gets
<1>4. CASE Connect(v)
  BY <1>0, <1>4 DEF Domains, Connect, Untouched
<1>5. CASE GetVersion(v) \/ GetTypes(v)
  BY <1>0, <1>1, <1>3, <1>5 DEF Domains, GetVersion, GetTypes, server, Untouched
<1>6. CASE GetScheme(v) \/ Initialise(v)
  BY <1>0, <1>1, <1>3, <1>6 DEF Domains, GetScheme, Initialise, SendsInit, server, Untouched
<1>7. CASE GetChallenge(v)
  BY <1>1, <1>2, <1>3, <1>7 DEF GetChallenge, server, Untouched
<1>8. CASE GetResult(v)
  BY <1>0, <1>1, <1>2, <1>3, <1>8 DEF Domains, GetResult, SendsInit, server, Untouched
<1>9. CASE GetReason(v) \/ GetServerInit(v) \/ SendRest(v)
  BY <1>0, <1>2, <1>3, <1>9 DEF Domains, GetReason, GetServerInit, SendRest, server, Untouched
<1>10. CASE Lost(v) \/ Quit(v)
  BY <1>0, <1>2, <1>10 DEF Domains, Lost, Quit, server, Untouched
<1> QED
  BY <1>4, <1>5, <1>6, <1>7, <1>8, <1>9, <1>10 DEF Proceed

\* What is said of a conversation is said of the state of its two ends.
LEMMA UntouchedTalks ==
  ASSUME NEW o \in Viewers, Talk(o), Untouched(o), UNCHANGED config
  PROVE  Talk(o)'
<1>1. Scheme' = Scheme
  BY DEF Scheme
<1>2. Conversation(o)' <=> Conversation(o)
  BY <1>1 DEF Untouched, Conversation, Greeting, Choosing, Proving, Joining, Serving, ToRead, Sent
<1> QED
  BY <1>2 DEF Untouched, Talk, ToRead

\* The server has done with a client.
LEMMA ClosedTalks ==
  ASSUME NEW v \in Viewers, Talk(v), UNCHANGED config, sock'[v] \notin {"backlog", "open"},
         at'[v] = at[v], ended'[v] = ended[v], toViewer'[v] = toViewer[v] \/ at[v] # "version"
  PROVE  Talk(v)'
BY DEF Talk

\* The viewer has ended.
LEMMA EndedTalks ==
  ASSUME NEW v \in Viewers, Talk(v), UNCHANGED config, sock'[v] = sock[v], state'[v] = state[v],
         at'[v] = "failed", ended'[v], toServer'[v] = toServer[v]
  PROVE  Talk(v)'
BY DEF Talk

-----------------------------------------------------------------------------
(* The server's part of a conversation.                                    *)

LEMMA NewClientTalks ==
  ASSUME RecordsOK, NEW v \in Viewers, Talk(v), rfbNewClient(v)
  PROVE  Talk(v)'
<1>1. sock[v] = "backlog" /\ UNCHANGED <<config, minor, at, uses, ended, half, toServer>>
  BY DEF rfbNewClient, viewer
<1>2. CASE sock' = [sock EXCEPT ![v] = "none"] /\ UNCHANGED <<state, toViewer>>
  BY <1>1, <1>2, ClosedTalks DEF RecordsOK
<1>3. CASE /\ sock' = [sock EXCEPT ![v] = "open"]
           /\ state' = [state EXCEPT ![v] = "PROTOCOL_VERSION"]
           /\ Writes(v, <<<<"version", config.minor>>>>)
  <2>1. /\ sock'[v] = "open" /\ state'[v] = "PROTOCOL_VERSION" /\ toServer'[v] = <<>>
        /\ toViewer'[v] = IF ended[v] THEN toViewer[v]
                          ELSE toViewer[v] \o <<<<"version", config.minor>>>>
    BY <1>1, <1>3 DEF Writes, Talk, RecordsOK
  <2>2. CASE ended[v]
    BY <1>1, <2>1, <2>2 DEF Talk
  <2>3. CASE ~ended[v]
    <3>1. at[v] = "version" /\ toViewer[v] = <<>> /\ ~half[v]
      BY <1>1, <2>3 DEF Talk, ToRead
    <3>2. toViewer'[v] = <<<<"version", config.minor>>>>
      BY <2>1, <2>3, <3>1, Tuples
    <3>3. Conversation(v)'
      BY <1>1, <2>1, <3>1, <3>2 DEF Conversation, Greeting, ToRead
    <3> QED
      BY <1>1, <2>1, <2>3, <3>1, <3>2, <3>3 DEF Talk
  <2> QED
    BY <2>2, <2>3
<1> QED
  BY <1>2, <1>3 DEF rfbNewClient

\* What an answer has to add to the conversation.
LEMMA AnswerTalks ==
  ASSUME RecordsOK, NEW v \in Viewers, Talk(v), sock[v] = "open", UNCHANGED <<config, viewer>>,
         NEW fields, NEW next \in States \ {"PROTOCOL_VERSION"}, Answer(v, fields, next),
         ~ended[v] => at[v] # "version",
         ~ended[v] /\ state'[v] = next /\ toViewer'[v] = toViewer[v] \o fields => Conversation(v)'
  PROVE  Talk(v)'
<1>1. at'[v] = at[v] /\ ended'[v] = ended[v]
  BY DEF viewer
<1>2. CASE ended[v] /\ Closes({v}) /\ UNCHANGED <<state, toViewer>>
  BY <1>1, <1>2, ClosedTalks DEF Closes
<1>3. CASE Writes(v, fields) /\ state' = [state EXCEPT ![v] = next] /\ UNCHANGED sock
  <2>1. /\ sock'[v] = "open" /\ state'[v] = next
        /\ toViewer'[v] = IF ended[v] THEN toViewer[v] ELSE toViewer[v] \o fields
    BY <1>3 DEF Writes, RecordsOK
  <2> QED
    BY <1>1, <2>1 DEF Talk
<1> QED
  BY <1>2, <1>3 DEF Answer

LEMMA VersionTalks ==
  ASSUME RecordsOK, NEW v \in Viewers, Talk(v), rfbProcessClientProtocolVersion(v)
  PROVE  Talk(v)'
<1>1. /\ sock[v] = "open" /\ state[v] = "PROTOCOL_VERSION" /\ toServer[v] # <<>> /\ ~half[v]
      /\ toServer'[v] = Tail(toServer[v]) /\ UNCHANGED <<config, at, uses, ended, half>>
      /\ UNCHANGED <<config, viewer>>
  BY DEF rfbProcessClientProtocolVersion, Read, viewer, RecordsOK
<1>2. /\ config.password \in BOOLEAN /\ uses[v] \in Versions
      /\ Scheme = (IF config.password THEN "VncAuth" ELSE "None") /\ Scheme' = Scheme
  BY <1>1, ConfigTypes DEF RecordsOK, Scheme
<1>3. ASSUME ~ended[v]
      PROVE  /\ toServer[v] = <<<<"version", uses[v]>>>> /\ toServer'[v] = <<>> /\ toViewer[v] = <<>>
             /\ at[v] = (IF uses[v] > 6 THEN "types" ELSE "scheme") /\ Said(v) = uses[v]
  <2>1. Greeting(v)
    BY <1>1, <1>3 DEF Talk, Conversation
  <2>2. Sent(v, IF uses[v] > 6 THEN "types" ELSE "scheme", <<<<"version", uses[v]>>>>)
    BY <1>1, <2>1 DEF Greeting, ToRead
  <2> QED
    BY <1>1, <2>2, Tuples DEF Sent, Said
<1>4. CASE Said(v) = Other
  <2>1. Closes({v}) /\ UNCHANGED toViewer
    BY <1>4 DEF rfbProcessClientProtocolVersion
  <2> QED
    BY <1>1, <2>1, ClosedTalks DEF Closes
<1>5. CASE Said(v) # Other
  <2>1. minor' = [minor EXCEPT ![v] = Said(v)] /\ rfbAuthNewClient(v, Said(v))
    BY <1>5 DEF rfbProcessClientProtocolVersion, Agreed
  <2>2. minor'[v] = Said(v) /\ Said(v) \in 3 .. 8
    BY <1>5, <2>1, SaidVersion DEF RecordsOK, Versions
  <2>3. CASE Said(v) >= 7
    <3>1. Answer(v, <<<<"types", Scheme>>>>, "SECURITY_TYPE")
      BY <2>1, <2>2, <2>3 DEF rfbAuthNewClient
    <3>2. ASSUME ~ended[v], state'[v] = "SECURITY_TYPE",
                 toViewer'[v] = toViewer[v] \o <<<<"types", Scheme>>>>
          PROVE  Conversation(v)'
      <4>1. toViewer'[v] = <<<<"types", Scheme>>>>
        BY <1>3, <3>2, Tuples
      <4>2. ToRead(v, "types", <<<<"types", Scheme>>>>)'
        <5>1. at[v] = "types" /\ toServer'[v] = <<>>
          BY <1>3, <2>2, <2>3, <3>2
        <5> QED
          BY <1>1, <1>2, <4>1, <5>1 DEF ToRead
      <4> QED
        BY <1>1, <1>3, <2>2, <2>3, <3>2, <4>2 DEF Conversation, Choosing
    <3>3. ~ended[v] => at[v] # "version"
      BY <1>3
    <3> QED
      BY <1>1, <3>1, <3>2, <3>3, AnswerTalks DEF States
  <2>4. CASE Said(v) < 7 /\ ~config.password
    <3>1. Answer(v, <<<<"scheme", "None">>>>, "INITIALISATION")
      BY <2>1, <2>2, <2>4 DEF rfbAuthNewClient
    <3>2. ASSUME ~ended[v], state'[v] = "INITIALISATION",
                 toViewer'[v] = toViewer[v] \o <<<<"scheme", "None">>>>
          PROVE  Conversation(v)'
      <4>1. toViewer'[v] = <<<<"scheme", "None">>>>
        BY <1>3, <3>2, Tuples
      <4>2. ToRead(v, "scheme", <<<<"scheme", "None">>>>)'
        <5>1. at[v] = "scheme" /\ toServer'[v] = <<>>
          BY <1>3, <2>2, <2>4, <3>2
        <5> QED
          BY <1>1, <4>1, <5>1 DEF ToRead
      <4> QED
        BY <1>1, <1>3, <2>2, <3>2, <4>2 DEF Conversation, Joining
    <3>3. ~ended[v] => at[v] # "version"
      BY <1>3
    <3> QED
      BY <1>1, <3>1, <3>2, <3>3, AnswerTalks DEF States
  <2>5. CASE Said(v) < 7 /\ config.password
    <3> DEFINE fields == <<<<"scheme", "VncAuth">>, <<"challenge", "bytes">>>>
    <3>1. Answer(v, fields, "AUTHENTICATION")
      BY <2>1, <2>2, <2>5 DEF rfbAuthNewClient
    <3>2. ASSUME ~ended[v], state'[v] = "AUTHENTICATION", toViewer'[v] = toViewer[v] \o fields
          PROVE  Conversation(v)'
      <4>1. toViewer'[v] = fields
        <5>1. toViewer'[v] = <<>> \o fields
          BY <1>3, <3>2
        <5>2. <<>> \o fields = fields
          BY Tuples
        <5> QED
          BY <5>1, <5>2
      <4>2. ToRead(v, "scheme", fields)'
        <5>1. at[v] = "scheme" /\ toServer'[v] = <<>>
          BY <1>3, <2>2, <2>5, <3>2
        <5> QED
          BY <1>1, <4>1, <5>1 DEF ToRead
      <4> QED
        BY <1>1, <1>3, <2>2, <2>5, <3>2, <4>2 DEF Conversation, Proving
    <3>3. ~ended[v] => at[v] # "version"
      BY <1>3
    <3> QED
      BY <1>1, <3>1, <3>2, <3>3, AnswerTalks DEF States
  <2> QED
    BY <1>2, <2>2, <2>3, <2>4, <2>5
<1> QED
  BY <1>4, <1>5

LEMMA TypeTalks ==
  ASSUME RecordsOK, NEW v \in Viewers, Talk(v), rfbProcessClientSecurityType(v)
  PROVE  Talk(v)'
<1>1. /\ sock[v] = "open" /\ state[v] = "SECURITY_TYPE" /\ toServer[v] # <<>> /\ ~half[v]
      /\ toServer'[v] = Tail(toServer[v]) /\ UNCHANGED <<config, minor, at, uses, ended, half>>
      /\ UNCHANGED <<config, viewer>>
  BY DEF rfbProcessClientSecurityType, Read, viewer, RecordsOK
<1>2. /\ config.password \in BOOLEAN
      /\ Scheme = (IF config.password THEN "VncAuth" ELSE "None")
  BY ConfigTypes
<1>3. ASSUME ~ended[v] PROVE Choosing(v) /\ at[v] # "version" /\ toViewer[v] = <<>>
  <2>1. Choosing(v)
    BY <1>1, <1>3 DEF Talk, Conversation
  <2> QED
    BY <1>1, <2>1 DEF Choosing, ToRead, Sent
<1>4. CASE Said(v) = Scheme /\ Scheme = "None"
  <2>1. rfbVncAuthNone(v)
    BY <1>4 DEF rfbProcessClientSecurityType
  <2>2. CASE minor[v] > 7
    <3>1. Answer(v, <<<<"result", "OK">>>>, "INITIALISATION")
      BY <2>1, <2>2 DEF rfbVncAuthNone
    <3>2. ASSUME ~ended[v], state'[v] = "INITIALISATION",
                 toViewer'[v] = toViewer[v] \o <<<<"result", "OK">>>>
          PROVE  Conversation(v)'
      <4>1. Sent(v, "result", <<<<"type", "None">>>>) /\ minor[v] = uses[v]
        BY <1>1, <1>2, <1>3, <1>4, <2>2, <3>2 DEF Choosing, ToRead
      <4>2. toViewer'[v] = <<<<"result", "OK">>>> /\ toServer'[v] = <<>> /\ at[v] = "result"
        BY <1>1, <3>2, <4>1, Tuples DEF Sent
      <4> QED
        BY <1>1, <3>2, <4>1, <4>2 DEF Conversation, Joining, ToRead
    <3> QED
      BY <1>1, <1>3, <3>1, <3>2, AnswerTalks DEF States
  <2>3. CASE ~(minor[v] > 7)
    <3>1. Answer(v, <<>>, "INITIALISATION")
      BY <2>1, <2>3 DEF rfbVncAuthNone
    <3>2. ASSUME ~ended[v], state'[v] = "INITIALISATION", toViewer'[v] = toViewer[v] \o <<>>
          PROVE  Conversation(v)'
      <4>1. toViewer'[v] = <<>>
        BY <1>3, <3>2, Tuples
      <4>2. /\ minor[v] = uses[v]
            /\ \/ Sent(v, "init", <<<<"type", "None">>>>)
               \/ \E share \in {"shared", "alone"} :
                    Sent(v, "serverInit", <<<<"type", "None">>, <<"shared", share>>>>)
        BY <1>1, <1>2, <1>3, <1>4, <2>3, <3>2 DEF Choosing, ToRead
      <4>3. CASE Sent(v, "init", <<<<"type", "None">>>>)
        <5>1. at[v] = "init" /\ toServer'[v] = <<>>
          BY <1>1, <4>3, Tuples DEF Sent
        <5>2. Sent(v, "init", <<>>)'
          BY <1>1, <4>1, <5>1 DEF Sent
        <5> QED
          BY <1>1, <3>2, <4>2, <5>2 DEF Conversation, Joining
      <4>4. ASSUME NEW share \in {"shared", "alone"},
                   Sent(v, "serverInit", <<<<"type", "None">>, <<"shared", share>>>>)
            PROVE  Conversation(v)'
        <5>1. at[v] = "serverInit" /\ toServer'[v] = <<<<"shared", share>>>>
          BY <1>1, <4>4, Tuples DEF Sent
        <5>2. Sent(v, "serverInit", <<<<"shared", share>>>>)'
          BY <1>1, <4>1, <5>1 DEF Sent
        <5> QED
          BY <1>1, <3>2, <4>2, <5>2 DEF Conversation, Joining
      <4> QED
        BY <4>2, <4>3, <4>4
    <3> QED
      BY <1>1, <1>3, <3>1, <3>2, AnswerTalks DEF States
  <2> QED
    BY <2>2, <2>3
<1>5. CASE Said(v) = Scheme /\ Scheme = "VncAuth"
  <2>1. Answer(v, <<<<"challenge", "bytes">>>>, "AUTHENTICATION")
    BY <1>5 DEF rfbProcessClientSecurityType
  <2>2. ASSUME ~ended[v], state'[v] = "AUTHENTICATION",
               toViewer'[v] = toViewer[v] \o <<<<"challenge", "bytes">>>>
        PROVE  Conversation(v)'
    <3>1. config.password
      BY <1>2, <1>5
    <3>2. Sent(v, "challenge", <<<<"type", "VncAuth">>>>) /\ minor[v] = uses[v]
      BY <1>1, <1>3, <2>2, <3>1 DEF Choosing, ToRead
    <3>3. toViewer'[v] = <<<<"challenge", "bytes">>>> /\ toServer'[v] = <<>> /\ at[v] = "challenge"
      BY <1>1, <2>2, <3>2, Tuples DEF Sent
    <3> QED
      BY <1>1, <2>2, <3>1, <3>2, <3>3 DEF Conversation, Proving, ToRead
  <2> QED
    BY <1>1, <1>3, <2>1, <2>2, AnswerTalks DEF States
<1>6. CASE Said(v) # Scheme
  <2>1. Closes({v}) /\ UNCHANGED toViewer
    BY <1>6 DEF rfbProcessClientSecurityType
  <2> QED
    BY <1>1, <2>1, ClosedTalks DEF Closes
<1> QED
  BY <1>2, <1>4, <1>5, <1>6

LEMMA AuthTalks ==
  ASSUME RecordsOK, NEW v \in Viewers, Talk(v), rfbAuthProcessClientMessage(v)
  PROVE  Talk(v)'
<1>1. /\ sock[v] = "open" /\ state[v] = "AUTHENTICATION" /\ toServer[v] # <<>> /\ ~half[v]
      /\ toServer'[v] = Tail(toServer[v]) /\ UNCHANGED <<config, minor, at, uses, ended, half>>
      /\ UNCHANGED <<config, viewer>>
  BY DEF rfbAuthProcessClientMessage, Read, viewer, RecordsOK
<1>2. ASSUME ~ended[v]
      PROVE  /\ minor[v] = uses[v] /\ at[v] = "result" /\ toViewer[v] = <<>> /\ toServer'[v] = <<>>
  <2>1. Proving(v)
    BY <1>1, <1>2 DEF Talk, Conversation
  <2>2. PICK key \in {"right", "wrong"} : Sent(v, "result", <<<<"response", key>>>>)
    BY <1>1, <2>1 DEF Proving, ToRead
  <2> QED
    BY <1>1, <2>1, <2>2, Tuples DEF Proving, Sent
<1>3. CASE Said(v) = "right"
  <2>1. Answer(v, <<<<"result", "OK">>>>, "INITIALISATION")
    BY <1>3 DEF rfbAuthProcessClientMessage
  <2>2. ASSUME ~ended[v], state'[v] = "INITIALISATION",
               toViewer'[v] = toViewer[v] \o <<<<"result", "OK">>>>
        PROVE  Conversation(v)'
    <3>1. toViewer'[v] = <<<<"result", "OK">>>>
      BY <1>2, <2>2, Tuples
    <3> QED
      BY <1>1, <1>2, <2>2, <3>1 DEF Conversation, Joining, ToRead
  <2>3. ~ended[v] => at[v] # "version"
    BY <1>2
  <2> QED
    BY <1>1, <2>1, <2>2, <2>3, AnswerTalks DEF States
<1>4. CASE Said(v) # "right"
  <2>1. Closes({v}) /\ (ended[v] => toViewer'[v] = toViewer[v])
    BY <1>4 DEF rfbAuthProcessClientMessage, Refused, Dismiss, Writes, RecordsOK
  <2>2. toViewer'[v] = toViewer[v] \/ at[v] # "version"
    BY <1>2, <2>1
  <2> QED
    BY <1>1, <2>1, <2>2, ClosedTalks DEF Closes
<1> QED
  BY <1>3, <1>4

LEMMA InitTalks ==
  ASSUME RecordsOK, NEW v \in Viewers, Talk(v), rfbProcessClientInitMessage(v)
  PROVE  Talk(v)'
<1>1. /\ sock[v] = "open" /\ state[v] = "INITIALISATION" /\ toServer[v] # <<>> /\ ~half[v]
      /\ toServer'[v] = Tail(toServer[v]) /\ UNCHANGED <<config, minor, at, uses, ended, half>>
  BY DEF rfbProcessClientInitMessage, Read, viewer, RecordsOK
<1>2. ASSUME ~ended[v]
      PROVE  /\ minor[v] = uses[v] /\ at[v] = "serverInit" /\ toViewer[v] = <<>>
             /\ toServer'[v] = <<>>
  <2>1. Joining(v)
    BY <1>1, <1>2 DEF Talk, Conversation
  <2>2. PICK share \in {"shared", "alone"} : Sent(v, "serverInit", <<<<"shared", share>>>>)
    BY <1>1, <2>1 DEF Joining, ToRead, Sent
  <2> QED
    BY <1>1, <2>1, <2>2, Tuples DEF Joining, Sent
<1>3. CASE ended[v] /\ Closes({v}) /\ UNCHANGED <<state, toViewer>>
  BY <1>1, <1>3, ClosedTalks DEF Closes
<1>4. CASE /\ Writes(v, <<<<"serverInit", "screen">>>>)
           /\ state' = [state EXCEPT ![v] = "NORMAL"] /\ Sharing(v)
  <2>1. /\ state'[v] = "NORMAL" /\ sock'[v] \in {"open", "closed"}
        /\ toViewer'[v] = IF ended[v] THEN toViewer[v]
                          ELSE toViewer[v] \o <<<<"serverInit", "screen">>>>
    BY <1>1, <1>4 DEF Writes, Sharing, Closes, RecordsOK
  <2>2. CASE ended[v]
    BY <1>1, <2>1, <2>2 DEF Talk
  <2>3. CASE ~ended[v]
    <3>1. toViewer'[v] = <<<<"serverInit", "screen">>>>
      BY <1>2, <2>1, <2>3, Tuples
    <3>2. Conversation(v)'
      BY <1>1, <1>2, <2>1, <2>3, <3>1 DEF Conversation, Serving, ToRead
    <3> QED
      BY <1>1, <1>2, <2>1, <2>3, <3>2 DEF Talk
  <2> QED
    BY <2>2, <2>3
<1> QED
  BY <1>3, <1>4 DEF rfbProcessClientInitMessage

LEMMA ServerTalks ==
  ASSUME RecordsOK, NEW v \in Viewers, Talk(v), Serve(v)
  PROVE  Talk(v)'
<1>1. CASE WaitForRest(v)
  BY <1>1, UntouchedTalks DEF WaitForRest, viewer, Untouched
<1>2. CASE ReadFails(v) \/ rfbClientConnectionGone(v)
  <2>1. /\ sock'[v] \in {"closed", "none"} /\ UNCHANGED <<config, at, ended, toViewer>>
    BY <1>2 DEF ReadFails, rfbClientConnectionGone, Closes, viewer, RecordsOK
  <2> QED
    BY <2>1, ClosedTalks
<1> QED
  BY <1>1, <1>2, NewClientTalks, VersionTalks, TypeTalks, AuthTalks, InitTalks
     DEF Serve, rfbProcessClientMessage

-----------------------------------------------------------------------------
(* The viewer's part of a conversation.                                    *)

\* A viewer that waits for something has not ended, and is in the conversation unless the
\* server closed.
LEMMA GettingTalks ==
  ASSUME RecordsOK, NEW v \in Viewers, Talk(v), NEW field, Gets(v, field), field \notin {"away", "failed"}
  PROVE  /\ at[v] = field /\ toViewer[v] # <<>> /\ toViewer'[v] = Tail(toViewer[v])
         /\ ~ended[v] /\ sock[v] # "backlog" /\ (sock[v] = "open" => Conversation(v))
BY DEF Gets, Talk, ToRead, RecordsOK

LEMMA SendingTalks ==
  ASSUME RecordsOK, NEW v \in Viewers, NEW field, NEW value, NEW then, Sends(v, field, value, then)
  PROVE  /\ at'[v] = then /\ toServer'[v] = Append(toServer[v], <<field, value>>)
         /\ ended' = ended /\ (field \notin {"version", "response"} => ~half'[v])
BY DEF Sends, RecordsOK

\* What a step of the viewer has to add.
LEMMA ProceedingTalks ==
  ASSUME RecordsOK', NEW v \in Viewers, Talk(v), UNCHANGED <<config, state, sock>>,
         ~ended[v], ~ended'[v], sock[v] # "backlog", at'[v] \notin {"away", "failed", "version"},
         sock[v] = "open" => Conversation(v)'
  PROVE  Talk(v)'
<1>1. ASSUME sock[v] = "open", state[v] = "PROTOCOL_VERSION"
      PROVE  toServer'[v] = <<>> \/ \E m \in Versions : toServer'[v] = <<<<"version", m>>>>
  <2>1. Greeting(v)' /\ uses'[v] \in Versions
    BY <1>1 DEF Conversation, RecordsOK
  <2> QED
    BY <2>1 DEF Greeting, ToRead, Sent
<1> QED
  BY <1>1 DEF Talk

LEMMA GetVersionTalks ==
  ASSUME RecordsOK, RecordsOK', NEW v \in Viewers, Talk(v), GetVersion(v)
  PROVE  Talk(v)'
<1>1. Gets(v, "version") /\ UNCHANGED <<config, server>>
  BY DEF GetVersion
<1>2. PICK m : /\ Sends(v, "version", m, IF m > 6 THEN "types" ELSE "scheme")
               /\ uses' = [uses EXCEPT ![v] = m]
  BY DEF GetVersion
<1> DEFINE then == IF m > 6 THEN "types" ELSE "scheme"
<1>3. /\ at'[v] = then /\ toServer'[v] = Append(toServer[v], <<"version", m>>)
      /\ ended' = ended /\ uses'[v] = m
  BY <1>2, SendingTalks DEF RecordsOK
<1>4. /\ at[v] = "version" /\ toViewer[v] # <<>> /\ toViewer'[v] = Tail(toViewer[v])
      /\ ~ended[v] /\ sock[v] # "backlog" /\ (sock[v] = "open" => Conversation(v))
  BY <1>1, GettingTalks
<1>5. ASSUME sock[v] = "open" PROVE Conversation(v)'
  <2>1. state[v] = "PROTOCOL_VERSION" /\ ToRead(v, "version", <<<<"version", config.minor>>>>)
    BY <1>4, <1>5 DEF Conversation, Greeting, Choosing, Proving, Joining, Serving, ToRead, Sent
  <2>2. toServer'[v] = <<<<"version", m>>>> /\ toViewer'[v] = <<>>
    BY <1>3, <1>4, <2>1, Tuples DEF ToRead
  <2>3. Sent(v, then, <<<<"version", m>>>>)'
    BY <1>3, <2>2 DEF Sent
  <2> QED
    BY <1>1, <1>3, <2>1, <2>3 DEF Conversation, Greeting, server
<1> QED
  BY <1>1, <1>3, <1>4, <1>5, ProceedingTalks DEF server

LEMMA GetTypesTalks ==
  ASSUME RecordsOK, RecordsOK', NEW v \in Viewers, Talk(v), GetTypes(v)
  PROVE  Talk(v)'
<1>1. Gets(v, "types") /\ UNCHANGED <<config, server, uses>>
  BY DEF GetTypes
<1> DEFINE then == CASE Got(v) = "VncAuth" -> "challenge"
                     [] Got(v) = "None" /\ uses[v] > 7 -> "result"
                     [] OTHER -> "init"
<1>2. Sends(v, "type", Got(v), then)
  BY DEF GetTypes
<1>3. /\ at'[v] = then /\ toServer'[v] = Append(toServer[v], <<"type", Got(v)>>)
      /\ ended' = ended /\ ~half'[v]
  <2> HIDE DEF then
  <2> QED
    BY <1>2, SendingTalks
<1>4. /\ at[v] = "types" /\ toViewer[v] # <<>> /\ toViewer'[v] = Tail(toViewer[v])
      /\ ~ended[v] /\ sock[v] # "backlog" /\ (sock[v] = "open" => Conversation(v))
  BY <1>1, GettingTalks
<1>5. ASSUME sock[v] = "open" PROVE Conversation(v)'
  <2>1. /\ state[v] = "SECURITY_TYPE" /\ ToRead(v, "types", <<<<"types", Scheme>>>>)
        /\ minor[v] = uses[v] /\ uses[v] >= 7
    BY <1>4, <1>5 DEF Conversation, Greeting, Choosing, Proving, Joining, Serving, ToRead, Sent
  <2>2. toViewer'[v] = <<>> /\ Got(v) = Scheme
    BY <1>4, <2>1, Tuples DEF ToRead, Got
  <2>3. toServer'[v] = <<<<"type", Scheme>>>>
    BY <1>3, <2>1, <2>2, Tuples DEF ToRead
  <2>4. /\ config.password \in BOOLEAN
        /\ Scheme = (IF config.password THEN "VncAuth" ELSE "None")
    BY ConfigTypes
  <2>5. CASE config.password
    <3>1. at'[v] = "challenge" /\ toServer'[v] = <<<<"type", "VncAuth">>>>
      BY <1>3, <2>2, <2>3, <2>4, <2>5
    <3>2. Sent(v, "challenge", <<<<"type", "VncAuth">>>>)'
      BY <2>2, <3>1 DEF Sent
    <3> QED
      BY <1>1, <1>3, <2>1, <2>5, <3>2 DEF Conversation, Choosing, server
  <2>6. CASE ~config.password /\ uses[v] > 7
    <3>1. at'[v] = "result" /\ toServer'[v] = <<<<"type", "None">>>>
      BY <1>3, <2>2, <2>3, <2>4, <2>6
    <3>2. Sent(v, "result", <<<<"type", "None">>>>)'
      BY <2>2, <3>1 DEF Sent
    <3> QED
      BY <1>1, <1>3, <2>1, <2>6, <3>2 DEF Conversation, Choosing, server
  <2>7. CASE ~config.password /\ ~(uses[v] > 7)
    <3>1. at'[v] = "init" /\ toServer'[v] = <<<<"type", "None">>>>
      BY <1>3, <2>2, <2>3, <2>4, <2>7
    <3>2. Sent(v, "init", <<<<"type", "None">>>>)'
      BY <2>2, <3>1 DEF Sent
    <3> QED
      BY <1>1, <1>3, <2>1, <2>7, <3>2 DEF Conversation, Choosing, server
  <2> QED
    BY <2>4, <2>5, <2>6, <2>7
<1>6. at'[v] \notin {"away", "failed", "version"}
  BY <1>3
<1> QED
  BY <1>1, <1>3, <1>4, <1>5, <1>6, ProceedingTalks DEF server

LEMMA GetSchemeTalks ==
  ASSUME RecordsOK, RecordsOK', NEW v \in Viewers, Talk(v), GetScheme(v)
  PROVE  Talk(v)'
<1>1. Gets(v, "scheme") /\ UNCHANGED <<config, server, uses>>
  BY DEF GetScheme
<1>2. /\ at[v] = "scheme" /\ toViewer[v] # <<>> /\ toViewer'[v] = Tail(toViewer[v])
      /\ ~ended[v] /\ sock[v] # "backlog" /\ (sock[v] = "open" => Conversation(v))
  BY <1>1, GettingTalks
<1>3. ASSUME sock[v] = "open"
      PROVE  /\ minor[v] = uses[v] /\ toServer[v] = <<>> /\ ~half[v]
             /\ \/ /\ state[v] = "AUTHENTICATION" /\ config.password /\ Got(v) = "VncAuth"
                   /\ toViewer'[v] = <<<<"challenge", "bytes">>>>
                \/ state[v] = "INITIALISATION" /\ Got(v) = "None" /\ toViewer'[v] = <<>>
  <2>1. \/ /\ state[v] = "AUTHENTICATION" /\ Proving(v) /\ ~half[v]
           /\ ToRead(v, "scheme", <<<<"scheme", "VncAuth">>, <<"challenge", "bytes">>>>)
        \/ state[v] = "INITIALISATION" /\ Joining(v) /\ ToRead(v, "scheme", <<<<"scheme", "None">>>>)
    BY <1>2, <1>3 DEF Conversation, Greeting, Choosing, Proving, Joining, Serving, ToRead, Sent
  <2>2. CASE /\ state[v] = "AUTHENTICATION" /\ Proving(v) /\ ~half[v]
             /\ ToRead(v, "scheme", <<<<"scheme", "VncAuth">>, <<"challenge", "bytes">>>>)
    <3>1. toViewer'[v] = <<<<"challenge", "bytes">>>> /\ Got(v) = "VncAuth"
      BY <1>2, <2>2, Tuples DEF ToRead, Got
    <3> QED
      BY <2>2, <3>1 DEF Proving, ToRead
  <2>3. CASE state[v] = "INITIALISATION" /\ Joining(v) /\ ToRead(v, "scheme", <<<<"scheme", "None">>>>)
    BY <1>2, <2>3, Tuples DEF Joining, ToRead, Got
  <2> QED
    BY <2>1, <2>2, <2>3
<1>4. CASE Got(v) = "VncAuth"
  <2>1. at'[v] = "challenge" /\ UNCHANGED <<half, ended, toServer>>
    BY <1>4 DEF GetScheme, RecordsOK
  <2>2. ASSUME sock[v] = "open" PROVE Conversation(v)'
    <3>1. ToRead(v, "challenge", <<<<"challenge", "bytes">>>>)' /\ ~half'[v]
      BY <1>3, <1>4, <2>1, <2>2 DEF ToRead
    <3> QED
      BY <1>1, <1>3, <1>4, <2>2, <3>1 DEF Conversation, Proving, server
  <2> QED
    BY <1>1, <1>2, <2>1, <2>2, ProceedingTalks DEF server
<1>5. CASE Got(v) # "VncAuth"
  <2>1. PICK share \in {"shared", "alone"} : Sends(v, "shared", share, "serverInit")
    BY <1>5 DEF GetScheme, SendsInit
  <2>2. /\ at'[v] = "serverInit" /\ toServer'[v] = Append(toServer[v], <<"shared", share>>)
        /\ ended' = ended /\ ~half'[v]
    BY <2>1, SendingTalks
  <2>3. ASSUME sock[v] = "open" PROVE Conversation(v)'
    <3>1. toServer'[v] = <<<<"shared", share>>>>
      BY <1>3, <2>2, <2>3, Tuples
    <3>2. Sent(v, "serverInit", <<<<"shared", share>>>>)'
      BY <1>3, <1>5, <2>2, <2>3, <3>1 DEF Sent
    <3> QED
      BY <1>1, <1>3, <1>5, <2>2, <2>3, <3>2 DEF Conversation, Joining, server
  <2> QED
    BY <1>1, <1>2, <2>2, <2>3, ProceedingTalks DEF server
<1> QED
  BY <1>4, <1>5

LEMMA InitialiseTalks ==
  ASSUME RecordsOK, RecordsOK', NEW v \in Viewers, Talk(v), Initialise(v)
  PROVE  Talk(v)'
<1>1. at[v] = "init" /\ UNCHANGED <<config, server, uses, toViewer>>
  BY DEF Initialise
<1>2. PICK share \in {"shared", "alone"} : Sends(v, "shared", share, "serverInit")
  BY DEF Initialise, SendsInit
<1>3. /\ at'[v] = "serverInit" /\ toServer'[v] = Append(toServer[v], <<"shared", share>>)
      /\ ended' = ended /\ ~half'[v]
  BY <1>2, SendingTalks
<1>4. ~ended[v] /\ sock[v] # "backlog" /\ (sock[v] = "open" => Conversation(v))
  BY <1>1 DEF Talk, ToRead, RecordsOK
<1>5. ASSUME sock[v] = "open" PROVE Conversation(v)'
  <2>1. /\ minor[v] = uses[v] /\ toViewer[v] = <<>>
        /\ \/ /\ state[v] = "SECURITY_TYPE" /\ uses[v] >= 7 /\ ~config.password /\ ~(uses[v] > 7)
              /\ toServer[v] = <<<<"type", "None">>>>
           \/ state[v] = "INITIALISATION" /\ toServer[v] = <<>>
    BY <1>1, <1>4, <1>5 DEF Conversation, Greeting, Choosing, Proving, Joining, Serving, ToRead, Sent
  <2>2. CASE state[v] = "SECURITY_TYPE" /\ toServer[v] = <<<<"type", "None">>>>
    <3>1. toServer'[v] = <<<<"type", "None">>, <<"shared", share>>>>
      <4>1. \A a, b : Append(<<a>>, b) = <<a, b>>
        BY Tuples
      <4>2. toServer'[v] = Append(<<<<"type", "None">>>>, <<"shared", share>>)
        BY <1>3, <2>2
      <4> QED
        BY <4>1, <4>2
    <3>2. Sent(v, "serverInit", <<<<"type", "None">>, <<"shared", share>>>>)'
      BY <1>1, <1>3, <2>1, <3>1 DEF Sent
    <3>3. uses[v] >= 7 /\ ~config.password /\ ~(uses[v] > 7)
      BY <2>1, <2>2
    <3> QED
      BY <1>1, <1>3, <2>1, <2>2, <3>2, <3>3 DEF Conversation, Choosing, server
  <2>3. CASE state[v] = "INITIALISATION" /\ toServer[v] = <<>>
    <3>1. toServer'[v] = <<<<"shared", share>>>>
      BY <1>3, <2>3, Tuples
    <3>2. Sent(v, "serverInit", <<<<"shared", share>>>>)'
      BY <1>1, <1>3, <2>1, <3>1 DEF Sent
    <3> QED
      BY <1>1, <1>3, <2>1, <2>3, <3>2 DEF Conversation, Joining, server
  <2> QED
    BY <2>1, <2>2, <2>3
<1> QED
  BY <1>1, <1>3, <1>4, <1>5, ProceedingTalks DEF server

LEMMA FailingTalks ==
  ASSUME RecordsOK, NEW v \in Viewers, Talk(v), Fails(v), UNCHANGED <<config, server>>
  PROVE  Talk(v)'
BY EndedTalks DEF Fails, server, RecordsOK

LEMMA GetChallengeTalks ==
  ASSUME RecordsOK, RecordsOK', NEW v \in Viewers, Talk(v), GetChallenge(v)
  PROVE  Talk(v)'
<1>1. Gets(v, "challenge") /\ UNCHANGED <<config, server>>
  BY DEF GetChallenge
<1>2. CASE Fails(v)
  BY <1>1, <1>2, FailingTalks
<1>3. ASSUME NEW key \in {"right", "wrong"}, Sends(v, "response", key, "result"), UNCHANGED uses
      PROVE  Talk(v)'
  <2>1. /\ at'[v] = "result" /\ toServer'[v] = Append(toServer[v], <<"response", key>>)
        /\ ended' = ended
    BY <1>3, SendingTalks
  <2>2. /\ at[v] = "challenge" /\ toViewer[v] # <<>> /\ toViewer'[v] = Tail(toViewer[v])
        /\ ~ended[v] /\ sock[v] # "backlog" /\ (sock[v] = "open" => Conversation(v))
    BY <1>1, GettingTalks
  <2>3. ASSUME sock[v] = "open" PROVE Conversation(v)'
    <3>1. /\ state[v] = "AUTHENTICATION" /\ minor[v] = uses[v] /\ config.password
          /\ ToRead(v, "challenge", <<<<"challenge", "bytes">>>>)
      BY <2>2, <2>3 DEF Conversation, Greeting, Choosing, Proving, Joining, Serving, ToRead, Sent
    <3>2. toServer'[v] = <<<<"response", key>>>> /\ toViewer'[v] = <<>>
      BY <2>1, <2>2, <3>1, Tuples DEF ToRead
    <3>3. Sent(v, "result", <<<<"response", key>>>>)'
      BY <2>1, <3>2 DEF Sent
    <3> QED
      BY <1>1, <1>3, <3>1, <3>3 DEF Conversation, Proving, server
  <2> QED
    BY <1>1, <2>1, <2>2, <2>3, ProceedingTalks DEF server
<1> QED
  BY <1>2, <1>3 DEF GetChallenge

LEMMA GetResultTalks ==
  ASSUME RecordsOK, RecordsOK', NEW v \in Viewers, Talk(v), GetResult(v)
  PROVE  Talk(v)'
<1>1. Gets(v, "result") /\ UNCHANGED <<config, server>>
  BY DEF GetResult
<1>2. /\ at[v] = "result" /\ toViewer[v] # <<>> /\ toViewer'[v] = Tail(toViewer[v])
      /\ ~ended[v] /\ sock[v] # "backlog" /\ (sock[v] = "open" => Conversation(v))
  BY <1>1, GettingTalks
<1>3. ASSUME sock[v] = "open"
      PROVE  /\ state[v] = "INITIALISATION" /\ minor[v] = uses[v] /\ Got(v) = "OK"
             /\ toViewer'[v] = <<>> /\ toServer[v] = <<>>
  <2>1. /\ state[v] = "INITIALISATION" /\ minor[v] = uses[v]
        /\ ToRead(v, "result", <<<<"result", "OK">>>>)
    BY <1>2, <1>3 DEF Conversation, Greeting, Choosing, Proving, Joining, Serving, ToRead, Sent
  <2> QED
    BY <1>2, <2>1, Tuples DEF ToRead, Got
<1>4. CASE Got(v) = "OK"
  <2>1. PICK share \in {"shared", "alone"} : Sends(v, "shared", share, "serverInit")
    BY <1>4 DEF GetResult, SendsInit
  <2>2. /\ at'[v] = "serverInit" /\ toServer'[v] = Append(toServer[v], <<"shared", share>>)
        /\ ended' = ended /\ ~half'[v] /\ uses' = uses
    BY <1>4, <2>1, SendingTalks DEF GetResult
  <2>3. ASSUME sock[v] = "open" PROVE Conversation(v)'
    <3>1. toServer'[v] = <<<<"shared", share>>>>
      BY <1>3, <2>2, <2>3, Tuples
    <3>2. Sent(v, "serverInit", <<<<"shared", share>>>>)'
      BY <1>3, <2>2, <2>3, <3>1 DEF Sent
    <3> QED
      BY <1>1, <1>3, <2>2, <2>3, <3>2 DEF Conversation, Joining, server
  <2> QED
    BY <1>1, <1>2, <2>2, <2>3, ProceedingTalks DEF server
<1>5. CASE Got(v) = "failed" /\ uses[v] > 7
  <2>1. at'[v] = "reason" /\ UNCHANGED ended
    BY <1>5 DEF GetResult, RecordsOK
  <2>2. sock[v] # "open"
    BY <1>3, <1>5
  <2> QED
    BY <1>1, <1>2, <2>1, <2>2, ProceedingTalks DEF server
<1>6. CASE Got(v) # "OK" /\ ~(Got(v) = "failed" /\ uses[v] > 7)
  <2>1. Fails(v)
    BY <1>6 DEF GetResult
  <2> QED
    BY <1>1, <2>1, FailingTalks
<1> QED
  BY <1>4, <1>5, <1>6

LEMMA GetServerInitTalks ==
  ASSUME RecordsOK, RecordsOK', NEW v \in Viewers, Talk(v), GetServerInit(v)
  PROVE  Talk(v)'
<1>1. /\ Gets(v, "serverInit") /\ at'[v] = "running"
      /\ UNCHANGED <<config, server, uses, ended, half, toServer>>
  BY DEF GetServerInit, RecordsOK
<1>2. /\ at[v] = "serverInit" /\ toViewer[v] # <<>> /\ toViewer'[v] = Tail(toViewer[v])
      /\ ~ended[v] /\ sock[v] # "backlog" /\ (sock[v] = "open" => Conversation(v))
  BY <1>1, GettingTalks
<1>3. ASSUME sock[v] = "open" PROVE Conversation(v)'
  <2>1. /\ state[v] = "NORMAL" /\ minor[v] = uses[v] /\ ~half[v]
        /\ ToRead(v, "serverInit", <<<<"serverInit", "screen">>>>)
    BY <1>2, <1>3 DEF Conversation, Greeting, Choosing, Proving, Joining, Serving, ToRead, Sent
  <2>2. toViewer'[v] = <<>>
    BY <1>2, <2>1, Tuples DEF ToRead
  <2>3. Sent(v, "running", <<>>)'
    BY <1>1, <2>1, <2>2 DEF Sent, ToRead
  <2> QED
    BY <1>1, <2>1, <2>3 DEF Conversation, Serving, server
<1> QED
  BY <1>1, <1>2, <1>3, ProceedingTalks DEF server

LEMMA SendRestTalks ==
  ASSUME RecordsOK, NEW v \in Viewers, Talk(v), SendRest(v)
  PROVE  Talk(v)'
<1>1. /\ ~half'[v] /\ ~ended[v] /\ half[v]
      /\ UNCHANGED <<config, server, at, uses, ended, toServer, toViewer>>
  BY DEF SendRest, RecordsOK
<1>2. Conversation(v) => Conversation(v)'
  <2>1. Scheme' = Scheme
    BY <1>1 DEF Scheme
  <2> QED
    BY <1>1, <2>1 DEF server, Conversation, Greeting, Choosing, Proving, Joining, Serving, ToRead, Sent
<1> QED
  BY <1>1, <1>2 DEF Talk, ToRead, server

LEMMA ConnectTalks ==
  ASSUME RecordsOK, NEW v \in Viewers, Talk(v), Connect(v)
  PROVE  Talk(v)'
<1>1. /\ sock'[v] = "backlog" /\ at'[v] = "version" /\ ended'[v] = FALSE /\ half'[v] = FALSE
      /\ toServer'[v] = <<>> /\ toViewer'[v] = <<>>
  BY DEF Connect, RecordsOK
<1> QED
  BY <1>1 DEF Talk, ToRead

LEMMA ViewerTalks ==
  ASSUME RecordsOK, RecordsOK', NEW v \in Viewers, Talk(v), Connect(v) \/ Proceed(v) \/ Quit(v)
  PROVE  Talk(v)'
<1>1. CASE GetReason(v) \/ Lost(v) \/ Quit(v)
  BY <1>1, FailingTalks DEF GetReason, Lost, Quit
<1> QED
  BY <1>1, ConnectTalks, GetVersionTalks, GetTypesTalks, GetSchemeTalks, InitialiseTalks,
     GetChallengeTalks, GetResultTalks, GetServerInitTalks, SendRestTalks DEF Proceed

-----------------------------------------------------------------------------
(* Admission.                                                              *)

\* Which states a step can lead to.
LEMMA AnswerStates ==
  ASSUME RecordsOK, NEW v \in Viewers, NEW fields, NEW next, Answer(v, fields, next)
  PROVE  state'[v] \in {state[v], next}
BY DEF Answer, RecordsOK

LEMMA StepAdmits ==
  ASSUME RecordsOK, NEW v \in Viewers, Talk(v), Admitted, Step(v)
  PROVE  Admitted'
<1> DEFINE Past(s) == s \in {"INITIALISATION", "NORMAL"}
<1>0. /\ config.password \in BOOLEAN
      /\ Scheme = (IF config.password THEN "VncAuth" ELSE "None")
  BY ConfigTypes
<1>1. SUFFICES ASSUME config.password, Past(state[v]) => proved[v]
               PROVE  Past(state'[v]) => proved'[v]
  <2>1. UNCHANGED config
    BY DEF Step, Serve, rfbNewClient, rfbProcessClientMessage, rfbProcessClientProtocolVersion,
         rfbProcessClientSecurityType, rfbAuthProcessClientMessage, rfbProcessClientInitMessage,
         WaitForRest, ReadFails, rfbClientConnectionGone, Connect, Proceed, Quit, GetVersion, GetTypes,
         GetScheme, Initialise, GetChallenge, GetResult, GetReason, GetServerInit, SendRest, Lost
  <2>2. \A o \in Viewers \ {v} : state'[o] = state[o] /\ proved'[o] = proved[o]
    BY ServerLeavesOthers, ViewerLeavesOthers DEF Step, Untouched
  <2> QED
    BY <2>1, <2>2 DEF Admitted
<1>2. CASE UNCHANGED <<state, proved>>
  BY <1>1, <1>2
<1>3. CASE rfbNewClient(v)
  BY <1>1, <1>3 DEF rfbNewClient, RecordsOK
<1>4. CASE rfbProcessClientProtocolVersion(v)
  <2>1. state[v] = "PROTOCOL_VERSION"
    BY <1>4 DEF rfbProcessClientProtocolVersion, Read
  <2>2. CASE UNCHANGED state
    BY <2>1, <2>2
  <2>3. ASSUME NEW fields, NEW next \in {"SECURITY_TYPE", "AUTHENTICATION"}, Answer(v, fields, next)
        PROVE  ~Past(state'[v])
    BY <2>1, <2>3, AnswerStates
  <2> QED
    BY <1>1, <1>4, <2>2, <2>3 DEF rfbProcessClientProtocolVersion, rfbAuthNewClient
<1>5. CASE rfbProcessClientSecurityType(v)
  <2>1. state[v] = "SECURITY_TYPE"
    BY <1>5 DEF rfbProcessClientSecurityType, Read
  <2>2. CASE UNCHANGED state
    BY <2>1, <2>2
  <2>3. CASE Answer(v, <<<<"challenge", "bytes">>>>, "AUTHENTICATION")
    BY <2>1, <2>3, AnswerStates
  <2> QED
    BY <1>0, <1>1, <1>5, <2>2, <2>3 DEF rfbProcessClientSecurityType
<1>6. CASE rfbAuthProcessClientMessage(v)
  <2>1. state[v] = "AUTHENTICATION" /\ proved'[v] = (Said(v) = "right")
    BY <1>6 DEF rfbAuthProcessClientMessage, Read, RecordsOK
  <2>2. CASE Said(v) # "right"
    BY <1>6, <2>1, <2>2 DEF rfbAuthProcessClientMessage, Refused, Dismiss
  <2> QED
    BY <2>1, <2>2
<1>7. CASE rfbProcessClientInitMessage(v)
  BY <1>1, <1>7 DEF rfbProcessClientInitMessage, Read
<1>8. CASE rfbClientConnectionGone(v)
  BY <1>8 DEF rfbClientConnectionGone, RecordsOK
<1>9. CASE WaitForRest(v) \/ ReadFails(v)
  BY <1>2, <1>9 DEF WaitForRest, ReadFails
<1>10. CASE Connect(v) \/ Proceed(v) \/ Quit(v)
  BY <1>2, <1>10 DEF Connect, Proceed, Quit, GetVersion, GetTypes, GetScheme, Initialise, GetChallenge,
     GetResult, GetReason, GetServerInit, SendRest, Lost, server
<1> QED
  BY <1>3, <1>4, <1>5, <1>6, <1>7, <1>8, <1>9, <1>10 DEF Step, Serve, rfbProcessClientMessage

LEMMA StepAlone ==
  ASSUME RecordsOK, NEW v \in Viewers, Alone, Step(v)
  PROVE  Alone'
<1> DEFINE In(o) == sock[o] = "open" /\ state[o] = "NORMAL"
<1>1. UNCHANGED config
  BY DEF Step, Serve, rfbNewClient, rfbProcessClientMessage, rfbProcessClientProtocolVersion,
         rfbProcessClientSecurityType, rfbAuthProcessClientMessage, rfbProcessClientInitMessage,
         WaitForRest, ReadFails, rfbClientConnectionGone, Connect, Proceed, Quit, GetVersion, GetTypes,
         GetScheme, Initialise, GetChallenge, GetResult, GetReason, GetServerInit, SendRest, Lost
<1>2. \A o \in Viewers \ {v} : In(o)' => In(o)
  BY ServerLeavesOthers, ViewerLeavesOthers DEF Step, Untouched
<1>3. CASE In(v)' => In(v)
  BY <1>1, <1>2, <1>3 DEF Alone
<1>4. CASE rfbProcessClientInitMessage(v)
  <2> SUFFICES ASSUME config.neverShared, NEW o \in Viewers \ {v}, In(v)', In(o)' PROVE FALSE
    BY <1>1, <1>2 DEF Alone
  <2>1. state[v] = "INITIALISATION" /\ In(o) /\ o \in Served(v)
    BY <1>2, <1>4 DEF rfbProcessClientInitMessage, Read, Served
  <2>2. Sharing(v)
    BY <1>4, <2>1 DEF rfbProcessClientInitMessage, RecordsOK
  <2>3. Closes({v}) \/ Closes(Served(v))
    BY <2>1, <2>2 DEF Sharing, WantsToBeAlone
  <2> QED
    BY <2>1, <2>3 DEF Closes
<1>5. ASSUME ~rfbProcessClientInitMessage(v) PROVE In(v)' => In(v)
  <2>1. \A c : Closes(c) => sock'[v] \in {sock[v], "closed"}
    BY DEF Closes
  <2>2. ASSUME NEW fields, NEW next \in States \ {"NORMAL"}, Answer(v, fields, next)
        PROVE  In(v)' => In(v)
    BY <2>1, <2>2, AnswerStates DEF Answer
  <2>3. CASE UNCHANGED <<state, sock>>
    BY <2>3
  <2>4. CASE rfbNewClient(v)
    BY <2>4 DEF rfbNewClient, RecordsOK
  <2>5. CASE rfbProcessClientProtocolVersion(v)
    BY <2>1, <2>2, <2>5 DEF rfbProcessClientProtocolVersion, rfbAuthNewClient, States
  <2>6. CASE rfbProcessClientSecurityType(v)
    BY <2>1, <2>2, <2>6 DEF rfbProcessClientSecurityType, rfbVncAuthNone, States
  <2>7. CASE rfbAuthProcessClientMessage(v)
    BY <2>1, <2>2, <2>7 DEF rfbAuthProcessClientMessage, Refused, Dismiss, States
  <2>8. CASE WaitForRest(v) \/ ReadFails(v)
    BY <2>1, <2>8 DEF WaitForRest, ReadFails
  <2>9. CASE rfbClientConnectionGone(v)
    BY <2>9 DEF rfbClientConnectionGone, RecordsOK
  <2>10. CASE Connect(v)
    BY <2>10 DEF Connect, RecordsOK
  <2>11. CASE Proceed(v) \/ Quit(v)
    BY <2>3, <2>11 DEF Proceed, Quit, GetVersion, GetTypes, GetScheme, Initialise, GetChallenge,
       GetResult, GetReason, GetServerInit, SendRest, Lost, server
  <2> QED
    BY <1>5, <2>4, <2>5, <2>6, <2>7, <2>8, <2>9, <2>10, <2>11 DEF Step, Serve, rfbProcessClientMessage
<1> QED
  BY <1>3, <1>4, <1>5

-----------------------------------------------------------------------------
LEMMA InitKept == Init => Kept
<1> SUFFICES ASSUME Init PROVE Kept
  OBVIOUS
<1>1. RecordsOK
  BY HandshakeAssumption DEF HandshakeAssumption, Init, RecordsOK, Everyone, States, Sockets, Versions
<1>2. \A v \in Viewers : Talk(v)
  BY DEF Init, Everyone, Talk
<1>3. Admitted /\ Alone
  BY DEF Init, Everyone, Admitted, Alone
<1> QED
  BY <1>1, <1>2, <1>3 DEF Kept

LEMMA StepKept == ASSUME Kept, [Next]_vars PROVE Kept'
<1>1. CASE UNCHANGED vars
  <2>1. RecordsOK' /\ Admitted' /\ Alone'
    BY <1>1 DEF vars, server, viewer, Kept, RecordsOK, Admitted, Alone
  <2>2. ASSUME NEW v \in Viewers PROVE Talk(v)'
    BY <1>1, UntouchedTalks DEF vars, server, viewer, Kept, Untouched
  <2> QED
    BY <2>1, <2>2 DEF Kept
<1>2. ASSUME NEW v \in Viewers, Step(v) PROVE Kept'
  <2>1. RecordsOK'
    BY <1>2, ServerTypes, ViewerTypes DEF Step, Kept
  <2>2. Talk(v)'
    BY <1>2, <2>1, ServerTalks, ViewerTalks DEF Step, Kept
  <2>3. ASSUME NEW o \in Viewers \ {v} PROVE Talk(o)'
    BY <1>2, ServerLeavesOthers, ViewerLeavesOthers, UntouchedTalks DEF Step, Kept
  <2>4. Admitted' /\ Alone'
    BY <1>2, StepAdmits, StepAlone DEF Kept
  <2> QED
    BY <2>1, <2>2, <2>3, <2>4 DEF Kept
<1> QED
  BY <1>1, <1>2 DEF Next, Step

LEMMA AlwaysKept == Spec => []Kept
BY InitKept, StepKept, PTL DEF Spec

\* In every reachable state the variables have their types: no version is read that was not
\* written as one.
THEOREM TypesHold == Spec => []TypeOK
<1>1. Kept => TypeOK
  BY DEF Kept, RecordsOK, TypeOK, Sockets, Versions
<1> QED
  BY <1>1, AlwaysKept, PTL

\* Both sides read the field that the other wrote, for any versions, options and viewers that
\* fail, stall and connect again.
THEOREM ConversationsAreFramed == Spec => []Framed
<1>1. Kept => Framed
  <2> SUFFICES ASSUME Kept, NEW v \in Viewers, Connected(v), sock[v] = "open"
               PROVE  /\ toServer[v] # <<>> => /\ state[v] \in DOMAIN Expected
                                               /\ Head(toServer[v])[1] = Expected[state[v]]
                      /\ toViewer[v] # <<>> /\ at[v] # "init" => Head(toViewer[v])[1] = at[v]
    BY DEF Framed
  <2>1. Conversation(v)
    BY DEF Kept, Talk, Connected, RecordsOK
  <2>2. CASE state[v] = "PROTOCOL_VERSION" /\ Greeting(v)
    BY <2>2, Tuples DEF Greeting, ToRead, Sent, Expected
  <2>3. CASE state[v] = "SECURITY_TYPE" /\ Choosing(v)
    BY <2>3, Tuples DEF Choosing, ToRead, Sent, Expected
  <2>4. CASE state[v] = "AUTHENTICATION" /\ Proving(v)
    BY <2>4, Tuples DEF Proving, ToRead, Sent, Expected
  <2>5. CASE state[v] = "INITIALISATION" /\ Joining(v)
    BY <2>5, Tuples DEF Joining, ToRead, Sent, Expected
  <2>6. CASE state[v] = "NORMAL" /\ Serving(v)
    BY <2>6, Tuples DEF Serving, ToRead, Sent, Expected
  <2> QED
    BY <2>1, <2>2, <2>3, <2>4, <2>5, <2>6 DEF Conversation
<1> QED
  BY <1>1, AlwaysKept, PTL

\* A viewer that takes itself for connected is served in the version it uses.
THEOREM EndsAreInStep == Spec => []InStep
<1>1. Kept => InStep
  <2> SUFFICES ASSUME Kept, NEW v \in Viewers, at[v] = "running", sock[v] = "open"
               PROVE  state[v] = "NORMAL" /\ minor[v] = uses[v]
    BY DEF InStep
  <2>1. Conversation(v)
    BY DEF Kept, Talk, RecordsOK
  <2> QED
    BY <2>1 DEF Conversation, Greeting, Choosing, Proving, Joining, Serving, ToRead, Sent
<1> QED
  BY <1>1, AlwaysKept, PTL

\* There is no way past the password, through any version of the protocol.
THEOREM OnlyAdmittedAreServed == Spec => []ServedAreAdmitted
<1>1. Kept => ServedAreAdmitted
  BY DEF Kept, Admitted, ServedAreAdmitted
<1> QED
  BY <1>1, AlwaysKept, PTL

\* With neverShared one viewer is served at most, however many come at once.
THEOREM OneIsServed == Spec => []NeverShared
<1>1. Kept => NeverShared
  <2> SUFFICES ASSUME Kept, config.neverShared
               PROVE  Cardinality({v \in Viewers : sock[v] = "open" /\ state[v] = "NORMAL"}) <= 1
    BY DEF NeverShared
  <2> DEFINE S == {v \in Viewers : sock[v] = "open" /\ state[v] = "NORMAL"}
  <2>1. CASE S = {}
    BY <2>1, FS_EmptySet
  <2>2. CASE S # {}
    <3>1. PICK w : w \in S
      BY <2>2
    <3>2. S = {w}
      BY <3>1 DEF Kept, Alone
    <3>3. Cardinality({w}) = 1
      BY FS_Singleton
    <3> QED
      BY <3>2, <3>3
  <2> QED
    BY <2>1, <2>2
<1> QED
  BY <1>1, AlwaysKept, PTL

\* With dontDisconnect a newcomer closes nobody: who loses the connection while he is served
\* had closed it, for nothing of what he sent in that state is half a message.
THEOREM NobodyIsThrownOut == Spec => NotThrownOut
<1>1. ASSUME Kept, [Next]_vars
      PROVE  [config.dontDisconnect => \A v \in Viewers :
                sock[v] = "open" /\ state[v] = "NORMAL" /\ sock'[v] = "closed" => ended[v]]_vars
  <2> SUFFICES ASSUME Next, config.dontDisconnect, NEW v \in Viewers, ~ended[v],
                      sock[v] = "open", state[v] = "NORMAL", sock'[v] = "closed"
               PROVE  FALSE
    BY <1>1
  <2>0. RecordsOK /\ ~half[v]
    BY <1>1 DEF Kept, Talk, Conversation, Serving
  <2>1. PICK w \in Viewers : Step(w)
    BY DEF Next, Step
  <2>2. CASE Connect(w) \/ Proceed(w) \/ Quit(w)
    BY <2>0, <2>2 DEF Connect, Proceed, Quit, GetVersion, GetTypes, GetScheme, Initialise,
       GetChallenge, GetResult, GetReason, GetServerInit, SendRest, Lost, server, RecordsOK
  <2>3. CASE WaitForRest(w) \/ rfbNewClient(w) \/ rfbClientConnectionGone(w)
    BY <2>0, <2>3 DEF WaitForRest, rfbNewClient, rfbClientConnectionGone, RecordsOK
  <2>4. CASE ReadFails(w)
    BY <2>0, <2>4 DEF ReadFails, GivesUp, Closes
  <2>5. ASSUME Closes({w}), w # v PROVE FALSE
    BY <2>5 DEF Closes
  <2>6. CASE rfbProcessClientMessage(w)
    <3>1. w # v
      BY <2>6 DEF rfbProcessClientMessage, rfbProcessClientProtocolVersion, Read,
         rfbProcessClientSecurityType, rfbAuthProcessClientMessage, rfbProcessClientInitMessage
    <3>2. \A fields, next : ~Answer(w, fields, next)
      BY <2>5, <3>1 DEF Answer
    <3>3. CASE rfbProcessClientProtocolVersion(w)
      BY <2>5, <3>1, <3>2, <3>3 DEF rfbProcessClientProtocolVersion, rfbAuthNewClient
    <3>4. CASE rfbProcessClientSecurityType(w)
      BY <2>5, <3>1, <3>2, <3>4 DEF rfbProcessClientSecurityType, rfbVncAuthNone
    <3>5. CASE rfbAuthProcessClientMessage(w)
      BY <2>5, <3>1, <3>2, <3>5 DEF rfbAuthProcessClientMessage, Refused, Dismiss
    <3>6. CASE rfbProcessClientInitMessage(w)
      BY <2>5, <3>1, <3>6 DEF rfbProcessClientInitMessage, Sharing
    <3> QED
      BY <2>6, <3>3, <3>4, <3>5, <3>6 DEF rfbProcessClientMessage
  <2> QED
    BY <2>1, <2>2, <2>3, <2>4, <2>6 DEF Step, Serve
<1> QED
  BY <1>1, AlwaysKept, PTL DEF Spec, NotThrownOut

-----------------------------------------------------------------------------
(* The http server.                                                        *)

-----------------------------------------------------------------------------
(* Induction: a set of numbers has a least one.                            *)

\* Every set of numbers that has a member has a least one.
LEMMA Least ==
  ASSUME NEW T \in SUBSET Nat, T # {}
  PROVE  \E n \in T : \A m \in T : n <= m
<1> DEFINE R == OpToRel(<, Nat)
<1>1. IsWellFoundedOn(R, Nat)
  BY NatLessThanWellFounded
<1> HIDE DEF R
<1>2. PICK n \in T : \A m \in T : <<m, n>> \notin R
  BY <1>1, WFMin
<1>3. \A m, k \in Nat : m < k => <<m, k>> \in R
  BY DEF R, OpToRel
<1>4. ASSUME NEW m \in T PROVE n <= m
  <2>1. m \in Nat /\ n \in Nat
    OBVIOUS
  <2>2. ~(m < n)
    BY <1>2, <1>3, <2>1
  <2> QED
    BY <2>1, <2>2
<1> QED
  BY <1>4

\* A set that holds 0 and the successor of each member holds every number.
LEMMA Induction ==
  ASSUME NEW P \in SUBSET Nat, 0 \in P, \A n \in P : n + 1 \in P
  PROVE  P = Nat
<1> SUFFICES ASSUME Nat \ P # {} PROVE FALSE
  OBVIOUS
<1>1. PICK n \in Nat \ P : \A m \in Nat \ P : n <= m
  BY Least
<1>2. n - 1 \in Nat /\ n - 1 \notin Nat \ P
  BY <1>1
<1>3. (n - 1) + 1 \in P
  BY <1>2
<1> QED
  BY <1>1, <1>3

-----------------------------------------------------------------------------
(* Recursive functions.                                                    *)

\* f is what a loop writes from each place on, from a to the end.
Defined(f, a, n, writes, next) ==
  f = [k \in a .. n + 1 |-> IF k = n + 1 THEN <<>> ELSE writes[k] \o f[next[k]]]

\* A loop that goes on to later places is over some time.
LEMMA OutputIsDefined ==
  ASSUME NEW n \in Nat, NEW writes, NEW next, \A k \in 1 .. n : next[k] \in k + 1 .. n + 1
  PROVE  Defined(Output(n, writes, next), 1, n, writes, next)
<1> DEFINE D(f, a) == Defined(f, a, n, writes, next)
           P == {m \in Nat : m <= n => \E f : D(f, n + 1 - m)}
<1>1. 0 \in P
  <2> DEFINE f == [k \in n + 1 .. n + 1 |-> <<>>]
  <2>1. D(f, n + 1)
    BY DEF Defined
  <2>2. n + 1 - 0 = n + 1
    OBVIOUS
  <2> HIDE DEF D, f
  <2> QED
    BY <2>1, <2>2
<1>2. ASSUME NEW m \in P PROVE m + 1 \in P
  <2> SUFFICES ASSUME m + 1 <= n PROVE \E f : D(f, n + 1 - (m + 1))
    OBVIOUS
  <2>1. PICK g : D(g, n + 1 - m)
    <3> HIDE DEF D
    <3>1. m \in Nat /\ m <= n
      OBVIOUS
    <3> QED
      BY <3>1
  <2> DEFINE f == [k \in n - m .. n + 1 |-> IF k = n - m THEN writes[k] \o g[next[k]] ELSE g[k]]
  <2>2. ASSUME NEW k \in n - m .. n + 1
        PROVE  f[k] = IF k = n + 1 THEN <<>> ELSE writes[k] \o f[next[k]]
    <3>1. CASE k = n + 1
      BY <2>1, <3>1 DEF Defined
    <3>2. CASE k # n + 1
      <4>1. k \in 1 .. n /\ next[k] \in n + 1 - m .. n + 1 /\ next[k] # n - m
        BY <3>2
      <4>2. f[next[k]] = g[next[k]]
        BY <4>1
      <4>3. k # n - m => g[k] = writes[k] \o g[next[k]]
        <5>1. k # n - m => k \in n + 1 - m .. n + 1
          OBVIOUS
        <5>2. g = [j \in n + 1 - m .. n + 1 |-> IF j = n + 1 THEN <<>> ELSE writes[j] \o g[next[j]]]
          BY <2>1 DEF Defined
        <5> HIDE DEF D, P, f
        <5> QED
          BY <3>2, <5>1, <5>2
      <4> QED
        BY <3>2, <4>2, <4>3
    <3> QED
      BY <3>1, <3>2
  <2>3. D(f, n - m)
    BY <2>2 DEF Defined
  <2>4. n + 1 - (m + 1) = n - m
    OBVIOUS
  <2> HIDE DEF D, f
  <2> QED
    BY <2>3, <2>4
<1>3. P = Nat
  <2> HIDE DEF P
  <2>1. P \in SUBSET Nat
    BY DEF P
  <2> QED
    BY <1>1, <1>2, <2>1, Induction
<1>4. PICK f : D(f, 1)
  <2> HIDE DEF D
  <2>1. n + 1 - n = 1 /\ n \in P
    BY <1>3
  <2> QED
    BY <2>1
<1> QED
  BY <1>4 DEF Output, Defined

\* What holds at the end, and at each place if it holds behind it, holds everywhere.
LEMMA Backwards ==
  ASSUME NEW n \in Nat, NEW P \in SUBSET (1 .. n + 1), n + 1 \in P,
         \A k \in 1 .. n : k + 1 .. n + 1 \subseteq P => k \in P
  PROVE  P = 1 .. n + 1
<1> DEFINE Q == {m \in Nat : \A k \in 1 .. n + 1 : k >= n + 1 - m => k \in P}
<1>1. 0 \in Q
  OBVIOUS
<1>2. ASSUME NEW m \in Q PROVE m + 1 \in Q
  <2> SUFFICES ASSUME NEW k \in 1 .. n + 1, k >= n + 1 - (m + 1) PROVE k \in P
    OBVIOUS
  <2>1. \A j \in 1 .. n + 1 : j >= n + 1 - m => j \in P
    OBVIOUS
  <2>2. CASE k >= n + 1 - m
    BY <2>1, <2>2
  <2>3. CASE ~(k >= n + 1 - m)
    <3>1. m \in Nat /\ k \in 1 .. n /\ k + 1 .. n + 1 \subseteq P
      BY <2>1, <2>3
    <3> QED
      BY <3>1
  <2> QED
    BY <2>2, <2>3
<1>3. Q = Nat
  <2> HIDE DEF Q
  <2>1. Q \in SUBSET Nat
    BY DEF Q
  <2> QED
    BY <1>1, <1>2, <2>1, Induction
<1>4. ASSUME NEW k \in 1 .. n + 1 PROVE k \in P
  <2>1. n \in Q /\ k >= n + 1 - n
    BY <1>3
  <2> QED
    BY <2>1
<1> HIDE DEF Q
<1> QED
  BY <1>4

\* The text that a loop writes is one.
LEMMA OutputIsText ==
  ASSUME NEW n \in Nat, NEW writes, NEW next, \A k \in 1 .. n : next[k] \in k + 1 .. n + 1,
         NEW S, \A k \in 1 .. n : writes[k] \in Seq(S)
  PROVE  LET out == Output(n, writes, next)
         IN /\ out[n + 1] = <<>>
            /\ \A k \in 1 .. n : out[k] = writes[k] \o out[next[k]]
            /\ \A k \in 1 .. n + 1 : out[k] \in Seq(S)
<1> DEFINE out == Output(n, writes, next)
           P == {k \in 1 .. n + 1 : out[k] \in Seq(S)}
<1>1. out[n + 1] = <<>> /\ \A k \in 1 .. n : out[k] = writes[k] \o out[next[k]]
  <2>1. Defined(out, 1, n, writes, next)
    BY OutputIsDefined
  <2> HIDE DEF out
  <2>2. \A k \in 1 .. n + 1 : out[k] = IF k = n + 1 THEN <<>> ELSE writes[k] \o out[next[k]]
    <3>1. out = [k \in 1 .. n + 1 |-> IF k = n + 1 THEN <<>> ELSE writes[k] \o out[next[k]]]
      BY <2>1 DEF Defined
    <3> QED
      BY <3>1
  <2>3. n + 1 \in 1 .. n + 1 /\ \A k \in 1 .. n : k \in 1 .. n + 1 /\ k # n + 1
    OBVIOUS
  <2> QED
    BY <2>2, <2>3
<1> HIDE DEF out
<1>2. n + 1 \in P
  <2>1. out[n + 1] \in Seq(S)
    BY <1>1, EmptySeq, Zenon
  <2>2. n + 1 \in 1 .. n + 1
    OBVIOUS
  <2> QED
    BY <2>1, <2>2
<1>3. ASSUME NEW k \in 1 .. n, k + 1 .. n + 1 \subseteq P PROVE k \in P
  <2>1. out[next[k]] \in Seq(S) /\ writes[k] \in Seq(S)
    BY <1>3
  <2>2. writes[k] \o out[next[k]] \in Seq(S)
    BY <2>1, ConcatProperties
  <2>3. out[k] \in Seq(S)
    BY <1>1, <2>2, Zenon
  <2>4. k \in 1 .. n + 1
    OBVIOUS
  <2> QED
    BY <2>3, <2>4
<1>4. P = 1 .. n + 1
  <2> HIDE DEF P
  <2>1. P \in SUBSET (1 .. n + 1)
    BY DEF P
  <2> QED
    BY <1>2, <1>3, <2>1, Backwards
<1> QED
  BY <1>1, <1>4 DEF out

-----------------------------------------------------------------------------
(* A page.                                                                 *)

\* The states of a reader that goes through a text symbol by symbol.
Heard(text, params) ==
  LET read[n \in 0 .. Len(text)] ==
        IF n = 0 THEN [text |-> <<>>, dollar |-> FALSE] ELSE Meant(read[n - 1], text[n], params)
  IN read

\* The reader has a state after each symbol.
LEMMA ReadIsDefined ==
  ASSUME NEW text \in Seq(Symbol), NEW params
  PROVE  Heard(text, params)
           = [n \in 0 .. Len(text) |-> IF n = 0 THEN [text |-> <<>>, dollar |-> FALSE]
                                       ELSE Meant(Heard(text, params)[n - 1], text[n], params)]
<1> DEFINE Upto(f, m) ==
             f = [n \in 0 .. m |-> IF n = 0 THEN [text |-> <<>>, dollar |-> FALSE]
                                   ELSE Meant(f[n - 1], text[n], params)]
           P == {m \in Nat : \E f : Upto(f, m)}
<1>1. 0 \in P
  <2> DEFINE f == [n \in 0 .. 0 |-> [text |-> <<>>, dollar |-> FALSE]]
  <2>1. Upto(f, 0)
    OBVIOUS
  <2> HIDE DEF Upto, f
  <2> QED
    BY <2>1
<1>2. ASSUME NEW m \in P PROVE m + 1 \in P
  <2>1. PICK g : Upto(g, m)
    <3> HIDE DEF Upto
    <3> QED
      OBVIOUS
  <2> DEFINE f == [n \in 0 .. m + 1 |-> IF n = m + 1 THEN Meant(g[m], text[m + 1], params) ELSE g[n]]
  <2>2. ASSUME NEW n \in 0 .. m + 1
        PROVE  f[n] = IF n = 0 THEN [text |-> <<>>, dollar |-> FALSE] ELSE Meant(f[n - 1], text[n], params)
    <3>1. CASE n = m + 1
      <4>1. m \in Nat /\ f[m] = g[m] /\ n - 1 = m /\ n # 0
        BY <3>1
      <4> QED
        BY <3>1, <4>1
    <3>2. CASE n # m + 1
      <4>1. n \in 0 .. m /\ f[n] = g[n] /\ (n # 0 => n - 1 \in 0 .. m + 1 /\ f[n - 1] = g[n - 1])
        BY <3>2
      <4> HIDE DEF f
      <4> QED
        BY <2>1, <4>1
    <3> QED
      BY <3>1, <3>2
  <2>3. Upto(f, m + 1)
    BY <2>2
  <2> HIDE DEF Upto, f
  <2> QED
    BY <2>3
<1>3. P = Nat
  <2> HIDE DEF P
  <2>1. P \in SUBSET Nat
    BY DEF P
  <2> QED
    BY <1>1, <1>2, <2>1, Induction
<1>4. PICK f : Upto(f, Len(text))
  <2>1. Len(text) \in Nat
    BY LenProperties
  <2>2. Len(text) \in P
    BY <1>3, <2>1
  <2> HIDE DEF Upto
  <2> QED
    BY <2>2
<1> QED
  BY <1>4 DEF Heard

\* Texts of one symbol and of two.
LEMMA Short ==
  ASSUME NEW S, NEW a \in S, NEW b \in S
  PROVE  <<a>> \in Seq(S) /\ <<a, b>> \in Seq(S)
OBVIOUS

\* What compareAndSkip writes besides the parameters is text.
LEMMA Words == <<"$">> \in Seq(Symbol) /\ <<"width">> \in Seq(Symbol)
<1>1. "$" \in Symbol /\ "width" \in Symbol
  BY HttpdAssumption
<1> QED
  BY <1>1, Short

\* What a reader has read is a text.
LEMMA ReadIsText ==
  ASSUME NEW text \in Seq(Symbol), NEW params \in Seq(Symbol)
  PROVE  LET read == Heard(text, params)
         IN /\ read[0] = [text |-> <<>>, dollar |-> FALSE]
            /\ \A n \in 1 .. Len(text) : read[n] = Meant(read[n - 1], text[n], params)
            /\ \A n \in 0 .. Len(text) : read[n] \in [text : Seq(Symbol), dollar : BOOLEAN]
<1> DEFINE N == Len(text)
           read == Heard(text, params)
           Text == [text : Seq(Symbol), dollar : BOOLEAN]
           P == {n \in Nat : n <= N => read[n] \in Text}
<1>1. N \in Nat /\ \A n \in 1 .. N : text[n] \in Symbol
  BY LenProperties, ElementOfSeq
<1>2. \A n \in 0 .. N : read[n] = IF n = 0 THEN [text |-> <<>>, dollar |-> FALSE]
                                  ELSE Meant(read[n - 1], text[n], params)
  <2>1. read = [n \in 0 .. N |-> IF n = 0 THEN [text |-> <<>>, dollar |-> FALSE]
                                 ELSE Meant(read[n - 1], text[n], params)]
    BY ReadIsDefined
  <2> HIDE DEF read, N
  <2> QED
    BY <2>1
<1> HIDE DEF N, read
<1>3. read[0] = [text |-> <<>>, dollar |-> FALSE] /\ 0 \in P
  <2>1. read[0] = [text |-> <<>>, dollar |-> FALSE]
    BY <1>1, <1>2
  <2>2. <<>> \in Seq(Symbol)
    BY EmptySeq
  <2>3. read[0] \in Text
    BY <2>1, <2>2
  <2> QED
    BY <2>1, <2>3
<1>4. \A n \in 1 .. N : read[n] = Meant(read[n - 1], text[n], params)
  BY <1>1, <1>2
<1>5. ASSUME NEW n \in P PROVE n + 1 \in P
  <2> SUFFICES ASSUME n + 1 <= N PROVE read[n + 1] \in Text
    OBVIOUS
  <2> DEFINE p == read[n]  s == text[n + 1]
  <2>1. p \in Text
    BY <1>1
  <2>2. s \in Symbol /\ n + 1 \in 1 .. N /\ (n + 1) - 1 = n
    BY <1>1
  <2>3. read[n + 1] = Meant(p, s, params)
    BY <1>4, <2>2
  <2> HIDE DEF p, s
  <2>4. /\ p.text \o params \in Seq(Symbol) /\ Append(p.text, s) \in Seq(Symbol)
        /\ Append(p.text, "$") \in Seq(Symbol) /\ Append(p.text, "width") \in Seq(Symbol)
        /\ p.text \o <<"$", s>> \in Seq(Symbol)
    <3>1. p.text \in Seq(Symbol)
      BY <2>1
    <3>2. "$" \in Symbol /\ "width" \in Symbol
      BY HttpdAssumption
    <3>3. <<"$", s>> \in Seq(Symbol)
      BY <2>2, <3>2, Short
    <3>4. p.text \o params \in Seq(Symbol) /\ p.text \o <<"$", s>> \in Seq(Symbol)
      BY <3>1, <3>3, ConcatProperties
    <3>5. \A w \in Symbol : Append(p.text, w) \in Seq(Symbol)
      BY <3>1, AppendProperties
    <3> QED
      BY <2>2, <3>2, <3>4, <3>5
  <2>5. Meant(p, s, params) \in Text
    BY <2>1, <2>4 DEF Meant
  <2> QED
    BY <2>3, <2>5
<1>6. P = Nat
  <2> HIDE DEF P
  <2>1. P \in SUBSET Nat
    BY DEF P
  <2> QED
    BY <1>3, <1>5, <2>1, Induction
<1>7. \A n \in 0 .. N : read[n] \in Text
  BY <1>1, <1>6
<1> QED
  BY <1>3, <1>4, <1>7 DEF N, read

\* compareAndSkip writes a text and goes on.
LEMMA TokenMoves ==
  ASSUME NEW text \in Seq(Symbol), NEW params \in Seq(Symbol), NEW k \in 1 .. Len(text)
  PROVE  /\ Token(text, k, params).value \in Seq(Symbol)
         /\ k + Token(text, k, params).skip \in k + 1 .. Len(text) + 1
<1>1. Len(text) \in Nat /\ text[k] \in Symbol
  BY LenProperties, ElementOfSeq
<1>2. <<text[k]>> \in Seq(Symbol) /\ <<"$">> \in Seq(Symbol) /\ <<"width">> \in Seq(Symbol)
  BY <1>1, Short, Words
<1>3. /\ Token(text, k, params).value \in {<<text[k]>>, <<"$">>, <<"width">>, params}
      /\ Token(text, k, params).skip \in {1, 2}
      /\ Token(text, k, params).skip = 2 => k < Len(text)
  <2>1. CASE text[k] # "$"
    BY <2>1 DEF Token
  <2>2. CASE text[k] = "$"
    BY <2>2 DEF Token, Variable
  <2> QED
    BY <2>1, <2>2
<1>4. Token(text, k, params).value \in Seq(Symbol)
  BY <1>2, <1>3
<1>5. k + Token(text, k, params).skip \in k + 1 .. Len(text) + 1
  BY <1>1, <1>3
<1> QED
  BY <1>4, <1>5

\* One symbol: outside of a variable, at a "$", and behind one.
LEMMA Reads ==
  ASSUME NEW text \in Seq(Symbol), NEW params \in Seq(Symbol), NEW k \in 1 .. Len(text)
  PROVE  LET p == Heard(text, params)[k - 1]
             q == Heard(text, params)[k]
         IN /\ ~p.dollar /\ text[k] # "$" => ~q.dollar /\ q.text = p.text \o <<text[k]>>
            /\ ~p.dollar /\ text[k] = "$" => q.dollar /\ q.text = p.text
            /\ p.dollar /\ text[k] = "$" => ~q.dollar /\ q.text = p.text \o <<"$">>
            /\ p.dollar /\ text[k] = "W" => ~q.dollar /\ q.text = p.text \o <<"width">>
            /\ p.dollar /\ text[k] = "P" => ~q.dollar /\ q.text = p.text \o params
            /\ p.dollar /\ text[k] \notin {"$", "W", "P"}
                 => ~q.dollar /\ q.text = p.text \o <<"$", text[k]>>
<1> DEFINE p == Heard(text, params)[k - 1]
           q == Heard(text, params)[k]
           s == text[k]
<1>1. q = Meant(p, s, params) /\ p \in [text : Seq(Symbol), dollar : BOOLEAN]
  <2>1. Len(text) \in Nat /\ k - 1 \in 0 .. Len(text)
    BY LenProperties
  <2> QED
    BY <2>1, ReadIsText
<1>2. s \in Symbol /\ "$" \in Symbol /\ "width" \in Symbol
  BY ElementOfSeq, HttpdAssumption
<1> HIDE DEF p, q, s
<1>3. \A w \in Symbol : Append(p.text, w) = p.text \o <<w>>
  <2>1. p.text \in Seq(Symbol)
    BY <1>1
  <2> QED
    BY <2>1, AppendIsConcat
<1>4. p.dollar \in BOOLEAN
  BY <1>1
<1>5. /\ ~p.dollar /\ s # "$" => ~q.dollar /\ q.text = p.text \o <<s>>
      /\ ~p.dollar /\ s = "$" => q.dollar /\ q.text = p.text
      /\ p.dollar /\ s = "$" => ~q.dollar /\ q.text = p.text \o <<"$">>
      /\ p.dollar /\ s = "W" => ~q.dollar /\ q.text = p.text \o <<"width">>
      /\ p.dollar /\ s = "P" => ~q.dollar /\ q.text = p.text \o params
      /\ p.dollar /\ s \notin {"$", "W", "P"} => ~q.dollar /\ q.text = p.text \o <<"$", s>>
  BY <1>1, <1>2, <1>3, <1>4 DEF Meant
<1> QED
  BY <1>5 DEF p, q, s

\* Texts one after the other.
LEMMA Joined ==
  ASSUME NEW a \in Seq(Symbol), NEW b \in Seq(Symbol), NEW c \in Seq(Symbol)
  PROVE  (a \o b) \o c = a \o (b \o c)
BY ConcatAssociative

\* Two symbols one after the other are a text of two.
LEMMA Two ==
  ASSUME NEW a \in Symbol, NEW b \in Symbol
  PROVE  <<a>> \o <<b>> = <<a, b>>
<1>1. <<a>> \in Seq(Symbol) /\ <<b>> \in Seq(Symbol) /\ <<a, b>> \in Seq(Symbol)
  OBVIOUS
<1>2. Len(<<a>>) = 1 /\ Len(<<b>>) = 1 /\ Len(<<a, b>>) = 2
  OBVIOUS
<1>3. <<a>> \o <<b>> \in Seq(Symbol) /\ Len(<<a>> \o <<b>>) = 2
  BY <1>1, <1>2, ConcatProperties
<1>4. (<<a>> \o <<b>>)[1] = <<a>>[1] /\ (<<a>> \o <<b>>)[2] = <<b>>[1]
  BY <1>1, <1>2, ConcatProperties
<1>5. \A i \in 1 .. 2 : (<<a>> \o <<b>>)[i] = <<a, b>>[i]
  BY <1>4
<1> QED
  BY <1>1, <1>2, <1>3, <1>5, SeqEqual

\* compareAndSkip writes what a variable means: the page that is written is the page that
\* is meant, whatever its text.
LEMMA PageIsMeant ==
  ASSUME NEW text \in Seq(Symbol), NEW params \in Seq(Symbol)
  PROVE  /\ Substituted(text, params) = Meaning(text, params)
         /\ Substituted(text, params) \in Seq(Symbol)
<1> DEFINE N == Len(text)
           writes == [k \in DOMAIN text |-> Token(text, k, params).value]
           next == [k \in DOMAIN text |-> k + Token(text, k, params).skip]
           out == Output(N, writes, next)
           read == Heard(text, params)
           meant == Meaning(text, params)
           P == {k \in 1 .. N + 1 : ~read[k - 1].dollar => meant = read[k - 1].text \o out[k]}
<1>1. N \in Nat /\ DOMAIN text = 1 .. N /\ \A k \in 1 .. N : text[k] \in Symbol
  BY LenProperties, ElementOfSeq
<1>2. \A k \in 1 .. N : writes[k] = Token(text, k, params).value /\ next[k] = k + Token(text, k, params).skip
  BY <1>1
<1>3. /\ \A k \in 1 .. N : next[k] \in k + 1 .. N + 1
      /\ \A k \in 1 .. N : writes[k] \in Seq(Symbol)
  BY <1>2, TokenMoves
<1> HIDE DEF writes, next
<1>4. /\ out[N + 1] = <<>>
      /\ \A k \in 1 .. N : out[k] = writes[k] \o out[next[k]]
      /\ \A k \in 1 .. N + 1 : out[k] \in Seq(Symbol)
  <2> HIDE DEF N
  <2> QED
    BY <1>1, <1>3, OutputIsText
<1>5. /\ read[0] = [text |-> <<>>, dollar |-> FALSE]
      /\ \A n \in 0 .. N : read[n].text \in Seq(Symbol)
  BY ReadIsText
<1>6. meant = IF read[N].dollar THEN read[N].text \o <<"$">> ELSE read[N].text
  <2>1. N \in 0 .. N
    BY <1>1
  <2>2. Append(read[N].text, "$") = read[N].text \o <<"$">>
    BY <1>5, <2>1, AppendIsConcat, HttpdAssumption
  <2>3. meant = LET p == read[N] IN IF p.dollar THEN Append(p.text, "$") ELSE p.text
    BY DEF Meaning, Heard
  <2> HIDE DEF meant, read, N
  <2> QED
    BY <2>2, <2>3
<1>7. \A k \in 1 .. N :
        LET p == read[k - 1]
            q == read[k]
         IN /\ ~p.dollar /\ text[k] # "$" => ~q.dollar /\ q.text = p.text \o <<text[k]>>
            /\ ~p.dollar /\ text[k] = "$" => q.dollar /\ q.text = p.text
            /\ p.dollar /\ text[k] = "$" => ~q.dollar /\ q.text = p.text \o <<"$">>
            /\ p.dollar /\ text[k] = "W" => ~q.dollar /\ q.text = p.text \o <<"width">>
            /\ p.dollar /\ text[k] = "P" => ~q.dollar /\ q.text = p.text \o params
            /\ p.dollar /\ text[k] \notin {"$", "W", "P"}
                 => ~q.dollar /\ q.text = p.text \o <<"$", text[k]>>
  BY Reads
<1>8. \A k \in 1 .. N :
        /\ text[k] # "$" => writes[k] = <<text[k]>> /\ next[k] = k + 1
        /\ text[k] = "$" /\ ~(k < N) => writes[k] = <<"$">> /\ next[k] = k + 1
        /\ text[k] = "$" /\ k < N /\ text[k + 1] = "$" => writes[k] = <<"$">> /\ next[k] = k + 2
        /\ text[k] = "$" /\ k < N /\ text[k + 1] = "W" => writes[k] = <<"width">> /\ next[k] = k + 2
        /\ text[k] = "$" /\ k < N /\ text[k + 1] = "P" => writes[k] = params /\ next[k] = k + 2
        /\ text[k] = "$" /\ k < N /\ text[k + 1] \notin {"$", "W", "P"}
             => writes[k] = <<"$">> /\ next[k] = k + 1
  <2> SUFFICES ASSUME NEW k \in 1 .. N
               PROVE  /\ text[k] # "$" => writes[k] = <<text[k]>> /\ next[k] = k + 1
                      /\ text[k] = "$" => /\ writes[k] = Variable(text, k, params).value
                                          /\ next[k] = k + Variable(text, k, params).skip
    BY DEF Variable
  <2> QED
    BY <1>2 DEF Token
<1>9. <<>> \in Seq(Symbol) /\ \A s \in Symbol : <<s>> \in Seq(Symbol) /\ <<"$", s>> \in Seq(Symbol) /\ <<"$">> \o <<s>> = <<"$", s>>
  <2>1. "$" \in Symbol
    BY HttpdAssumption
  <2>2. ASSUME NEW s \in Symbol PROVE <<s>> \in Seq(Symbol) /\ <<"$", s>> \in Seq(Symbol) /\ <<"$">> \o <<s>> = <<"$", s>>
    <3>1. <<"$">> \o <<s>> = <<"$", s>>
      BY <2>1, Two
    <3> QED
      BY <2>1, <3>1, Short
  <2> QED
    BY <2>2, EmptySeq
<1> HIDE DEF N, out, read, meant
<1>10. N + 1 \in P
  <2>1. (N + 1) - 1 = N /\ N + 1 \in 1 .. N + 1 /\ N \in 0 .. N
    BY <1>1
  <2>2. read[N].text \o <<>> = read[N].text
    BY <1>5, <2>1, ConcatEmptySeq
  <2>3. ~read[N].dollar => meant = read[N].text \o out[N + 1]
    BY <1>4, <1>6, <2>2, Zenon
  <2> QED
    BY <2>1, <2>3
<1>11. ASSUME NEW k \in 1 .. N, k + 1 .. N + 1 \subseteq P PROVE k \in P
  <2> DEFINE a == read[k - 1].text  s == text[k]
  <2>1. /\ k \in 1 .. N + 1 /\ k - 1 \in 0 .. N
        /\ k + 1 \in 1 .. N + 1 /\ k + 1 \in k + 1 .. N + 1 /\ (k + 1) - 1 = k
    BY <1>1
  <2>2. ~read[k].dollar => meant = read[k].text \o out[k + 1]
    <3>1. k + 1 \in P
      BY <1>11, <2>1
    <3> QED
      BY <2>1, <3>1
  <2>3. a \in Seq(Symbol) /\ out[k + 1] \in Seq(Symbol) /\ s \in Symbol /\ <<s>> \in Seq(Symbol) /\ <<"$">> \in Seq(Symbol)
    BY <1>1, <1>4, <1>5, <1>9, <2>1, Words
  <2>4. \A v, w \in Seq(Symbol) : a \o (v \o w) = (a \o v) \o w
    <3> SUFFICES ASSUME NEW v \in Seq(Symbol), NEW w \in Seq(Symbol)
                 PROVE  a \o (v \o w) = (a \o v) \o w
      OBVIOUS
    <3>1. a \in Seq(Symbol)
      BY <2>3
    <3> HIDE DEF a, s, P
    <3>2. (a \o v) \o w = a \o (v \o w)
      BY <3>1, Joined, Zenon
    <3> QED
      BY <3>2
  <2>5. out[k] = writes[k] \o out[next[k]]
    BY <1>4
  <2>6. ASSUME ~read[k - 1].dollar PROVE meant = a \o out[k]
    <3>1. CASE s # "$"
      <4>1. writes[k] = <<s>> /\ next[k] = k + 1
        BY <1>8, <3>1
      <4>2. ~read[k].dollar /\ read[k].text = a \o <<s>>
        BY <1>7, <2>6, <3>1
      <4>3. meant = (a \o <<s>>) \o out[k + 1]
        BY <2>2, <4>2, Zenon
      <4>4. out[k] = <<s>> \o out[k + 1]
        BY <2>5, <4>1, Zenon
      <4>5. a \o (<<s>> \o out[k + 1]) = (a \o <<s>>) \o out[k + 1]
        BY <2>3, <2>4
      <4> QED
        BY <4>3, <4>4, <4>5, Zenon
    <3>2. CASE s = "$" /\ ~(k < N)
      <4>1. k = N
        BY <1>1, <3>2
      <4>2. writes[k] = <<"$">> /\ next[k] = k + 1
        BY <1>8, <3>2
      <4>3. read[k].dollar /\ read[k].text = a
        BY <1>7, <2>6, <3>2
      <4>4. out[k] = <<"$">> \o out[k + 1]
        BY <2>5, <4>2, Zenon
      <4>5. out[k + 1] = <<>>
        BY <1>4, <4>1
      <4>6. <<"$">> \o <<>> = <<"$">>
        OBVIOUS
      <4>7. out[k] = <<"$">>
        BY <4>4, <4>5, <4>6, Zenon
      <4>8. meant = read[k].text \o <<"$">>
        BY <1>6, <4>1, <4>3
      <4> QED
        BY <4>3, <4>7, <4>8, Zenon
    <3>3. CASE s = "$" /\ k < N
      <4> DEFINE t == text[k + 1]
      <4>1. /\ k + 1 \in 1 .. N /\ k + 2 \in 1 .. N + 1 /\ k + 2 \in k + 1 .. N + 1
            /\ (k + 2) - 1 = k + 1 /\ (k + 1) + 1 = k + 2
        BY <1>1, <3>3
      <4>2. read[k].dollar /\ read[k].text = a
        BY <1>7, <2>6, <3>3
      <4>3. ~read[k + 1].dollar => meant = read[k + 1].text \o out[k + 2]
        <5>1. k + 2 \in P
          BY <1>11, <4>1
        <5> QED
          BY <4>1, <5>1
      <4>4. out[k + 2] \in Seq(Symbol) /\ t \in Symbol
        BY <1>1, <1>4, <4>1
      <4>5. /\ t = "$" => ~read[k + 1].dollar /\ read[k + 1].text = a \o <<"$">>
            /\ t = "W" => ~read[k + 1].dollar /\ read[k + 1].text = a \o <<"width">>
            /\ t = "P" => ~read[k + 1].dollar /\ read[k + 1].text = a \o params
            /\ t \notin {"$", "W", "P"} => ~read[k + 1].dollar /\ read[k + 1].text = a \o <<"$", t>>
        <5>1. LET p == read[k]  q == read[k + 1]
              IN /\ p.dollar /\ t = "$" => ~q.dollar /\ q.text = p.text \o <<"$">>
                 /\ p.dollar /\ t = "W" => ~q.dollar /\ q.text = p.text \o <<"width">>
                 /\ p.dollar /\ t = "P" => ~q.dollar /\ q.text = p.text \o params
                 /\ p.dollar /\ t \notin {"$", "W", "P"} => ~q.dollar /\ q.text = p.text \o <<"$", t>>
          BY <1>7, <2>1, <4>1
        <5> HIDE DEF a, t
        <5> QED
          BY <4>2, <5>1
      <4>6. ASSUME NEW v \in Seq(Symbol), ~read[k + 1].dollar, read[k + 1].text = a \o v,
                   out[k] = v \o out[k + 2]
            PROVE  meant = a \o out[k]
        <5>1. meant = (a \o v) \o out[k + 2]
          BY <4>3, <4>6, Zenon
        <5> HIDE DEF a
        <5> QED
          BY <2>4, <4>4, <4>6, <5>1, Zenon
      <4>7. CASE t = "$"
        <5>1. out[k] = <<"$">> \o out[k + 2]
          <6>1. writes[k] = <<"$">> /\ next[k] = k + 2
            BY <1>8, <3>3, <4>7
          <6> QED
            BY <2>5, <6>1, Zenon
        <5> QED
          BY <2>3, <4>5, <4>6, <4>7, <5>1
      <4>8. CASE t = "W"
        <5>1. out[k] = <<"width">> \o out[k + 2]
          <6>1. writes[k] = <<"width">> /\ next[k] = k + 2
            BY <1>8, <3>3, <4>8
          <6> QED
            BY <2>5, <6>1, Zenon
        <5> QED
          BY <4>5, <4>6, <4>8, <5>1, Words
      <4>9. CASE t = "P"
        <5>1. out[k] = params \o out[k + 2]
          <6>1. writes[k] = params /\ next[k] = k + 2
            BY <1>8, <3>3, <4>9
          <6> QED
            BY <2>5, <6>1, Zenon
        <5> QED
          BY <4>5, <4>6, <4>9, <5>1
      <4>10. CASE t \notin {"$", "W", "P"}
        <5>1. writes[k] = <<"$">> /\ next[k] = k + 1
          BY <1>8, <3>3, <4>10
        <5>2. writes[k + 1] = <<t>> /\ next[k + 1] = k + 2
          <6>1. t # "$"
            BY <4>10
          <6>2. writes[k + 1] = <<t>> /\ next[k + 1] = (k + 1) + 1
            BY <1>8, <4>1, <6>1
          <6> QED
            BY <4>1, <6>2
        <5>3. out[k + 1] = writes[k + 1] \o out[next[k + 1]]
          BY <1>4, <4>1
        <5>4. out[k] = <<"$">> \o (<<t>> \o out[k + 2])
          BY <2>5, <5>1, <5>2, <5>3, Zenon
        <5>5. <<t>> \in Seq(Symbol) /\ <<"$", t>> \in Seq(Symbol) /\ <<"$">> \o <<t>> = <<"$", t>>
          BY <1>9, <4>4
        <5> HIDE DEF t
        <5>6. <<"$">> \o (<<t>> \o out[k + 2]) = (<<"$">> \o <<t>>) \o out[k + 2]
          BY <2>3, <4>4, <5>5, Joined
        <5>7. out[k] = <<"$", t>> \o out[k + 2]
          BY <5>4, <5>5, <5>6, Zenon
        <5> QED
          BY <4>5, <4>6, <4>10, <5>5, <5>7
      <4> HIDE DEF t
      <4> QED
        BY <4>7, <4>8, <4>9, <4>10
    <3> QED
      BY <3>1, <3>2, <3>3
  <2> QED
    BY <2>1, <2>6
<1>12. P = 1 .. N + 1
  <2> HIDE DEF P
  <2>1. P \in SUBSET (1 .. N + 1)
    BY DEF P
  <2> QED
    BY <1>1, <1>10, <1>11, <2>1, Backwards
<1>13. meant = out[1] /\ out[1] \in Seq(Symbol)
  <2>1. 1 - 1 = 0 /\ 1 \in 1 .. N + 1
    BY <1>1
  <2>2. out[1] \in Seq(Symbol)
    BY <1>4, <2>1
  <2>3. <<>> \o out[1] = out[1]
    BY <2>2, ConcatEmptySeq
  <2>4. ~read[0].dollar /\ read[0].text = <<>>
    BY <1>5
  <2>5. ~read[0].dollar => meant = read[0].text \o out[1]
    <3>1. 1 \in P
      BY <1>12, <2>1
    <3> QED
      BY <2>1, <3>1
  <2> QED
    BY <2>2, <2>3, <2>4, <2>5, Zenon
<1>14. Substituted(text, params) = out[1]
  BY DEF Substituted, out, writes, next, N
<1> QED
  BY <1>13, <1>14 DEF meant

-----------------------------------------------------------------------------
(* A file.                                                                 *)

\* What one fread takes: some of the text, up to the end of the buffer or of the file.
LEMMA ChunkIsPart ==
  ASSUME NEW text \in Seq(Symbol), NEW k \in 1 .. Len(text)
  PROVE  \E e \in k .. Len(text) :
            /\ Chunk(text, k) = SubSeq(text, k, e)
            /\ Chunk(text, k) \in Seq(Symbol)
            /\ k + Len(Chunk(text, k)) = e + 1
            /\ Len(text) < BUF_SIZE => e = Len(text)
<1> DEFINE N == Len(text)
           e == IF k + BUF_SIZE - 2 < N THEN k + BUF_SIZE - 2 ELSE N
<1>1. N \in Nat /\ \A i \in 1 .. N : text[i] \in Symbol
  BY LenProperties, ElementOfSeq
<1>2. Chunk(text, k) = SubSeq(text, k, e)
  BY DEF Chunk
<1>3. k \in 1 .. N
  OBVIOUS
<1> HIDE DEF N
<1>4. e \in k .. N /\ (N < BUF_SIZE => e = N)
  BY <1>1, <1>3, HttpdAssumption
<1> HIDE DEF e
<1>5. k \in Int /\ e \in Int /\ k <= e /\ \A i \in k .. e : text[i] \in Symbol
  BY <1>1, <1>3, <1>4
<1>6. SubSeq(text, k, e) \in Seq(Symbol) /\ Len(SubSeq(text, k, e)) = e - k + 1
  BY <1>5, SubSeqProperties
<1>7. k + Len(Chunk(text, k)) = e + 1
  BY <1>2, <1>5, <1>6
<1>8. /\ Chunk(text, k) = SubSeq(text, k, e)
      /\ Chunk(text, k) \in Seq(Symbol)
  BY <1>2, <1>6, Zenon
<1> QED
  BY <1>4, <1>7, <1>8 DEF N

\* A file that is no page is sent as it is, whatever its length and the buffer's.
LEMMA FileIsWhole ==
  ASSUME NEW text \in Seq(Symbol), NEW params
  PROVE  Body(text, FALSE, params) = text
<1> DEFINE N == Len(text)
           writes == [k \in DOMAIN text |-> IF FALSE THEN Substituted(Chunk(text, k), params)
                                            ELSE Chunk(text, k)]
           next == [k \in DOMAIN text |-> k + Len(Chunk(text, k))]
           out == Output(N, writes, next)
           P == {k \in 1 .. N + 1 : out[k] = SubSeq(text, k, N)}
<1>1. N \in Nat /\ DOMAIN text = 1 .. N /\ \A i \in 1 .. N : text[i] \in Symbol
  BY LenProperties, ElementOfSeq
<1>2. \A k \in 1 .. N : writes[k] = Chunk(text, k) /\ next[k] = k + Len(Chunk(text, k))
  BY <1>1
<1>3. \A k \in 1 .. N : \E e \in k .. N :
        /\ Chunk(text, k) = SubSeq(text, k, e)
        /\ Chunk(text, k) \in Seq(Symbol)
        /\ k + Len(Chunk(text, k)) = e + 1
  BY ChunkIsPart
<1> HIDE DEF writes, next
<1>4. \A k \in 1 .. N : next[k] \in k + 1 .. N + 1 /\ writes[k] \in Seq(Symbol)
  <2> SUFFICES ASSUME NEW k \in 1 .. N PROVE next[k] \in k + 1 .. N + 1 /\ writes[k] \in Seq(Symbol)
    OBVIOUS
  <2>1. PICK e \in k .. N : Chunk(text, k) \in Seq(Symbol) /\ k + Len(Chunk(text, k)) = e + 1
    BY <1>3
  <2>2. e + 1 \in k + 1 .. N + 1
    BY <1>1, <2>1
  <2> QED
    BY <1>2, <2>1, <2>2
<1>5. /\ out[N + 1] = <<>>
      /\ \A k \in 1 .. N : out[k] = writes[k] \o out[next[k]]
  <2>1. /\ \A k \in 1 .. N : next[k] \in k + 1 .. N + 1
        /\ \A k \in 1 .. N : writes[k] \in Seq(Symbol)
    BY <1>4
  <2> HIDE DEF N, P
  <2>2. /\ out[N + 1] = <<>>
        /\ \A k \in 1 .. N : out[k] = writes[k] \o out[next[k]]
        /\ \A k \in 1 .. N + 1 : out[k] \in Seq(Symbol)
    BY <1>1, <2>1, OutputIsText
  <2> QED
    BY <2>2
<1> HIDE DEF out
<1>6. N + 1 \in P
  <2>1. SubSeq(text, N + 1, N) = <<>>
    BY <1>1, SubSeqEmpty
  <2>2. N + 1 \in 1 .. N + 1
    BY <1>1
  <2>3. out[N + 1] = SubSeq(text, N + 1, N)
    BY <1>5, <2>1, Zenon
  <2> QED
    BY <2>2, <2>3
<1>7. ASSUME NEW k \in 1 .. N, k + 1 .. N + 1 \subseteq P PROVE k \in P
  <2>1. PICK e \in k .. N : /\ Chunk(text, k) = SubSeq(text, k, e)
                            /\ k + Len(Chunk(text, k)) = e + 1
    BY <1>3
  <2>2. e + 1 \in k + 1 .. N + 1 /\ k \in 1 .. N + 1 /\ e \in k - 1 .. N /\ N \in e .. N
    BY <1>1, <2>1
  <2>3. writes[k] = SubSeq(text, k, e) /\ next[k] = e + 1
    BY <1>2, <2>1
  <2>4. out[e + 1] = SubSeq(text, e + 1, N)
    <3>1. e + 1 \in P
      BY <1>7, <2>2
    <3> QED
      BY <3>1
  <2>5. SubSeq(text, k, e) \o SubSeq(text, e + 1, N) = SubSeq(text, k, N)
    BY <2>2, ConcatAdjacentSubSeq
  <2>6. out[k] = SubSeq(text, k, N)
    BY <1>5, <2>3, <2>4, <2>5, Zenon
  <2> QED
    BY <2>2, <2>6
<1>8. P = 1 .. N + 1
  <2> HIDE DEF P
  <2>1. P \in SUBSET (1 .. N + 1)
    BY DEF P
  <2>2. N \in Nat
    BY <1>1
  <2> HIDE DEF N
  <2> QED
    BY <1>6, <1>7, <2>1, <2>2, Backwards
<1>9. out[1] = text
  <2>1. 1 \in P
    BY <1>1, <1>8
  <2>2. out[1] = SubSeq(text, 1, N)
    BY <2>1
  <2>3. SubSeq(text, 1, N) = text
    BY SubSeqFull
  <2> QED
    BY <2>2, <2>3, Zenon
<1> QED
  BY <1>9 DEF Body, out, writes, next, N

\* A page that the buffer holds is substituted as a whole: no "$" is cut from its letter.
LEMMA PageIsWhole ==
  ASSUME NEW text \in Seq(Symbol), NEW params \in Seq(Symbol), Len(text) < BUF_SIZE
  PROVE  Body(text, TRUE, params) = Meaning(text, params)
<1> DEFINE N == Len(text)
           writes == [k \in DOMAIN text |-> IF TRUE THEN Substituted(Chunk(text, k), params)
                                            ELSE Chunk(text, k)]
           next == [k \in DOMAIN text |-> k + Len(Chunk(text, k))]
           out == Output(N, writes, next)
<1>1. N \in Nat /\ DOMAIN text = 1 .. N
  BY LenProperties
<1>2. \A k \in 1 .. N : /\ writes[k] = Substituted(Chunk(text, k), params)
                        /\ next[k] = k + Len(Chunk(text, k))
  BY <1>1
<1>3. \A k \in 1 .. N : /\ Chunk(text, k) = SubSeq(text, k, N)
                        /\ Chunk(text, k) \in Seq(Symbol)
                        /\ k + Len(Chunk(text, k)) = N + 1
  BY ChunkIsPart
<1> HIDE DEF writes, next
<1>4. \A k \in 1 .. N : next[k] = N + 1 /\ writes[k] \in Seq(Symbol)
  <2> SUFFICES ASSUME NEW k \in 1 .. N PROVE next[k] = N + 1 /\ writes[k] \in Seq(Symbol)
    OBVIOUS
  <2>1. Substituted(Chunk(text, k), params) \in Seq(Symbol)
    BY <1>3, PageIsMeant
  <2> QED
    BY <1>2, <1>3, <2>1
<1>5. /\ out[N + 1] = <<>>
      /\ \A k \in 1 .. N : out[k] = writes[k] \o out[next[k]]
  <2>1. /\ \A k \in 1 .. N : next[k] \in k + 1 .. N + 1
        /\ \A k \in 1 .. N : writes[k] \in Seq(Symbol)
    BY <1>1, <1>4
  <2> HIDE DEF N
  <2>2. /\ out[N + 1] = <<>>
        /\ \A k \in 1 .. N : out[k] = writes[k] \o out[next[k]]
        /\ \A k \in 1 .. N + 1 : out[k] \in Seq(Symbol)
    BY <1>1, <2>1, OutputIsText
  <2> QED
    BY <2>2
<1>6. Body(text, TRUE, params) = out[1]
  BY DEF Body, out, writes, next, N
<1> HIDE DEF out
<1>7. CASE N = 0
  <2>1. out[1] = <<>>
    BY <1>5, <1>7
  <2>2. Substituted(text, params) = <<>>
    <3> DEFINE w == [k \in DOMAIN text |-> Token(text, k, params).value]
               x == [k \in DOMAIN text |-> k + Token(text, k, params).skip]
    <3>1. Substituted(text, params) = Output(0, w, x)[1]
      BY <1>7 DEF Substituted
    <3> HIDE DEF w, x
    <3>2. Output(0, w, x)[0 + 1] = <<>>
      <4>1. \A k \in 1 .. 0 : x[k] \in k + 1 .. 0 + 1 /\ w[k] \in Seq(Symbol)
        OBVIOUS
      <4> QED
        BY <4>1, OutputIsText
    <3> QED
      BY <3>1, <3>2
  <2> QED
    BY <1>6, <2>1, <2>2, PageIsMeant
<1>8. CASE N # 0
  <2>1. 1 \in 1 .. N
    BY <1>1, <1>8
  <2>2. Chunk(text, 1) = text
    BY <1>3, <2>1, SubSeqFull
  <2>3. writes[1] = Meaning(text, params)
    BY <1>2, <2>1, <2>2, PageIsMeant
  <2>4. out[1] = writes[1] \o <<>>
    BY <1>4, <1>5, <2>1
  <2>5. writes[1] \o <<>> = writes[1]
    BY <1>4, <2>1, ConcatEmptySeq
  <2> QED
    BY <1>6, <2>3, <2>4, <2>5
<1> QED
  BY <1>7, <1>8

-----------------------------------------------------------------------------
(* An answer.                                                              *)

\* parseParams gives what is well-formed, or nothing.
LEMMA ParamsAreGiven ==
  ASSUME NEW r \in Requests
  PROVE  parseParams(r.params) = Given(r.params) /\ Given(r.params) \in Seq(Symbol)
<1> DEFINE params == r.params
<1>1. params \in Seq({"ok", "bad", "long"}) /\ {"ok", "bad", "long"} \subseteq Symbol
  BY HttpdAssumption
<1> HIDE DEF params
<1>2. Len(params) \in Nat /\ DOMAIN params = 1 .. Len(params)
      /\ \A i \in 1 .. Len(params) : params[i] \in {"ok", "bad", "long"}
  BY <1>1, LenProperties, ElementOfSeq
<1>3. (\E i \in DOMAIN params : params[i] \in {"bad", "long"}) <=> ~(ToSet(params) \subseteq {"ok"})
  BY <1>2 DEF ToSet
<1>4. MaxParams \in Nat
  BY HttpdAssumption
<1>5. parseParams(params) = Given(params)
  BY <1>2, <1>3, <1>4 DEF parseParams, Given
<1>6. params \in Seq(Symbol) /\ <<>> \in Seq(Symbol)
  BY <1>1, SeqMonotonic, EmptySeq
<1>7. Given(params) \in Seq(Symbol)
  BY <1>6 DEF Given
<1> QED
  BY <1>5, <1>7 DEF params

\* What a request is answered with, when it is one for the http server itself.
AnswerIsWhole(r) ==
  LET name == FileOf(r.name)  text == Files[name]
  IN CASE name \notin DOMAIN Files -> HttpAnswer[r] = <<"NOT_FOUND">>
       [] name \in DOMAIN Files \ Pages -> HttpAnswer[r] = <<"OK">> \o text
       [] OTHER -> Len(text) < BUF_SIZE => HttpAnswer[r] = <<"OK">> \o Meaning(text, Given(r.params))

\* For each request that is answered, HttpAnswer is what the file named by it means.
LEMMA AnswersMean ==
  ASSUME NEW r \in Requests, HttpAnswer[r] # <<>>, ~(r.line = "proxied" /\ httpEnableProxyConnect)
  PROVE  AnswerIsWhole(r)
<1> DEFINE name == FileOf(r.name)
           text == Files[name]
           body == Body(text, name \in Pages, parseParams(r.params))
<1>1. HttpAnswer[r] =
        CASE r.line = "proxied" /\ httpEnableProxyConnect -> <<"PROXY_OK">>
          [] r.line = "GET" /\ name \notin DOMAIN Files -> <<"NOT_FOUND">>
          [] r.line = "GET" /\ name \in DOMAIN Files -> <<"OK">> \o body
          [] OTHER -> <<>>
  BY DEF HttpAnswer
<1> HIDE DEF body, name
<1>2. /\ name \notin DOMAIN Files => HttpAnswer[r] = <<"NOT_FOUND">>
      /\ name \in DOMAIN Files => HttpAnswer[r] = <<"OK">> \o body
  BY <1>1
<1>3. name \in DOMAIN Files => text \in Seq(Symbol)
  BY HttpdAssumption
<1>4. CASE name \notin DOMAIN Files
  BY <1>2, <1>4 DEF AnswerIsWhole, name
<1>5. CASE name \in DOMAIN Files /\ name \notin Pages
  <2>1. body = text
    <3>1. (name \in Pages) = FALSE
      BY <1>5
    <3>2. body = Body(text, FALSE, parseParams(r.params))
      BY <3>1, Zenon DEF body
    <3> QED
      BY <1>3, <1>5, <3>2, FileIsWhole
  <2>2. HttpAnswer[r] = <<"OK">> \o text
    BY <1>2, <1>5, <2>1
  <2> QED
    BY <1>5, <2>2 DEF AnswerIsWhole, name
<1>6. CASE name \in DOMAIN Files /\ name \in Pages
  <2>1. ASSUME Len(text) < BUF_SIZE PROVE body = Meaning(text, Given(r.params))
    <3>1. body = Body(text, TRUE, Given(r.params))
      BY <1>6, ParamsAreGiven DEF body
    <3> QED
      BY <1>3, <1>6, <2>1, <3>1, PageIsWhole, ParamsAreGiven
  <2>2. Len(text) < BUF_SIZE => HttpAnswer[r] = <<"OK">> \o Meaning(text, Given(r.params))
    BY <1>2, <1>6, <2>1
  <2> QED
    BY <1>6, <2>2 DEF AnswerIsWhole, name
<1> QED
  BY <1>4, <1>5, <1>6

-----------------------------------------------------------------------------
(* The invariant.                                                          *)

Pieces == Seq({1, 2})

Connection ==
  [at : {"away", "backlog", "open", "closed", "viewer"}, asks : Requests \cup {Nobody}, sent : 0 .. 2,
   unread : Pieces, gone : BOOLEAN, answer : {<<>>} \cup {HttpAnswer[r] : r \in Requests},
   late : BOOLEAN, cut : BOOLEAN]

ForTheViewer(c) == c.asks.line = "proxied" /\ httpEnableProxyConnect

\* What is unread has been sent, and by somebody who is still served or waits; whoever
\* has his answer has it to what he asked, and is not served any more.
Answered(c) ==
  /\ c.sent > 0 => c.asks \in Requests
  /\ c.unread # <<>> => c.sent > 0
  /\ c.answer # <<>> => /\ c.sent > 0 /\ c.answer = HttpAnswer[c.asks]
                        /\ c.at = "viewer" \/ (c.at = "closed" /\ ~ForTheViewer(c))

HttpTypeOK ==
  /\ httpSock \in Browser \cup {Nobody}
  /\ selected \in SUBSET {"sock", "listen"}
  /\ tcp \in [Browser -> Connection]

\* The connection that is open is the one that is served, and there is no other one:
\* nobody is forgotten.
OpenIsServed ==
  /\ \A b \in Browser : tcp[b].at = "open" <=> httpSock = b
  /\ "sock" \in selected => httpSock \in Browser

HttpInv == HttpTypeOK /\ OpenIsServed /\ \A b \in Browser : Answered(tcp[b])

\* Nobody has connected yet.
LEMMA HttpInitially == HttpInit => HttpInv
<1> SUFFICES ASSUME HttpInit PROVE HttpInv
  OBVIOUS
<1>1. Unused \in Connection
  <2>1. <<>> \in Pieces
    BY EmptySeq DEF Pieces
  <2> QED
    BY <2>1 DEF Unused, Connection
<1>2. HttpTypeOK
  BY <1>1 DEF HttpInit, HttpTypeOK
<1>3. OpenIsServed /\ \A b \in Browser : Answered(tcp[b])
  BY HttpdAssumption DEF HttpInit, OpenIsServed, Answered, Unused
<1> QED
  BY <1>2, <1>3 DEF HttpInv

\* httpProcessInput changes only the connection that it serves.
LEMMA InputIsProcessed ==
  ASSUME HttpInv, NEW b \in Browser, tcp[b].at = "open"
  PROVE  LET c == httpProcessInput(b)
         IN /\ c \in [Browser -> Connection]
            /\ \A o \in Browser \ {b} : c[o] = tcp[o]
            /\ Answered(c[b])
            /\ c[b].at \in {"open", "closed", "viewer"}
            /\ c[b].at = "viewer" => ForTheViewer(tcp[b])
<1> DEFINE seen == tcp[b].unread
           read == [tcp EXCEPT ![b].unread = <<>>]
           shut == [read EXCEPT ![b].at = "closed"]
           answer == IF tcp[b].gone THEN <<>> ELSE HttpAnswer[tcp[b].asks]
           place == IF ForTheViewer(tcp[b]) THEN "viewer" ELSE "closed"
           full == [read EXCEPT ![b].answer = answer, ![b].at = place]
           c == httpProcessInput(b)
           Done == /\ c \in [Browser -> Connection]
                   /\ \A o \in Browser \ {b} : c[o] = tcp[o]
                   /\ Answered(c[b])
                   /\ c[b].at \in {"open", "closed", "viewer"}
                   /\ c[b].at = "viewer" => ForTheViewer(tcp[b])
<1>1. tcp \in [Browser -> Connection] /\ tcp[b] \in Connection /\ Answered(tcp[b])
  BY DEF HttpInv, HttpTypeOK
<1>2. tcp[b].answer = <<>>
  BY <1>1 DEF Answered
<1>3. <<>> \in Pieces
  BY EmptySeq DEF Pieces
<1>4. c = CASE 2 \notin ToSet(seen) /\ ~tcp[b].gone -> read
            [] 2 \notin ToSet(seen) /\ tcp[b].gone -> shut
            [] seen = <<2>> -> shut
            [] OTHER -> full
  BY Zenon DEF httpProcessInput, Closed, ForTheViewer
<1>5. \/ c = read
      \/ c = shut
      \/ c = full /\ 2 \in ToSet(seen)
  <2> HIDE DEF c, read, shut, full, seen
  <2> QED
    BY <1>4
<1>6. 2 \in ToSet(seen) => tcp[b].asks \in Requests /\ tcp[b].sent > 0
  <2>1. 2 \in ToSet(seen) => seen # <<>>
    BY DEF ToSet
  <2> QED
    BY <1>1, <2>1 DEF Answered
<1>7. /\ read \in [Browser -> Connection] /\ read[b] = [tcp[b] EXCEPT !.unread = <<>>]
      /\ \A o \in Browser \ {b} : read[o] = tcp[o]
  BY <1>1, <1>3 DEF Connection
<1>8. ASSUME c = read PROVE Done
  <2>1. Answered(read[b]) /\ read[b].at = "open"
    BY <1>1, <1>2, <1>7 DEF Answered, Connection, ForTheViewer
  <2> QED
    BY <1>7, <1>8, <2>1
<1>9. ASSUME c = shut PROVE Done
  <2>1. /\ shut \in [Browser -> Connection] /\ shut[b] = [read[b] EXCEPT !.at = "closed"]
        /\ \A o \in Browser \ {b} : shut[o] = tcp[o]
    <3> HIDE DEF read
    <3> QED
      BY <1>7 DEF Connection
  <2>2. Answered(shut[b]) /\ shut[b].at = "closed"
    BY <1>1, <1>2, <1>7, <2>1 DEF Answered, Connection, ForTheViewer
  <2> QED
    BY <1>9, <2>1, <2>2
<1>10. ASSUME c = full, 2 \in ToSet(seen) PROVE Done
  <2>1. answer \in {<<>>} \cup {HttpAnswer[r] : r \in Requests}
    BY <1>6, <1>10
  <2>2. place \in {"viewer", "closed"}
    OBVIOUS
  <2> HIDE DEF answer, place
  <2>3. /\ full \in [Browser -> Connection] /\ full[b] = [read[b] EXCEPT !.answer = answer, !.at = place]
        /\ \A o \in Browser \ {b} : full[o] = tcp[o]
    <3> HIDE DEF read
    <3>1. full = [read EXCEPT ![b] = [read[b] EXCEPT !.answer = answer, !.at = place]]
      BY <1>7
    <3>2. [read[b] EXCEPT !.answer = answer, !.at = place] \in Connection
      BY <1>7, <2>1, <2>2 DEF Connection
    <3> HIDE DEF full
    <3> QED
      BY <1>7, <3>1, <3>2
  <2>4. /\ full[b].asks = tcp[b].asks /\ full[b].sent = tcp[b].sent /\ full[b].unread = <<>>
        /\ full[b].answer = answer /\ full[b].at = place
    BY <1>1, <1>7, <2>3 DEF Connection
  <2> HIDE DEF full
  <2>5. Answered(full[b])
    <3>1. answer # <<>> => answer = HttpAnswer[full[b].asks]
      BY <2>4 DEF answer
    <3>2. place = "viewer" \/ (place = "closed" /\ ~ForTheViewer(full[b]))
      BY <2>4 DEF place, ForTheViewer
    <3> QED
      BY <1>6, <1>10, <2>4, <3>1, <3>2 DEF Answered
  <2>6. place = "viewer" => ForTheViewer(tcp[b])
    BY DEF place
  <2> QED
    BY <1>10, <2>2, <2>3, <2>4, <2>5, <2>6
<1> HIDE DEF Done
<1>11. Done
  <2> HIDE DEF c, read, shut, full
  <2> QED
    BY <1>5, <1>8, <1>9, <1>10
<1> QED
  BY <1>11 DEF Done

\* Accept closes whoever is served, and serves the newcomer.
LEMMA NewcomerIsServed ==
  ASSUME HttpTypeOK, NEW c \in [Browser -> Connection], \A o \in Browser : Answered(c[o]),
         \A o \in Browser : c[o].at = "open" => httpSock = o,
         NEW b \in Browser, c[b].at = "backlog"
  PROVE  LET d == Accept(c, b)
         IN /\ d \in [Browser -> Connection]
            /\ \A o \in Browser : Answered(d[o]) /\ (d[o].at = "open" <=> o = b)
<1> DEFINE d == Accept(c, b)
           old == {httpSock} \cap {o \in Browser : c[o].at = "open"}
<1>1. ASSUME NEW o \in Browser
      PROVE  /\ d[o] \in Connection /\ Answered(d[o]) /\ (d[o].at = "open" <=> o = b)
  <2>0. c[o] \in Connection /\ Answered(c[o])
    OBVIOUS
  <2>1. CASE o = b
    <3>1. d[o] = [c[o] EXCEPT !.at = "open"]
      BY <2>1 DEF Accept
    <3>2. c[o].answer = <<>>
      BY <2>0, <2>1 DEF Answered
    <3> HIDE DEF d
    <3> QED
      BY <2>0, <2>1, <3>1, <3>2 DEF Connection, Answered, ForTheViewer
  <2>2. CASE o # b /\ o \in old
    <3>1. d[o] = [c[o] EXCEPT !.at = "closed", !.late = "sock" \notin selected]
      BY <2>2 DEF Accept
    <3>2. c[o].answer = <<>>
      BY <2>0, <2>2 DEF Answered
    <3>3. ("sock" \notin selected) \in BOOLEAN
      OBVIOUS
    <3> DEFINE late == "sock" \notin selected
    <3> HIDE DEF d, late
    <3>4. d[o] = [c[o] EXCEPT !.at = "closed", !.late = late]
      BY <3>1 DEF late
    <3>5. late \in BOOLEAN
      BY DEF late
    <3> QED
      BY <2>0, <2>2, <3>2, <3>4, <3>5 DEF Connection, Answered, ForTheViewer
  <2>3. CASE o # b /\ o \notin old
    <3>1. d[o] = c[o] /\ c[o].at # "open"
      BY <2>3 DEF Accept
    <3> QED
      BY <2>0, <2>3, <3>1
  <2> QED
    BY <2>1, <2>2, <2>3
<1>2. d = [o \in Browser |-> d[o]]
  BY DEF Accept
<1> HIDE DEF d
<1>3. d \in [Browser -> Connection]
  BY <1>1, <1>2
<1> QED
  BY <1>1, <1>3 DEF d

\* A browser that changes neither who is served nor an answer that has been given.
LEMMA BrowserMoves ==
  ASSUME HttpInv, NEW b \in Browser, NEW c \in Connection, Answered(c),
         c.at = "open" <=> tcp[b].at = "open",
         tcp' = [tcp EXCEPT ![b] = c], UNCHANGED <<httpSock, selected>>
  PROVE  HttpInv'
<1>1. /\ tcp' \in [Browser -> Connection] /\ tcp'[b] = c
      /\ \A o \in Browser \ {b} : tcp'[o] = tcp[o]
  BY DEF HttpInv, HttpTypeOK
<1>2. HttpTypeOK'
  BY <1>1 DEF HttpInv, HttpTypeOK
<1>3. OpenIsServed'
  <2>1. \A o \in Browser : tcp'[o].at = "open" <=> tcp[o].at = "open"
    BY <1>1
  <2> QED
    BY <2>1 DEF HttpInv, OpenIsServed
<1>4. ASSUME NEW o \in Browser PROVE Answered(tcp[o])'
  <2>1. CASE o = b
    BY <1>1, <2>1 DEF Answered, ForTheViewer
  <2>2. CASE o # b
    BY <1>1, <2>2 DEF Answered, ForTheViewer, HttpInv
  <2> QED
    BY <2>1, <2>2
<1> QED
  BY <1>2, <1>3, <1>4 DEF HttpInv

\* Who was away has no answer.
LEMMA ConnectsKeeps ==
  ASSUME HttpInv, NEW b \in Browser, Connects(b)
  PROVE  HttpInv'
<1> DEFINE c == [tcp[b] EXCEPT !.at = "backlog"]
<1>1. tcp[b] \in Connection /\ Answered(tcp[b]) /\ tcp \in [Browser -> Connection]
  BY DEF HttpInv, HttpTypeOK
<1>2. c \in Connection /\ Answered(c) /\ (c.at = "open" <=> tcp[b].at = "open")
  BY <1>1 DEF Connects, Connection, Answered, ForTheViewer
<1>3. tcp' = [tcp EXCEPT ![b] = c] /\ UNCHANGED <<httpSock, selected>>
  BY <1>1 DEF Connects
<1> HIDE DEF c
<1> QED
  BY <1>2, <1>3, BrowserMoves

\* Who has sent nothing has no answer.
LEMMA AsksKeeps ==
  ASSUME HttpInv, NEW b \in Browser, Asks(b)
  PROVE  HttpInv'
<1>1. tcp[b] \in Connection /\ Answered(tcp[b]) /\ tcp \in [Browser -> Connection]
  BY DEF HttpInv, HttpTypeOK
<1>2. PICK r \in Requests, pieces \in {<<1>>, <<1, 2>>} :
        tcp' = [tcp EXCEPT ![b].asks = r, ![b].sent = Len(pieces), ![b].unread = pieces,
                             ![b].cut = Len(pieces) = 1]
  BY DEF Asks
<1>3. Len(pieces) \in 1 .. 2 /\ pieces \in Pieces
  <2>1. Len(<<1>>) = 1 /\ Len(<<1, 2>>) = 2
    OBVIOUS
  <2>2. <<1>> \in Pieces /\ <<1, 2>> \in Pieces
    BY Short DEF Pieces
  <2> QED
    BY <2>1, <2>2
<1> DEFINE n == Len(pieces)
           cut == n = 1
           c == [tcp[b] EXCEPT !.asks = r, !.sent = n, !.unread = pieces, !.cut = cut]
<1>4. n \in 1 .. 2 /\ cut \in BOOLEAN
  BY <1>3
<1>5. tcp' = [tcp EXCEPT ![b] = c] /\ UNCHANGED <<httpSock, selected>>
  <2>1. tcp' = [tcp EXCEPT ![b].asks = r, ![b].sent = n, ![b].unread = pieces, ![b].cut = cut]
    BY <1>2, Zenon
  <2> HIDE DEF n, cut
  <2> QED
    BY <1>1, <2>1 DEF Asks
<1> HIDE DEF n, cut
<1>6. tcp[b].answer = <<>>
  BY <1>1 DEF Asks, Answered, Connection
<1>7. c \in Connection /\ c.at = tcp[b].at
  <2>1. n \in 0 .. 2 /\ r \in Requests \cup {Nobody}
    BY <1>4
  <2>2. tcp[b] \in Connection
    BY <1>1
  <2> QED
    BY <1>3, <1>4, <2>1, <2>2 DEF Connection
<1>8. Answered(c)
  <2>1. c.asks = r /\ c.sent = n /\ c.answer = <<>>
    BY <1>1, <1>6 DEF Connection
  <2> HIDE DEF c
  <2> QED
    BY <1>4, <2>1 DEF Answered
<1> HIDE DEF c
<1> QED
  BY <1>5, <1>7, <1>8, BrowserMoves

\* The second piece belongs to the request of the first.
LEMMA AsksOnKeeps ==
  ASSUME HttpInv, NEW b \in Browser, AsksOn(b)
  PROVE  HttpInv'
<1> DEFINE more == Append(tcp[b].unread, 2)
           c == [tcp[b] EXCEPT !.sent = 2, !.unread = more]
<1>1. tcp[b] \in Connection /\ Answered(tcp[b]) /\ tcp \in [Browser -> Connection]
  BY DEF HttpInv, HttpTypeOK
<1>2. tcp' = [tcp EXCEPT ![b] = c] /\ UNCHANGED <<httpSock, selected>>
  BY <1>1 DEF AsksOn
<1>3. more \in Pieces
  <2>1. tcp[b].unread \in Pieces
    BY <1>1 DEF Connection
  <2> QED
    BY <2>1, AppendProperties DEF Pieces
<1> HIDE DEF more
<1>4. c \in Connection /\ c.at = tcp[b].at
  <2>1. 2 \in 0 .. 2
    OBVIOUS
  <2>2. tcp[b] \in Connection
    BY <1>1
  <2> QED
    BY <1>3, <2>1, <2>2 DEF Connection
<1>5. Answered(c)
  BY <1>1 DEF AsksOn, Answered, Connection
<1> HIDE DEF c
<1> QED
  BY <1>2, <1>4, <1>5, BrowserMoves

\* Who leaves stays on the list of the server until it reads from him.
LEMMA LeavesKeeps ==
  ASSUME HttpInv, NEW b \in Browser, Leaves(b)
  PROVE  HttpInv'
<1> DEFINE c == [tcp[b] EXCEPT !.gone = TRUE]
<1>1. tcp[b] \in Connection /\ Answered(tcp[b]) /\ tcp \in [Browser -> Connection]
  BY DEF HttpInv, HttpTypeOK
<1>2. tcp' = [tcp EXCEPT ![b] = c] /\ UNCHANGED <<httpSock, selected>>
  BY <1>1 DEF Leaves
<1>3. c \in Connection /\ c.at = tcp[b].at
  BY <1>1 DEF Connection
<1>4. Answered(c)
  BY <1>1 DEF Answered, Connection, ForTheViewer
<1> HIDE DEF c
<1> QED
  BY <1>2, <1>3, <1>4, BrowserMoves

\* select finds the connection that is served, if there is one.
LEMMA SelectKeeps ==
  ASSUME HttpInv, Select
  PROVE  HttpInv'
<1>1. selected' \in SUBSET {"sock", "listen"} /\ ("sock" \in selected' => httpSock # Nobody)
  BY DEF Select
<1>2. UNCHANGED <<httpSock, tcp>>
  BY DEF Select
<1> QED
  BY <1>1, <1>2 DEF HttpInv, HttpTypeOK, OpenIsServed, Answered, ForTheViewer

\* First the connection that is served is read, and closed if it got its answer; then the
\* newcomer takes its place.
LEMMA rfbHttpCheckFdsKeeps ==
  ASSUME HttpInv, rfbHttpCheckFds
  PROVE  HttpInv'
<1>1. HttpTypeOK /\ OpenIsServed /\ \A o \in Browser : Answered(tcp[o])
  BY DEF HttpInv
<1>2. "sock" \in selected => httpSock \in Browser /\ tcp[httpSock].at = "open"
  BY <1>1 DEF OpenIsServed
<1>3. selected' = {}
  BY DEF rfbHttpCheckFds
<1> DEFINE After == /\ tcp' \in [Browser -> Connection]
                    /\ httpSock' \in Browser \cup {Nobody}
                    /\ \A o \in Browser : Answered(tcp'[o]) /\ (tcp'[o].at = "open" <=> httpSock' = o)
<1>4. ASSUME NEW b \in Backlog, tcp' = Pass(b), httpSock' = b PROVE After
  <2> DEFINE c == IF "sock" \in selected THEN httpProcessInput(httpSock) ELSE tcp
  <2>1. b \in Browser /\ tcp[b].at = "backlog"
    BY DEF Backlog
  <2>2. /\ c \in [Browser -> Connection] /\ c[b].at = "backlog"
        /\ \A o \in Browser : Answered(c[o]) /\ (c[o].at = "open" => httpSock = o)
    <3>1. CASE "sock" \in selected
      <4> DEFINE e == httpProcessInput(httpSock)
      <4>1. /\ e \in [Browser -> Connection]
            /\ \A o \in Browser \ {httpSock} : e[o] = tcp[o]
            /\ Answered(e[httpSock])
        BY <1>2, <3>1, InputIsProcessed
      <4>2. c = e
        BY <3>1
      <4> HIDE DEF c, e
      <4>3. httpSock \in Browser /\ b # httpSock
        BY <1>2, <2>1, <3>1
      <4>4. \A o \in Browser : Answered(e[o])
        BY <1>1, <4>1, <4>3
      <4>5. e[b].at = "backlog" /\ \A o \in Browser : e[o].at = "open" => httpSock = o
        BY <1>1, <2>1, <4>1, <4>3 DEF OpenIsServed
      <4> QED
        BY <4>1, <4>2, <4>4, <4>5
    <3>2. CASE "sock" \notin selected
      BY <1>1, <2>1, <3>2 DEF HttpTypeOK, OpenIsServed
    <3> QED
      BY <3>1, <3>2
  <2>3. tcp' = Accept(c, b)
    BY <1>4 DEF Pass
  <2> HIDE DEF c
  <2>4. /\ tcp' \in [Browser -> Connection]
        /\ \A o \in Browser : Answered(tcp'[o]) /\ (tcp'[o].at = "open" <=> o = b)
    BY <1>1, <2>1, <2>2, <2>3, NewcomerIsServed
  <2> QED
    BY <1>4, <2>1, <2>4
<1>5. ASSUME selected = {"sock"}, tcp' = httpProcessInput(httpSock),
             httpSock' = IF tcp'[httpSock].at = "open" THEN httpSock ELSE Nobody
      PROVE  After
  <2>1. httpSock \in Browser /\ tcp[httpSock].at = "open"
    BY <1>2, <1>5
  <2>2. /\ tcp' \in [Browser -> Connection]
        /\ \A o \in Browser \ {httpSock} : tcp'[o] = tcp[o]
        /\ Answered(tcp'[httpSock])
    BY <1>5, <2>1, InputIsProcessed
  <2>3. \A o \in Browser : Answered(tcp'[o])
    BY <1>1, <2>1, <2>2
  <2>4. \A o \in Browser : tcp'[o].at = "open" <=> httpSock' = o
    BY <1>1, <1>5, <2>1, <2>2, HttpdAssumption DEF OpenIsServed
  <2>5. httpSock' \in Browser \cup {Nobody}
    BY <1>5, <2>1
  <2> QED
    BY <2>2, <2>3, <2>4, <2>5
<1> HIDE DEF After
<1>6. After
  <2>1. \/ \E b \in Backlog : tcp' = Pass(b) /\ httpSock' = b
        \/ /\ selected = {"sock"} /\ tcp' = httpProcessInput(httpSock)
           /\ httpSock' = (IF tcp'[httpSock].at = "open" THEN httpSock ELSE Nobody)
    BY DEF rfbHttpCheckFds
  <2> QED
    BY <1>4, <1>5, <2>1
<1>7. HttpTypeOK' /\ OpenIsServed'
  BY <1>3, <1>6 DEF After, HttpTypeOK, OpenIsServed
<1>8. \A o \in Browser : Answered(tcp[o])'
  BY <1>6 DEF After, Answered, ForTheViewer
<1> QED
  BY <1>7, <1>8 DEF HttpInv

\* The invariant is inductive.
LEMMA HttpStep == HttpInv /\ [HttpNext]_httpVars => HttpInv'
<1> SUFFICES ASSUME HttpInv, [HttpNext]_httpVars PROVE HttpInv'
  OBVIOUS
<1>1. CASE Select
  BY <1>1, SelectKeeps
<1>2. CASE rfbHttpCheckFds
  BY <1>2, rfbHttpCheckFdsKeeps
<1>3. ASSUME NEW b \in Browser, Connects(b) PROVE HttpInv'
  BY <1>3, ConnectsKeeps
<1>4. ASSUME NEW b \in Browser, Asks(b) PROVE HttpInv'
  BY <1>4, AsksKeeps
<1>5. ASSUME NEW b \in Browser, AsksOn(b) PROVE HttpInv'
  BY <1>5, AsksOnKeeps
<1>6. ASSUME NEW b \in Browser, Leaves(b) PROVE HttpInv'
  BY <1>6, LeavesKeeps
<1>7. CASE UNCHANGED httpVars
  BY <1>7 DEF httpVars, HttpInv, HttpTypeOK, OpenIsServed, Answered, ForTheViewer
<1> QED
  BY <1>1, <1>2, <1>3, <1>4, <1>5, <1>6, <1>7 DEF HttpNext

\* The invariant holds in every behaviour of the http server.
LEMMA HttpInvHolds == HttpSpec => []HttpInv
<1> QED
  BY HttpInitially, HttpStep, PTL DEF HttpSpec

-----------------------------------------------------------------------------
(* The theorems.                                                           *)

\* Every variable keeps its type, and unread pieces and answers are those of requests.
THEOREM HttpTypesHold == HttpSpec => []HttpTypeOK
<1>1. HttpInv => HttpTypeOK
  BY DEF HttpInv
<1> QED
  BY <1>1, HttpInvHolds, PTL

\* However browsers connect, ask, and leave, the one connection that is open is the one that
\* httpSock holds: rfbHttpCheckFds forgets no connection when it takes the next one, and keeps
\* none that httpProcessInput has closed or handed to the vnc server.
THEOREM OpenConnectionIsServed == HttpSpec => []OpenIsServed
<1>1. HttpInv => OpenIsServed
  BY DEF HttpInv
<1> QED
  BY <1>1, HttpInvHolds, PTL

\* For every set of files and every size of the buffer, what httpProcessInput answers is the
\* answer to what this browser asked, and the whole of it: a file chunk by chunk, a page that
\* fits the buffer with its variables replaced.
THEOREM AnswersHold == HttpSpec => []AnswersAreWhole
<1>1. HttpInv => AnswersAreWhole
  <2> SUFFICES ASSUME HttpInv, NEW b \in Browser, tcp[b].at = "closed", tcp[b].answer # <<>>
               PROVE  LET c == tcp[b]  name == FileOf(c.asks.name)  text == Files[name]
                      IN CASE name \notin DOMAIN Files -> c.answer = <<"NOT_FOUND">>
                           [] name \in DOMAIN Files \ Pages -> c.answer = <<"OK">> \o text
                           [] OTHER -> Len(text) < BUF_SIZE
                                         => c.answer = <<"OK">> \o Meaning(text, Given(c.asks.params))
    BY DEF AnswersAreWhole
  <2>1. tcp[b] \in Connection /\ Answered(tcp[b])
    BY DEF HttpInv, HttpTypeOK
  <2>2. tcp[b].asks \in Requests /\ tcp[b].answer = HttpAnswer[tcp[b].asks] /\ ~ForTheViewer(tcp[b])
    BY <2>1 DEF Answered
  <2>3. AnswerIsWhole(tcp[b].asks)
    BY <2>2, AnswersMean DEF ForTheViewer
  <2> QED
    BY <2>2, <2>3 DEF AnswerIsWhole
<1> QED
  BY <1>1, HttpInvHolds, PTL
=============================================================================
