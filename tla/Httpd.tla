------------------------------- MODULE Httpd --------------------------------
(***************************************************************************)
(* The http server of libvncserver (httpd.c), which hands the page with    *)
(* the viewer's applet to browsers.  The main loop runs it after the       *)
(* messages of the viewers; it has one connection, and one buffer.         *)
(*                                                                         *)
(* A file is a sequence of symbols: "$", the letters W and P that name the *)
(* width and the parameters, and others.  A request comes in one piece, or *)
(* in two: its first line, and its other lines with the blank one.         *)
(***************************************************************************)
EXTENDS Integers, Sequences, SequencesExt

CONSTANTS
  Browser,   \* connections; each asks once
  Requests,  \* what they ask: [line, name, params]
  Symbol,    \* what a text is made of
  Files,     \* [name -> its text]
  Pages,     \* the names that end in .vnc
  BUF_SIZE,
  MaxParams, \* how many parameters have room when they are formatted
  httpEnableProxyConnect,
  Nobody

ASSUME HttpdAssumption ==
  /\ Nobody \notin Browser /\ BUF_SIZE \in Nat /\ BUF_SIZE > 1 /\ MaxParams \in Nat
  /\ {"$", "width", "ok", "bad", "long"} \subseteq Symbol
  /\ \A n \in DOMAIN Files : Files[n] \in Seq(Symbol)
  /\ \A r \in Requests : r.params \in Seq({"ok", "bad", "long"})
  /\ "/index.vnc" \in Pages /\ httpEnableProxyConnect \in BOOLEAN

VARIABLES
  httpSock, \* the connection that is served
  selected, \* what select found ready to be read, between select and the reading
  tcp      \* [browser -> its connection]

httpVars == <<httpSock, selected, tcp>>

Unused == [at |-> "away", asks |-> Nobody, sent |-> 0, unread |-> <<>>, gone |-> FALSE,
           answer |-> <<>>, late |-> FALSE, cut |-> FALSE]

HttpInit == httpSock = Nobody /\ selected = {} /\ tcp = [b \in Browser |-> Unused]

-----------------------------------------------------------------------------
(* The other end.                                                          *)

Connects(b) ==
  /\ tcp[b].at = "away"
  /\ tcp' = [tcp EXCEPT ![b].at = "backlog"]
  /\ UNCHANGED <<httpSock, selected>>

\* What is sent to a closed socket is lost.
Asks(b) ==
  /\ tcp[b].at \in {"backlog", "open"} /\ ~tcp[b].gone /\ tcp[b].sent = 0
  /\ \E r \in Requests, pieces \in {<<1>>, <<1, 2>>} :
       tcp' = [tcp EXCEPT ![b].asks = r, ![b].sent = Len(pieces), ![b].unread = pieces,
                            ![b].cut = Len(pieces) = 1]
  /\ UNCHANGED <<httpSock, selected>>

AsksOn(b) ==
  /\ tcp[b].at \in {"backlog", "open"} /\ ~tcp[b].gone /\ tcp[b].sent = 1
  /\ tcp' = [tcp EXCEPT ![b].sent = 2, ![b].unread = Append(@, 2)]
  /\ UNCHANGED <<httpSock, selected>>

Leaves(b) ==
  /\ tcp[b].at \in {"backlog", "open"} /\ ~tcp[b].gone
  /\ tcp' = [tcp EXCEPT ![b].gone = TRUE]
  /\ UNCHANGED <<httpSock, selected>>

-----------------------------------------------------------------------------
(* The answer.  A browser that is gone does not get it.                    *)

\* parseParams: all of them, or none when one is malformed or there are too many.
parseParams(params) ==
  IF Len(params) > MaxParams \/ \E i \in DOMAIN params : params[i] \in {"bad", "long"}
  THEN <<>> ELSE params

\* (mutant: "$$" is two characters of the text)
Variable_Plain(text, k, params) ==
  CASE k < Len(text) /\ text[k + 1] = "W" -> [value |-> <<"width">>, skip |-> 2]
    [] k < Len(text) /\ text[k + 1] = "P" -> [value |-> params, skip |-> 2]
    [] OTHER -> [value |-> <<"$">>, skip |-> 1]

\* compareAndSkip at a "$", place k of the text: what is written for it, and how much of
\* the text it takes.
Variable(text, k, params) ==
  CASE k < Len(text) /\ text[k + 1] = "W" -> [value |-> <<"width">>, skip |-> 2]
    [] k < Len(text) /\ text[k + 1] = "P" -> [value |-> params, skip |-> 2]
    [] k < Len(text) /\ text[k + 1] = "$" -> [value |-> <<"$">>, skip |-> 2]
    [] OTHER -> [value |-> <<"$">>, skip |-> 1]

Token(text, k, params) ==
  IF text[k] = "$" THEN Variable(text, k, params) ELSE [value |-> <<text[k]>>, skip |-> 1]

\* A loop over n places writes something at each one that it comes to, and goes on to
\* a later one: what it writes from each place on.
Output(n, writes, next) ==
  LET from[k \in 1 .. n + 1] == IF k = n + 1 THEN <<>> ELSE writes[k] \o from[next[k]]
  IN from

Substituted(text, params) ==
  Output(Len(text), [k \in DOMAIN text |-> Token(text, k, params).value],
                    [k \in DOMAIN text |-> k + Token(text, k, params).skip])[1]

\* fread by fread: what begins at k ends where the buffer or the file does.
Chunk(text, k) ==
  SubSeq(text, k, IF k + BUF_SIZE - 2 < Len(text) THEN k + BUF_SIZE - 2 ELSE Len(text))

Body(text, isPage, params) ==
  Output(Len(text), [k \in DOMAIN text |-> IF isPage THEN Substituted(Chunk(text, k), params) ELSE Chunk(text, k)],
                    [k \in DOMAIN text |-> k + Len(Chunk(text, k))])[1]

FileOf(name) == IF name = "/" THEN "/index.vnc" ELSE name

\* A request that has been read from its beginning; "proxied" is one that a proxy
\* passes on.  Lines that are no GET, or are too long, are not answered.
HttpAnswer[r \in Requests] ==
  LET name == FileOf(r.name)
  IN CASE r.line = "proxied" /\ httpEnableProxyConnect -> <<"PROXY_OK">>
       [] r.line = "GET" /\ name \notin DOMAIN Files -> <<"NOT_FOUND">>
       [] r.line = "GET" /\ name \in DOMAIN Files ->
            <<"OK">> \o Body(Files[name], name \in Pages, parseParams(r.params))
       [] OTHER -> <<>>

-----------------------------------------------------------------------------
(* rfbHttpCheckFds                                                         *)

Readable(b) == tcp[b].unread # <<>> \/ tcp[b].gone
Backlog == {b \in Browser : tcp[b].at = "backlog"}

Select ==
  /\ selected = {}
  /\ selected' = (IF httpSock # Nobody /\ Readable(httpSock) THEN {"sock"} ELSE {})
                   \cup (IF Backlog # {} THEN {"listen"} ELSE {})
  /\ selected' # {}
  /\ UNCHANGED <<httpSock, tcp>>

Closed(c, b) == [c EXCEPT ![b].at = "closed"]

\* httpProcessInput, of b: the connections afterwards.  The buffer is emptied first: the
\* pieces that an earlier call read are gone.
httpProcessInput(b) ==
  LET seen == tcp[b].unread
      read == [tcp EXCEPT ![b].unread = <<>>]
      proxied == tcp[b].asks.line = "proxied" /\ httpEnableProxyConnect
  IN CASE 2 \notin ToSet(seen) /\ ~tcp[b].gone -> read
       [] 2 \notin ToSet(seen) /\ tcp[b].gone -> Closed(read, b)
       [] seen = <<2>> -> Closed(read, b)
       [] OTHER ->
            [read EXCEPT ![b].answer = IF tcp[b].gone THEN <<>> ELSE HttpAnswer[tcp[b].asks],
                         ![b].at = IF proxied THEN "viewer" ELSE "closed"]

\* The newcomer takes the place of whoever is still served.
Accept(c, b) ==
  LET old == {httpSock} \cap {o \in Browser : c[o].at = "open"}
  IN [o \in Browser |->
        CASE o = b -> [c[b] EXCEPT !.at = "open"]
          [] o \in old -> [c[o] EXCEPT !.at = "closed", !.late = "sock" \notin selected]
          [] OTHER -> c[o]]

\* (mutant: the newcomer first)
Pass_AcceptsFirst(b) == Accept(tcp, b)

\* First what the connection sent, and then who wants to connect; b is in the backlog.
Pass(b) ==
  Accept(IF "sock" \in selected THEN httpProcessInput(httpSock) ELSE tcp, b)

rfbHttpCheckFds ==
  /\ selected # {} /\ selected' = {}
  /\ \/ /\ "listen" \in selected
        /\ \E b \in Backlog : tcp' = Pass(b) /\ httpSock' = b
     \/ /\ selected = {"sock"}
        /\ tcp' = httpProcessInput(httpSock)
        /\ httpSock' = (IF tcp'[httpSock].at = "open" THEN httpSock ELSE Nobody)

HttpNext == Select \/ rfbHttpCheckFds \/ \E b \in Browser : Connects(b) \/ Asks(b) \/ AsksOn(b) \/ Leaves(b)

\* The main loop of fbvncserver never ends.
HttpSpec == HttpInit /\ [][HttpNext]_httpVars /\ WF_httpVars(Select \/ rfbHttpCheckFds)

-----------------------------------------------------------------------------
\* What variables mean, symbol by symbol.
Meant(p, s, params) ==
  CASE ~p.dollar /\ s = "$" -> [p EXCEPT !.dollar = TRUE]
    [] ~p.dollar /\ s # "$" -> [p EXCEPT !.text = Append(@, s)]
    [] p.dollar /\ s = "$" -> [text |-> Append(p.text, "$"), dollar |-> FALSE]
    [] p.dollar /\ s = "W" -> [text |-> Append(p.text, "width"), dollar |-> FALSE]
    [] p.dollar /\ s = "P" -> [text |-> p.text \o params, dollar |-> FALSE]
    [] OTHER -> [text |-> p.text \o <<"$", s>>, dollar |-> FALSE]

Meaning(text, params) ==
  LET read[n \in 0 .. Len(text)] ==
        IF n = 0 THEN [text |-> <<>>, dollar |-> FALSE] ELSE Meant(read[n - 1], text[n], params)
      p == read[Len(text)]
  IN IF p.dollar THEN Append(p.text, "$") ELSE p.text

\* One malformed parameter spoils them all.
Given(params) ==
  IF Len(params) <= MaxParams /\ ToSet(params) \subseteq {"ok"} THEN params ELSE <<>>

\* A browser that reads gets the whole of the file that it named, variables replaced
\* (in a page that fits the buffer, as httpProcessInput says), or is told that there is none.
AnswersAreWhole == \A b \in Browser :
  LET c == tcp[b]  name == FileOf(c.asks.name)  text == Files[name]
  IN c.at = "closed" /\ ~c.gone /\ c.answer # <<>> =>
       CASE name \notin DOMAIN Files -> c.answer = <<"NOT_FOUND">>
         [] name \in DOMAIN Files \ Pages -> c.answer = <<"OK">> \o text
         [] OTHER -> Len(text) < BUF_SIZE => c.answer = <<"OK">> \o Meaning(text, Given(c.asks.params))

Waits(b) == tcp[b].at \in {"backlog", "open"} /\ tcp[b].sent = 2 /\ tcp[b].asks.line = "GET"
SeenTo(b) == tcp[b].answer # <<>> \/ tcp[b].gone \/ tcp[b].late

\* Whoever sends his request in one piece is answered, unless another connects before
\* select sees it: connections that say nothing keep nobody out.
WholeRequestsAreAnswered == \A b \in Browser : Waits(b) /\ ~tcp[b].cut ~> SeenTo(b)

\* "Read data from the HTTP client until we get a complete request."
\* (A call that finds a part of one forgets it; see README.)
CompleteRequestsAreAnswered == \A b \in Browser : Waits(b) ~> SeenTo(b)
=============================================================================
