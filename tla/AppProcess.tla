----------------------------- MODULE AppProcess -----------------------------
(***************************************************************************)
(* The life of the app's process next to the native VNC server: the first  *)
(* run that installs the server (AppServer), the messages of the native    *)
(* server (send_remote_msg of fbvncserver.c) and the thread that shows     *)
(* them (LocalSocketServer), and the request loop of ManagementServer,     *)
(* which shows its own clients in the same notification.  Which server is  *)
(* wanted, and how the watchdog gets it, is VncControl and MngControl.     *)
(***************************************************************************)
EXTENDS Integers, Sequences, FiniteSets, SequencesExt

CONSTANTS
  Viewers,        \* clients of the native server
  Managers,       \* clients of the management server
  Silent,         \* the managers that may connect and say nothing
  Limit,          \* the descriptors that the native server has for clients and messages
  Backlog,        \* the connections that wait at the local socket
  MaxVersion,     \* bound: the last version of the package
  MaxEvents,      \* bound: connections of clients, and processes killed from outside
  None

ASSUME AppProcessAssumption ==
  /\ Silent \subseteq Managers /\ None \notin Viewers \cup Managers
  /\ (Viewers \cup {None}) \cap {"DISCONNECTED", "CLIP", "nothing"} = {}
  /\ {Limit, Backlog, MaxVersion} \subseteq Nat \ {0} /\ MaxEvents \in Nat

VARIABLES
  package,   \* the version of the package that is installed
  lastRun,   \* the preference "last_run"
  binary,    \* the version of files/androidvncserver; 0: none, or half of one
  app,       \* "down", "first" (isFirstRun was true), "copied", "up"
  killers,   \* shells that were told to kill the native server
  native,    \* the version that runs, or 0
  clients,   \* the viewers it has a record of
  sending,   \* the message of the socket that send_remote_msg has connected, or None
  leaked,    \* the sockets that send_remote_msg did not close
  inbox,     \* what was connected to the local socket: a message, or "nothing" yet
  notice,    \* whom the notification names
  mng,       \* "off", "accept", "serve", or "ended": run() returned, keepListening is TRUE
  queue,     \* the managers that are connected, the first may be served
  asked,     \* [manager -> its operation, None before it is sent, "gone" when it hung up]
  sessions,  \* the managers that opened and did not close
  events,    \* bounded: what came from outside
  lost,      \* history: messages that the native server could not hand over
  disturbed, \* history: a process ended with clients or messages
  cut,       \* history: a process ended in the middle of a message
  torn       \* history: the first run was cut short, or met a running server

installed == <<package, lastRun, binary, torn>>
server == <<native, clients, sending, leaked, lost>>
manager == <<mng, queue, asked, sessions>>
past == <<disturbed, cut>>
vars == <<installed, server, manager, app, killers, inbox, notice, events, past>>

Init ==
  /\ package = 1 /\ lastRun = 0 /\ binary = 0 /\ app = "down" /\ killers = 0
  /\ native = 0 /\ clients = {} /\ sending = None /\ leaked = 0
  /\ inbox = <<>> /\ notice = None
  /\ mng = "off" /\ queue = <<>> /\ asked = [m \in Managers |-> None] /\ sessions = {}
  /\ events = 0 /\ lost = 0 /\ disturbed = FALSE /\ cut = FALSE /\ torn = FALSE

-----------------------------------------------------------------------------
(* The native server.                                                      *)

\* Its process ends, and its sockets are closed.
Ends ==
  /\ native' = 0 /\ clients' = {} /\ sending' = None /\ leaked' = 0 /\ lost' = 0
  /\ disturbed' = (disturbed \/ clients # {} \/ sending # None)
  /\ cut' = (cut \/ sending # None)

\* (mutant: one too many)
Full_OffByOne(c) == leaked + Cardinality(c) > Limit

Full(c) == leaked + Cardinality(c) >= Limit

\* send_remote_msg: without a descriptor the server exits; without a listener the
\* socket stays open.
send_remote_msg(message, c) ==
  CASE Full(c) -> Ends /\ UNCHANGED inbox
    [] ~Full(c) /\ app # "up" ->
         /\ leaked' = leaked + 1 /\ lost' = lost + 1 /\ clients' = c
         /\ UNCHANGED <<native, sending, inbox, past>>
    [] OTHER ->
         /\ Len(inbox) < Backlog /\ inbox' = Append(inbox, "nothing")
         /\ sending' = message /\ clients' = c
         /\ UNCHANGED <<native, leaked, lost, past>>

Rest == UNCHANGED <<app, installed, killers, notice, manager>>

Outside == events < MaxEvents /\ events' = events + 1

\* rfbCheckFds accepts while it has a descriptor, and clientHook tells.
clientHook(v) ==
  /\ native # 0 /\ sending = None /\ v \notin clients /\ ~Full(clients) /\ Outside
  /\ send_remote_msg(v, clients \cup {v}) /\ Rest

\* rfbClientConnectionGone: the socket is closed before the hook tells.
clientGone(v) ==
  /\ native # 0 /\ sending = None /\ v \in clients
  /\ send_remote_msg("DISCONNECTED", clients \ {v}) /\ Rest /\ UNCHANGED events

CutText(v) ==
  /\ native # 0 /\ sending = None /\ v \in clients
  /\ send_remote_msg("CLIP", clients) /\ Rest /\ UNCHANGED events

\* (mutant: the socket is not closed after the message)
Close_Forgotten == leaked' = leaked + 1

Close == UNCHANGED leaked

\* (mutant: the header of the shortest message is dropped)
Written_NoHeader == IF sending = "DISCONNECTED" THEN "nothing" ELSE sending

Written == sending

\* The second half of send_remote_msg: send and close, or return when the app is gone.
Send ==
  /\ sending # None /\ sending' = None
  /\ IF inbox # <<>> /\ Last(inbox) = "nothing"
     THEN inbox' = Append(Front(inbox), Written) /\ Close /\ UNCHANGED lost
     ELSE leaked' = leaked + 1 /\ lost' = lost + 1 /\ UNCHANGED inbox
  /\ UNCHANGED <<native, clients, past>> /\ Rest /\ UNCHANGED events

\* startVncServer; in VncControl, with all that asks for it.
startVncServer ==
  /\ app = "up" /\ native = 0 /\ binary # 0 /\ native' = binary
  /\ UNCHANGED <<clients, sending, leaked, lost, inbox, past, events>> /\ Rest

\* stopVncServer: the notification goes, the shell will kill.
stopVncServer ==
  /\ app = "up" /\ native # 0 /\ killers = 0 /\ killers' = 1 /\ notice' = None
  /\ disturbed' = TRUE
  /\ UNCHANGED <<app, installed, server, manager, inbox, events, cut>>

Killall ==
  /\ killers > 0 /\ killers' = killers - 1 /\ Ends
  /\ UNCHANGED <<app, installed, inbox, notice, manager, events>>

NativeIsKilled ==
  /\ native # 0 /\ Outside /\ Ends
  /\ UNCHANGED <<app, installed, inbox, notice, manager, killers>>

-----------------------------------------------------------------------------
(* The process of the app.                                                 *)

\* Its sockets go with it; the notification stays, and so does the native server.
Falls ==
  /\ app' = "down" /\ inbox' = <<>>
  /\ mng' = "off" /\ queue' = <<>> /\ asked' = [m \in Managers |-> None]
  /\ disturbed' = (disturbed \/ native # 0 \/ sessions # {} \/ notice # None)
  /\ sessions' = {}
  /\ torn' = (torn \/ app = "first")

\* (mutant: any version that ran before will do)
First_Ever == lastRun = 0

First == lastRun < package

\* isFirstRun commits before anything is copied.
isFirstRun ==
  /\ app = "down" /\ app' = (IF First THEN "first" ELSE "up")
  /\ lastRun' = (IF First THEN package ELSE lastRun)
  /\ UNCHANGED <<package, binary, torn, server, manager, killers, inbox, notice, events, past>>

\* copyBinary: the file of a program that runs cannot be opened for writing, and the
\* exception is only logged.
Copied == binary' = (IF native = 0 THEN package ELSE binary)

copyBinary ==
  /\ app = "first" /\ app' = "copied" /\ Copied /\ torn' = (torn \/ native # 0)
  /\ UNCHANGED <<package, lastRun, server, manager, killers, inbox, notice, events, past>>

\* createBinary goes on to kill the old server.
createBinary ==
  /\ app = "copied" /\ app' = "up" /\ killers' = killers + 1
  /\ UNCHANGED <<installed, server, manager, inbox, notice, events, past>>

\* The system kills the process, as it may at any time; in the middle of copyBinary
\* half a file is left.
AppIsKilled ==
  /\ app # "down" /\ Outside /\ Falls
  /\ IF app = "first" THEN binary' \in {binary, 0} ELSE UNCHANGED binary
  /\ UNCHANGED <<package, lastRun, server, killers, notice, cut>>

\* A new version of the package: the process is killed, the root shell's child is not.
Upgrade ==
  /\ package < MaxVersion /\ package' = package + 1 /\ app # "first" /\ Falls
  /\ UNCHANGED <<lastRun, binary, server, killers, notice, events, cut>>

Shown(message) ==
  CASE message \in Viewers -> notice' = message
    [] message = "DISCONNECTED" -> notice' = None
    [] OTHER -> UNCHANGED notice

\* (mutant: the message that came last is read first)
Oldest_Newest == Len(inbox)

\* accept yields the connections in their order.
Oldest == 1

\* LocalSocketServer.run reads to the end of the stream, which comes when the other
\* side closes.  The substring of an empty message throws, and nobody catches it.
LocalSocketServer ==
  /\ app = "up" /\ inbox # <<>>
  /\ LET message == inbox[Oldest]
     IN /\ ~(sending # None /\ Oldest = Len(inbox))
        /\ IF message = "nothing"
           THEN Falls /\ UNCHANGED notice
           ELSE /\ Shown(message) /\ inbox' = RemoveAt(inbox, Oldest)
                /\ UNCHANGED <<app, mng, queue, asked, sessions, disturbed, torn>>
  /\ UNCHANGED <<package, lastRun, binary, server, killers, events, cut>>

-----------------------------------------------------------------------------
(* The management server's request loop.                                   *)

Alone == UNCHANGED <<app, installed, server, killers, inbox, past>>

\* ManagementServer.run binds its socket; who asks for it is MngControl.
Listens ==
  /\ app = "up" /\ mng = "off" /\ mng' = "accept"
  /\ Alone /\ UNCHANGED <<queue, asked, sessions, notice, events>>

Calls(m) ==
  /\ mng # "off" /\ m \notin ToSet(queue) /\ Outside
  /\ queue' = Append(queue, m)
  /\ Alone /\ UNCHANGED <<mng, asked, sessions, notice>>

\* The operations that change nothing but what is answered are one.
Operations == {"OPEN", "CLOSE", "BATTERY_LEVEL"}

Asks(m) ==
  /\ m \in ToSet(queue) /\ asked[m] = None
  /\ \E o \in Operations : asked' = [asked EXCEPT ![m] = o]
  /\ Alone /\ UNCHANGED <<mng, queue, sessions, notice, events>>

HangsUp(m) ==
  /\ m \in ToSet(queue) /\ asked[m] # "gone" /\ asked' = [asked EXCEPT ![m] = "gone"]
  /\ Alone /\ UNCHANGED <<mng, queue, sessions, notice, events>>

Accept ==
  /\ mng = "accept" /\ queue # <<>> /\ mng' = "serve"
  /\ Alone /\ UNCHANGED <<queue, asked, sessions, notice, events>>

Served == Head(queue)

Closed == queue' = Tail(queue) /\ asked' = [asked EXCEPT ![Served] = None]

\* showClientConnected and showClientDisconnected, under the APP_ID of all.
Answered(o) ==
  CASE o = "OPEN" -> notice' = Served
    [] o = "CLOSE" -> notice' = None
    [] OTHER -> UNCHANGED notice

\* readObject has the operation; it is answered, and the connection closed.
Serves ==
  /\ mng = "serve" /\ asked[Served] \in Operations
  /\ Answered(asked[Served])
  /\ sessions' = (CASE asked[Served] = "OPEN" -> sessions \cup {Served}
                    [] asked[Served] = "CLOSE" -> sessions \ {Served}
                    [] OTHER -> sessions)
  /\ mng' = "accept" /\ Closed
  /\ Alone /\ UNCHANGED events

\* (mutant: the other end's close is not noticed)
Noticed_Never == FALSE

Noticed == asked[Served] = "gone"

\* The client is gone: the exception is logged, and flush() or close() in the finally
\* block may throw another, which leaves the loop.
Breaks ==
  /\ mng = "serve" /\ Noticed
  /\ mng' \in {"accept", "ended"} /\ Closed
  /\ Alone /\ UNCHANGED <<sessions, notice, events>>

-----------------------------------------------------------------------------
Native == Send \/ Killall \/ \E v \in Viewers : clientGone(v)

Loop == Accept \/ Serves \/ Breaks

Next ==
  \/ Native \/ \E v \in Viewers : clientHook(v) \/ CutText(v)
  \/ startVncServer \/ stopVncServer \/ NativeIsKilled
  \/ isFirstRun \/ copyBinary \/ createBinary \/ AppIsKilled \/ Upgrade \/ LocalSocketServer
  \/ Listens \/ Loop \/ \E m \in Managers : Calls(m) \/ Asks(m) \/ HangsUp(m)

Spec == Init /\ [][Next]_vars

\* Threads and shells go on; managers that are not silent ask.  Nothing says that a
\* process is started again, or that viewers come and go.
FairSpec ==
  /\ Spec
  /\ WF_vars(Send) /\ WF_vars(Killall) /\ WF_vars(LocalSocketServer) /\ WF_vars(Loop)
  /\ \A m \in Managers \ Silent : WF_vars(Asks(m))
-----------------------------------------------------------------------------
TypeOK ==
  /\ package \in 1 .. MaxVersion /\ lastRun \in 0 .. package /\ binary \in 0 .. package
  /\ app \in {"down", "first", "copied", "up"} /\ killers \in Nat
  /\ native \in 0 .. package /\ clients \subseteq Viewers
  /\ sending \in Viewers \cup {"DISCONNECTED", "CLIP", None}
  /\ leaked \in 0 .. Limit /\ lost \in Nat
  /\ inbox \in Seq(Viewers \cup {"DISCONNECTED", "CLIP", "nothing"}) /\ Len(inbox) <= Backlog
  /\ notice \in Viewers \cup Managers \cup {None}
  /\ mng \in {"off", "accept", "serve", "ended"} /\ ToSet(queue) \subseteq Managers
  /\ asked \in [Managers -> Operations \cup {None, "gone"}] /\ sessions \subseteq Managers
  /\ events \in 0 .. MaxEvents
  /\ {disturbed, cut, torn} \subseteq BOOLEAN

\* As long as no process ended, whom the notification names, once all messages are
\* read, is connected: neither the order of the messages nor the other kind of client
\* leaves a notice of somebody who went.
NoticeIsTrue ==
  ~disturbed /\ inbox = <<>> /\ sending = None /\ notice # None =>
    notice \in clients \cup sessions

\* The native server loses a descriptor only with a message that nobody took: while
\* the app listens it does not run out of them, however long it serves.
LeaksAreLosses == leaked <= lost

\* An app that came up has installed the server of its version, unless its first run
\* was cut short or met a server that runs.
InstalledUnlessTorn == app = "up" /\ ~torn => binary = package

\* The same with no exception: what AppServer is there for.
InstalledIsCurrent == app = "up" => binary = package

\* The app falls by a message only after a server was killed in the middle of one.
FallsByAKill ==
  [][app = "up" /\ app' = "down" /\ package' = package /\ events' = events => cut]_vars

\* A manager that asks gets an answer, unless a silent one holds the loop, or the loop
\* was left by an exception of its finally block.
ManagersAreServed ==
  \A m \in Managers \ Silent :
    m \in ToSet(queue) ~> m \notin ToSet(queue) \/ mng = "ended" \/ Served \in Silent
=============================================================================
