----------------------------- MODULE MngControl -----------------------------
(***************************************************************************)
(* The management half of ServersControllerService.  Here the server is a  *)
(* Java object, ManagementServer, that is a thread of the same process:    *)
(* the looper thread and the watchdog's Timer thread create it, start it,  *)
(* ask whether it listens, stop it and drop it through the field           *)
(* mngServer, which no lock protects.  An exception that nobody catches    *)
(* ends the whole process, and START_STICKY brings back an empty service.  *)
(*                                                                         *)
(* The requests of the user and the reply protocol are those of            *)
(* VncControl; the messages themselves are left out here, but not what     *)
(* composing one does to the field.                                        *)
(***************************************************************************)
EXTENDS Naturals, Sequences, FiniteSets

CONSTANTS
  Server,       \* identities of ManagementServer objects
  Null,         \* the null of Java
  Port,         \* TCP ports a user may ask for
  DefaultPort,  \* ManagementServer.DEFAULT_PORT
  NoPort,       \* the -1 that stopMng() stores in the watchdog
  Requests,     \* what users, and clients that CONNECT, do
  Faults,       \* the kinds of fault that happen
  MaxRequests,  \* bound: requests
  MaxFaults     \* bound: faults

ASSUME MngAssumption ==
  /\ Null \notin Server
  /\ DefaultPort \in Port /\ NoPort \notin Port /\ {"none", "closed"} \cap Port = {}
  /\ Requests \subseteq {"START", "STOP", "INIT", "HALT", "GET", "FINISH", "CONNECT"}
  /\ Faults \subseteq {"busy", "reply", "java"}
  /\ MaxRequests \in Nat /\ MaxFaults \in Nat

Thread == {"main", "timer"}
AnyPort == Port \cup {NoPort}

VARIABLES
  field,    \* mngServer
  life,     \* Server -> where its thread is in Thread.start() and run()
  keep,     \* Server -> keepListening
  socket,   \* Server -> the port of its listeningSocket, "none" or "closed"
  port,     \* Server -> listeningPort
  wish,     \* ServersWatchDog.shouldMngBeStarted
  wdPort,   \* ServersWatchDog.mngPort
  ticking,  \* the service exists, and its timer runs the watchdog
  held,     \* the Boolean objects whose monitor "main" owns
  cached,   \* cachedMngRunning
  queue,    \* the requests queued for the main thread
  job,      \* the request "main" is working on, or "none"
  pc,       \* Thread -> the next step of the thread
  by,       \* Thread -> the caller of isMngRunning or getMngServer
  arg,      \* Thread -> the port passed to tryStartMng
  ref,      \* Thread -> the server it got from the field
  cur,      \* Thread -> sendMngReply's currentMngRunning
  wanted,   \* history: what the last handled request asked for
  lost,     \* history: the process ended after the last request
  requests, \* requests made so far
  faults    \* faults so far

servers == <<life, keep, socket, port>>
dog     == <<wish, wdPort, ticking, held>>
locals  == <<job, pc, by, arg, ref, cur>>
history == <<wanted, lost>>
bounds  == <<requests, faults>>
vars    == <<field, servers, dog, cached, queue, locals, history, bounds>>

Init ==
  /\ field = Null
  /\ life = [s \in Server |-> "new"] /\ keep = [s \in Server |-> FALSE]
  /\ socket = [s \in Server |-> "none"] /\ port = [s \in Server |-> DefaultPort]
  /\ wish = FALSE /\ wdPort = DefaultPort /\ ticking = TRUE /\ held = {}
  /\ cached = FALSE /\ queue = <<>> /\ job = "none"
  /\ pc = [t \in Thread |-> "idle"] /\ by = [t \in Thread |-> "none"]
  /\ arg = [t \in Thread |-> DefaultPort]
  /\ ref = [t \in Thread |-> Null] /\ cur = [t \in Thread |-> FALSE]
  /\ wanted = FALSE /\ lost = FALSE
  /\ requests = 0 /\ faults = 0

Fault(kind) == kind \in Faults /\ faults < MaxFaults /\ faults' = faults + 1

Finishing == job = "FINISH" \/ \E i \in DOMAIN queue : queue[i].what = "FINISH"

\* A new Java process: the values of Init, but a service that was stopped is
\* not brought back.
Restart ==
  /\ field' = Null
  /\ life' = [s \in Server |-> "new"] /\ keep' = [s \in Server |-> FALSE]
  /\ socket' = [s \in Server |-> "none"] /\ port' = [s \in Server |-> DefaultPort]
  /\ wish' = FALSE /\ wdPort' = DefaultPort /\ held' = {}
  /\ cached' = FALSE /\ queue' = <<>> /\ job' = "none"
  /\ pc' = [t \in Thread |-> "idle"] /\ by' = [t \in Thread |-> "none"]
  /\ arg' = [t \in Thread |-> DefaultPort]
  /\ ref' = [t \in Thread |-> Null] /\ cur' = [t \in Thread |-> FALSE]
  /\ lost' = (lost \/ job # "FINISH")
  /\ ticking' = (ticking /\ ~Finishing)
  /\ UNCHANGED <<wanted, requests>>

\* NullPointerException, IllegalThreadStateException, IllegalArgumentException
Crash == Restart /\ UNCHANGED faults

JavaKilled == Fault("java") /\ Restart

-----------------------------------------------------------------------------
(* ManagementServer.run(), one thread per started server.                  *)

Open(s)  == socket[s] \in Port
Bound(p) == \E s \in Server : socket[s] = p

\* new ServerSocket(listeningPort): a port out of range is no IOException.
Bind(s) ==
  /\ life[s] = "started" /\ port[s] \in Port
  /\ \/ /\ ~Bound(port[s]) /\ UNCHANGED faults
        /\ socket' = [socket EXCEPT ![s] = port[s]]
        /\ life' = [life EXCEPT ![s] = "bound"]
     \/ /\ \/ Bound(port[s]) /\ UNCHANGED faults
           \/ Fault("busy")
        /\ life' = [life EXCEPT ![s] = "dead"]
        /\ UNCHANGED socket
  /\ UNCHANGED <<field, keep, port, dog, cached, queue, locals, history, requests>>

BindThrows(s) == life[s] = "started" /\ port[s] \notin Port /\ Crash

\* keepListening = true, whatever stopListening() did in the meantime
Listen(s) ==
  /\ life[s] = "bound"
  /\ keep' = [keep EXCEPT ![s] = TRUE]
  /\ life' = [life EXCEPT ![s] = "loop"]
  /\ UNCHANGED <<field, socket, port, dog, cached, queue, locals, history, bounds>>

Loop(s) ==
  /\ life[s] = "loop"
  /\ life' = [life EXCEPT ![s] = IF keep[s] THEN "accept" ELSE "dead"]
  /\ UNCHANGED <<field, keep, socket, port, dog, cached, queue, locals, history, bounds>>

\* The socket was closed under accept(): "Normal closing of management server"
AcceptFails(s) ==
  /\ life[s] = "accept" /\ socket[s] = "closed"
  /\ life' = [life EXCEPT ![s] = "loop"]
  /\ UNCHANGED <<field, keep, socket, port, dog, cached, queue, locals, history, bounds>>

\* A client connects; it is served for as long as it likes.
Accept(s) ==
  /\ life[s] = "accept" /\ Open(s) /\ "CONNECT" \in Requests
  /\ life' = [life EXCEPT ![s] = "serving"]
  /\ UNCHANGED <<field, keep, socket, port, dog, cached, queue, locals, history, bounds>>

Served(s) ==
  /\ life[s] = "serving"
  /\ life' = [life EXCEPT ![s] = "loop"]
  /\ UNCHANGED <<field, keep, socket, port, dog, cached, queue, locals, history, bounds>>

\* The client is gone: flush() in the finally block throws an IOException,
\* which leaves the loop, but neither keepListening nor the socket.
ServedDies(s) ==
  /\ life[s] = "serving" /\ Fault("reply")
  /\ life' = [life EXCEPT ![s] = "dead"]
  /\ UNCHANGED <<field, keep, socket, port, dog, cached, queue, locals, history, requests>>

-----------------------------------------------------------------------------
(* Requests, and what the main thread does before it looks at the server.  *)

Go(t, step) == pc' = [pc EXCEPT ![t] = step]

\* Go on in a method that several callers share.
Call(t, step, caller) == Go(t, step) /\ by' = [by EXCEPT ![t] = caller]

\* "FINISH" is onDestroy, behind what was posted before it: "Stop all" stopped
\* the service.  What comes later waits for the end of the process, and
\* starts the service again.
Request(what, p) ==
  /\ what \in Requests /\ requests < MaxRequests
  /\ ~Finishing
  /\ queue' = Append(queue, [what |-> what, port |-> p])
  /\ ticking' = (ticking \/ what # "FINISH")
  /\ requests' = requests + 1
  /\ UNCHANGED <<field, servers, wish, wdPort, held, cached, locals, history, faults>>

ServiceTakes ==
  /\ pc["main"] = "idle" /\ queue # <<>>
  /\ LET msg == Head(queue) IN
       /\ job' = msg.what
       /\ arg' = [arg EXCEPT !["main"] = msg.port]
       /\ cached' = CASE msg.what = "STOP" -> TRUE
                      [] msg.what \in {"START", "GET"} -> FALSE
                      [] OTHER -> cached
       /\ CASE msg.what = "GET"  -> Call("main", "look", "reply")
            [] msg.what = "INIT" -> Call("main", "look", "start")
            [] msg.what = "FINISH" -> Call("main", "stop.if", "stop")
            [] OTHER             -> Call("main", "set.wish", "none")
       /\ wanted' = CASE msg.what \in {"START", "INIT"} -> TRUE
                      [] msg.what \in {"STOP", "HALT", "FINISH"} -> FALSE
                      [] OTHER -> wanted
       /\ lost' = (lost /\ msg.what = "GET")
       /\ ticking' = (ticking /\ msg.what # "FINISH")
  /\ queue' = Tail(queue)
  /\ UNCHANGED <<field, servers, wish, wdPort, held, ref, cur, bounds>>

\* (mutant: stopping does not withdraw the wish)
SetWish_StopKeepsTheWish ==
  /\ pc["main"] = "set.wish"
  /\ held' = {wish}
  /\ wish' = (wish \/ job \in {"START", "INIT"})
  /\ Go("main", "set.port")
  /\ UNCHANGED <<field, servers, wdPort, ticking, cached, queue, job, by, arg, ref, cur, history, bounds>>

\* ServersWatchDog.setToRestartMng, under the monitor of the old Boolean.
SetWish ==
  /\ pc["main"] = "set.wish"
  /\ held' = {wish}
  /\ wish' = (job \in {"START", "INIT"})
  /\ Go("main", "set.port")
  /\ UNCHANGED <<field, servers, wdPort, ticking, cached, queue, job, by, arg, ref, cur, history, bounds>>

SetPort_KeepsTheMonitor ==
  /\ pc["main"] = "set.port"
  /\ wdPort' = IF job = "HALT" THEN NoPort ELSE arg["main"]
  /\ held' = held
  /\ CASE job = "START" -> Call("main", "look", "start")
       [] job = "INIT"  -> Call("main", "idle", "none")
       [] OTHER         -> Call("main", "look", "stop")
  /\ job' = IF job = "INIT" THEN "none" ELSE job
  /\ UNCHANGED <<field, servers, wish, ticking, cached, queue, arg, ref, cur, history, bounds>>

SetPort ==
  /\ pc["main"] = "set.port"
  /\ wdPort' = IF job = "HALT" THEN NoPort ELSE arg["main"]
  /\ held' = {}
  /\ CASE job = "START" -> Call("main", "look", "start")
       [] job = "INIT"  -> Call("main", "idle", "none")
       [] OTHER         -> Call("main", "look", "stop")
  /\ job' = IF job = "INIT" THEN "none" ELSE job
  /\ UNCHANGED <<field, servers, wish, ticking, cached, queue, arg, ref, cur, history, bounds>>

\* (mutant: the watchdog believes what was last sent instead of its wish)
Tick_TrustsTheCache ==
  /\ pc["timer"] = "idle" /\ ticking /\ wish \notin held
  /\ IF cached THEN Call("timer", "tick.port", "none") ELSE Call("timer", "look", "stop")
  /\ UNCHANGED <<field, servers, dog, cached, queue, job, arg, ref, cur, history, bounds>>

\* ServersWatchDog.normalizeServersStates, its management half.
Tick ==
  /\ pc["timer"] = "idle" /\ ticking /\ wish \notin held
  /\ IF wish THEN Call("timer", "tick.port", "none") ELSE Call("timer", "look", "stop")
  /\ UNCHANGED <<field, servers, dog, cached, queue, job, arg, ref, cur, history, bounds>>

TickPort ==
  /\ pc["timer"] = "tick.port"
  /\ arg' = [arg EXCEPT !["timer"] = wdPort]
  /\ Call("timer", "look", "start")
  /\ UNCHANGED <<field, servers, dog, cached, queue, job, ref, cur, history, bounds>>

-----------------------------------------------------------------------------
(* isMngRunning() reads the field twice, mngServer != null && mngServer.keep *)
(* Listening: "look" and "look.keep".  Its callers go on differently.      *)

\* (mutant: tryStartMng does not ask whether the server is running)
Answer_StartsTwice(t, running) ==
  /\ CASE by[t] = "start" -> Call(t, "get", "start")
       [] by[t] = "stop"  -> IF running THEN Call(t, "stop.if", "stop") ELSE Call(t, "look", "reply")
       [] by[t] = "poll"  -> Call(t, "look", "reply")
       [] by[t] = "reply" -> Call(t, "reply.send", "reply")
  /\ cur' = IF by[t] = "reply" THEN [cur EXCEPT ![t] = running] ELSE cur

Answer(t, running) ==
  /\ CASE by[t] = "start" -> IF running THEN Call(t, "look", "reply") ELSE Call(t, "get", "start")
       [] by[t] = "stop"  -> IF running THEN Call(t, "stop.if", "stop") ELSE Call(t, "look", "reply")
       [] by[t] = "poll"  -> Call(t, "look", "reply")
       [] by[t] = "reply" -> Call(t, "reply.send", "reply")
  /\ cur' = IF by[t] = "reply" THEN [cur EXCEPT ![t] = running] ELSE cur

Look(t) ==
  /\ pc[t] = "look"
  /\ IF field = Null THEN Answer(t, FALSE) ELSE Go(t, "look.keep") /\ UNCHANGED <<by, cur>>
  /\ UNCHANGED <<field, servers, dog, cached, queue, job, arg, ref, history, bounds>>

LookKeep(t) ==
  /\ pc[t] = "look.keep" /\ field # Null
  /\ Answer(t, keep[field])
  /\ UNCHANGED <<field, servers, dog, cached, queue, job, arg, ref, history, bounds>>

LookThrows(t) == pc[t] = "look.keep" /\ field = Null /\ Crash

-----------------------------------------------------------------------------
(* getMngServer(), for startMngServer and for getMngPort: create the object *)
(* if there is none, then read the field again.                            *)

\* Identities that no variable and no running thread stands for (an open socket
\* that only garbage refers to is closed at the latest when they are used again).
Unused == {s \in Server : /\ s # field /\ \A t \in Thread : ref[t] # s
                          /\ life[s] \in {"new", "dead"}}

Get(t) ==
  /\ pc[t] = "get"
  /\ Go(t, IF field = Null THEN "get.new" ELSE "get.ref")
  /\ UNCHANGED <<field, servers, dog, cached, queue, job, by, arg, ref, cur, history, bounds>>

GetNew(t) ==
  /\ pc[t] = "get.new" /\ Unused # {}
  /\ LET s == CHOOSE u \in Unused : TRUE IN
       /\ field' = s
       /\ life' = [life EXCEPT ![s] = "new"] /\ keep' = [keep EXCEPT ![s] = FALSE]
       /\ socket' = [socket EXCEPT ![s] = "none"]
       /\ port' = [port EXCEPT ![s] = DefaultPort]
  /\ Go(t, "get.ref")
  /\ UNCHANGED <<dog, cached, queue, job, by, arg, ref, cur, history, bounds>>

\* The caller uses what it got: setListeningPort, or getListeningPort.
GetRef(t) ==
  /\ pc[t] = "get.ref" /\ field # Null
  /\ IF by[t] = "start"
     THEN /\ ref' = [ref EXCEPT ![t] = field]
          /\ port' = [port EXCEPT ![field] = arg[t]]
          /\ Go(t, "start")
     ELSE /\ Go(t, "reply.cache")
          /\ UNCHANGED <<ref, port>>
  /\ UNCHANGED <<field, life, keep, socket, dog, cached, queue, job, by, arg, cur, history, bounds>>

GetThrows(t) == pc[t] = "get.ref" /\ field = Null /\ Crash

-----------------------------------------------------------------------------
(* startMngServer and stopMngServer.                                       *)

\* server.start(), and up to eleven looks at it 20 ms apart: the last counts.
Start(t) ==
  /\ pc[t] = "start" /\ life[ref[t]] = "new"
  /\ life' = [life EXCEPT ![ref[t]] = "started"]
  /\ ref' = [ref EXCEPT ![t] = Null]
  /\ Call(t, "look", "poll")
  /\ UNCHANGED <<field, keep, socket, port, dog, cached, queue, job, arg, cur, history, bounds>>

\* A Thread can be started once.
StartThrows(t) == pc[t] = "start" /\ life[ref[t]] # "new" /\ Crash

\* The caller is tryStopMng, or else onDestroy, which ends the process.
Stopped(t) == IF t = "main" /\ job = "FINISH" THEN Call(t, "exit", "stop") ELSE Call(t, "look", "reply")

StopIf(t) ==
  /\ pc[t] = "stop.if"
  /\ IF field = Null THEN Stopped(t) ELSE Call(t, "stop.keep", "stop")
  /\ UNCHANGED <<field, servers, dog, cached, queue, job, arg, ref, cur, history, bounds>>

\* stopListening(): keepListening = false,
StopKeep(t) ==
  /\ pc[t] = "stop.keep" /\ field # Null
  /\ ref' = [ref EXCEPT ![t] = field]
  /\ keep' = [keep EXCEPT ![field] = FALSE]
  /\ Go(t, "stop.close")
  /\ UNCHANGED <<field, life, socket, port, dog, cached, queue, job, by, arg, cur, history, bounds>>

StopThrows(t) == pc[t] = "stop.keep" /\ field = Null /\ Crash

\* then the socket is closed, if there is one already,
StopClose(t) ==
  /\ pc[t] = "stop.close"
  /\ socket' = IF socket[ref[t]] = "none" THEN socket ELSE [socket EXCEPT ![ref[t]] = "closed"]
  /\ ref' = [ref EXCEPT ![t] = Null]
  /\ Go(t, "stop.clear")
  /\ UNCHANGED <<field, life, keep, port, dog, cached, queue, job, by, arg, cur, history, bounds>>

\* and the field forgets the server.
StopClear(t) ==
  /\ pc[t] = "stop.clear"
  /\ field' = Null
  /\ Stopped(t)
  /\ UNCHANGED <<servers, dog, cached, queue, job, arg, ref, cur, history, bounds>>

\* The last statement of onDestroy: the servers and the tick end with the process.
SystemExit == pc["main"] = "exit" /\ Crash

-----------------------------------------------------------------------------
(* sendMngReply: composing a reply calls getMngPort, which creates a server *)
(* object when the field is null.                                          *)

ReplySend(t) ==
  /\ pc[t] = "reply.send"
  /\ IF cached # cur[t] THEN Call(t, "get", "port") ELSE Call(t, "reply.cache", "port")
  /\ UNCHANGED <<field, servers, dog, cached, queue, job, arg, ref, cur, history, bounds>>

ReplyCache(t) ==
  /\ pc[t] = "reply.cache"
  /\ cached' = cur[t]
  /\ Call(t, IF t = "main" /\ job = "INIT" THEN "set.wish" ELSE "idle", "none")
  /\ job' = IF t = "main" /\ job # "INIT" THEN "none" ELSE job
  /\ arg' = [arg EXCEPT ![t] = IF t = "main" /\ job = "INIT" THEN @ ELSE DefaultPort]
  /\ cur' = [cur EXCEPT ![t] = FALSE]
  /\ UNCHANGED <<field, servers, dog, queue, ref, history, bounds>>

-----------------------------------------------------------------------------
ThreadStep(t) ==
  \/ Look(t) \/ LookKeep(t) \/ LookThrows(t)
  \/ Get(t) \/ GetNew(t) \/ GetRef(t) \/ GetThrows(t)
  \/ Start(t) \/ StartThrows(t)
  \/ StopIf(t) \/ StopKeep(t) \/ StopThrows(t) \/ StopClose(t) \/ StopClear(t)
  \/ ReplySend(t) \/ ReplyCache(t)

MainStep == ServiceTakes \/ SetWish \/ SetPort \/ SystemExit \/ ThreadStep("main")

TimerStep == Tick \/ TickPort \/ ThreadStep("timer")

\* What a server's thread does unless a client keeps it.
Runs(s) == Bind(s) \/ BindThrows(s) \/ Listen(s) \/ Loop(s) \/ AcceptFails(s)

ServerStep(s) == Runs(s) \/ Accept(s) \/ Served(s) \/ ServedDies(s)

Environment ==
  \/ \E what \in {"START", "INIT"}, p \in Port : Request(what, p)
  \/ \E what \in {"STOP", "HALT", "GET", "FINISH"} : Request(what, DefaultPort)
  \/ JavaKilled

Next == MainStep \/ TimerStep \/ (\E s \in Server : ServerStep(s)) \/ Environment

Spec == Init /\ [][Next]_vars

(* The three kinds of thread are scheduled; clients may stay for ever.      *)
FairSpec ==
  /\ Spec
  /\ WF_vars(MainStep)
  /\ WF_vars(TimerStep)
  /\ \A s \in Server : WF_vars(Runs(s))

-----------------------------------------------------------------------------
Life == {"new", "started", "bound", "loop", "accept", "serving", "dead"}
Step == {"idle", "set.wish", "set.port", "tick.port", "look", "look.keep",
         "get", "get.new", "get.ref", "start", "stop.if", "stop.keep", "stop.close",
         "stop.clear", "reply.send", "reply.cache", "exit"}
RequestMsg == [what : {"START", "STOP", "INIT", "HALT", "GET", "FINISH"}, port : Port]

ObjectsOK == /\ field \in Server \cup {Null}
             /\ life \in [Server -> Life] /\ keep \in [Server -> BOOLEAN]
             /\ socket \in [Server -> Port \cup {"none", "closed"}]
             /\ port \in [Server -> AnyPort]
DogOK     == wish \in BOOLEAN /\ wdPort \in AnyPort /\ ticking \in BOOLEAN /\ held \subseteq BOOLEAN
LooperOK  == cached \in BOOLEAN /\ queue \in Seq(RequestMsg)
LocalsOK  == /\ job \in {"none", "START", "STOP", "INIT", "HALT", "GET", "FINISH"}
             /\ pc \in [Thread -> Step]
             /\ by \in [Thread -> {"none", "start", "stop", "poll", "reply", "port"}]
             /\ arg \in [Thread -> AnyPort]
             /\ ref \in [Thread -> Server \cup {Null}]
             /\ cur \in [Thread -> BOOLEAN]
CountsOK  == wanted \in BOOLEAN /\ lost \in BOOLEAN /\ requests \in Nat /\ faults \in Nat

\* Who called the method that a thread is in.
CallersOK == \A t \in Thread :
  CASE pc[t] \in {"idle", "set.wish", "set.port", "tick.port"} -> by[t] = "none"
    [] pc[t] \in {"look", "look.keep"}       -> by[t] \in {"start", "stop", "poll", "reply"}
    [] pc[t] \in {"get", "get.new", "get.ref"} -> by[t] \in {"start", "port"}
    [] pc[t] = "start"                        -> by[t] = "start"
    [] pc[t] = "reply.send"                   -> by[t] = "reply"
    [] pc[t] = "reply.cache"                  -> by[t] = "port"
    [] OTHER                                  -> by[t] = "stop"

\* A thread has a server in its hands in startMngServer and stopListening only.
HandsOK == \A t \in Thread : ref[t] # Null <=> pc[t] \in {"start", "stop.close"}

\* Between two requests the main thread owns no monitor.
NothingLeftBehind ==
  /\ held = {} <=> pc["main"] # "set.port"
  /\ job = "none" <=> pc["main"] = "idle"
  /\ pc["timer"] \notin {"set.wish", "set.port"} /\ pc["main"] # "tick.port"

(* The variables have their types, a thread is where its caller sent it and *)
(* holds a server only while it starts or closes one, and the main thread   *)
(* leaves neither a monitor of the watchdog (synchronized in setToRestartMng) *)
(* nor a request behind.                                                    *)
TypeOK == /\ ObjectsOK /\ DogOK /\ LooperOK /\ LocalsOK /\ CountsOK
          /\ CallersOK /\ HandsOK /\ NothingLeftBehind

-----------------------------------------------------------------------------
(* Properties.                                                             *)

Queued(kinds) == \E i \in DOMAIN queue : queue[i].what \in kinds

\* t is between its decision to start the server and server.start().
Starting(t) == \/ pc[t] \in {"tick.port", "start"}
               \/ by[t] = "start" /\ pc[t] # "reply.cache"
\* t is between its decision to stop the server and the end of stopMngServer.
Stopping(t) == by[t] = "stop"
\* t found no server, or one that was not listening, and acts on that.
Creating(t) == \/ pc[t] \in {"get.new", "start"}
               \/ pc[t] \in {"get", "get.ref"} /\ by[t] = "start"

\* Nobody wants the server and nothing that would start it is under way.
SettledOff ==
  /\ ~wish /\ job \notin {"START", "INIT"} /\ ~Queued({"START", "INIT"})
  /\ \A t \in Thread : ~Starting(t)

Alive == {s \in Server : life[s] \notin {"new", "dead"}}

(* Once the switch is off and drained, it stays so until somebody asks      *)
(* again: the ticks, polling the state, the replies (which create a         *)
(* ManagementServer to ask for its port, in sendMngReply) and a restart of  *)
(* the process never start a server thread.                                 *)
NothingStartsUnasked ==
  [][SettledOff /\ requests' = requests => SettledOff' /\ Alive' \subseteq Alive]_vars

\* mngServer listens, is wanted, nobody acts on an older state of it, and no
\* other server is on its way (with the port -1 its run() would throw).
SettledOn ==
  /\ wish /\ job \notin {"STOP", "HALT", "FINISH"} /\ ~Queued({"STOP", "HALT", "FINISH"})
  /\ field # Null /\ keep[field] /\ life[field] \in {"loop", "accept", "serving"}
  /\ Open(field)
  /\ \A t \in Thread : ~Stopping(t) /\ ~Creating(t)
  /\ \A s \in Server : life[s] # "started"

(* While the server listens, is wanted and no thread is acting on a check   *)
(* made earlier, the ticks and the requests to start it again leave it      *)
(* alone: the field keeps it, its socket stays open, no thread throws.      *)
(* (tryStartMng's check is what protects it.)                               *)
HealthyServerIsLeftAlone ==
  [][SettledOn /\ requests' = requests /\ faults' = faults
       => SettledOn' /\ field' = field]_vars

isMngRunning == field # Null /\ keep[field]

(* Whatever the looper and the watchdog do to each other's server, what the *)
(* service calls running ends up as the last request asked, unless an       *)
(* exception ended the process after that request (initMng, stopMng, the    *)
(* buttons, and normalizeServersStates behind them all).                    *)
Converges == <>[]((isMngRunning <=> wanted) \/ lost)

\* Some server answers at its port.
Serves == \E s \in Server : life[s] \in {"loop", "accept", "serving"} /\ Open(s)

(* ServersControllerService promises that "in case servers are down just    *)
(* starts them": a wanted server ends up serving.  (A second start() of one *)
(* Thread, on an object whose first start failed or is still under way,     *)
(* ends the process and with it the wish.)                                  *)
WantedServerServes == <>[](wanted => Serves)

(* The same promise for a server that died in its loop: what counts as      *)
(* running, and is therefore never started again, ends up serving.  (It   *)
(* does not, when flush() throws in its loop; see README, "Further traces".) *)
RunningServerServes == <>[](isMngRunning => Serves)

(* ServersControllerService's Stop "Will stop this server, if running": in  *)
(* the end nothing listens.                                                 *)
StopStops == <>[](wanted \/ lost \/ \A s \in Server : ~Open(s))
=============================================================================
