----------------------------- MODULE VncControl -----------------------------
(***************************************************************************)
(* The VNC half of ServersControllerService: two Java threads decide,      *)
(* without a common lock, whether the native androidvncserver process has  *)
(* to run.                                                                 *)
(*                                                                         *)
(*   "main"   the looper thread.  It runs the service's message handler    *)
(*            and onStartCommand, and the activity's handler and buttons.  *)
(*   "timer"  the java.util.Timer thread that runs ServersWatchDog.        *)
(*                                                                         *)
(* Both run tryStartVnc / tryStopVnc: look for the process with ps, hand a *)
(* command to a fresh su shell, poll, and report to the activity.  The     *)
(* shells act on their own time.  Steps are split where the code reads or  *)
(* writes state that the other thread shares.                              *)
(***************************************************************************)
EXTENDS Naturals, Sequences, FiniteSets

CONSTANTS
  Pid,          \* identities of androidvncserver processes
  Shell,        \* identities of su shells that still have to act
  Port,         \* TCP ports a user may ask for
  Scale,        \* scale factors a user may ask for
  DefaultPort,  \* VncServerWrapper.DEFAULT_PORT
  DefaultScale, \* VncServerWrapper.DEFAULT_SCALE_FACTOR
  NoPort,       \* the -1 that stopVnc() stores in the watchdog
  Requests,     \* the kinds of request the environment makes
  Faults,       \* the kinds of fault that happen
  MaxRequests,  \* bound: button presses, intents and bindings
  MaxFaults     \* bound: faults

ASSUME VncAssumption ==
  /\ Pid # {} /\ Shell # {}
  /\ DefaultPort \in Port /\ DefaultScale \in Scale
  /\ NoPort \notin Port
  /\ Requests \subseteq {"START", "STOP", "INIT", "HALT", "FINISH"}
  /\ Faults \subseteq {"exit", "deaf", "busy", "java", "exec"}
  /\ MaxRequests \in Nat /\ MaxFaults \in Nat

Thread == {"main", "timer"}

(* What follows "-P" and "-s" on the command line.  The rotation is stored, *)
(* passed and torn exactly like the scale, which stands for both.           *)
AnyPort == Port \cup {NoPort}

VARIABLES
  proc,     \* Pid -> 0 or the process: its port, scale, and if it listens
  shell,    \* Shell -> 0 or the command the shell will run
  wish,     \* ServersWatchDog.shouldVncBeStarter
  wdPort,   \* ServersWatchDog.vncPort
  wdScale,  \* ServersWatchDog.scaleFactor
  ticking,  \* the service exists, and its timer runs the watchdog
  held,     \* the Boolean objects whose monitor "main" owns
  wrapPort, \* VncServerWrapper.listeningPort
  wrapScale,\* VncServerWrapper.scaleFactor
  cached,   \* cachedVncRunning
  client,   \* mClient # null
  activity, \* an activity is alive and bound
  view,     \* the activity's vncRunning, hence which button is enabled
  viewPort, \* the activity's vncPort
  looper,   \* the messages queued for the main thread
  job,      \* the request "main" is working on, or "none"
  pc,       \* Thread -> the next step of the thread
  arg,      \* Thread -> the port and scale passed to tryStartVnc
  cur,      \* Thread -> sendVncReply's currentVncRunning
  wanted,   \* history: what the last handled request asked for
  requests, \* requests made so far
  faults    \* faults so far

native  == <<proc, shell>>
dog     == <<wish, wdPort, wdScale, ticking, held>>
wrapper == <<wrapPort, wrapScale>>
ui      == <<activity, view, viewPort>>
locals  == <<job, pc, arg, cur>>
bounds  == <<requests, faults>>
vars    == <<native, dog, wrapper, cached, client, ui, looper, locals,
             wanted, bounds>>

(***************************************************************************)
(* The native side, outside the Java process.                              *)
(***************************************************************************)
Gone == [up |-> FALSE, port |-> NoPort, scale |-> DefaultScale, deaf |-> TRUE]
Process == [up : BOOLEAN, port : AnyPort, scale : Scale, deaf : BOOLEAN]

Idle == [does |-> "nothing", port |-> NoPort, scale |-> DefaultScale]
Command == [does : {"nothing", "launch", "kill"}, port : AnyPort, scale : Scale]

Up == {p \in Pid : proc[p].up}

\* VncServerWrapper.isRunning(): some line of ps names androidvncserver.
isRunning == Up # {}

Fault(kind) == kind \in Faults /\ faults < MaxFaults /\ faults' = faults + 1

(* The kinds of fault: the process exits or loses its sockets, another      *)
(* program has the port, the Java process is killed, and "exec", which is   *)
(* Runtime.exec throwing or killall missing from the path.                  *)
\* What a caller of isRunning() gets: when ps cannot be run it is "no".
Sees(answer) == \/ answer = isRunning /\ UNCHANGED faults
                \/ ~answer /\ Fault("exec")

Listening(p) == proc[p].up /\ ~proc[p].deaf

\* rfbInitSockets: a port that is not positive, or taken, leaves no listener
CanListen(port) ==
  /\ port # NoPort
  /\ \A p \in Pid : ~(Listening(p) /\ proc[p].port = port)

RequestMsg == [to : {"service"}, what : {"START", "INIT"}, port : Port, scale : Scale]
              \cup [to : {"service"}, what : {"STOP", "HALT", "GET"},
                    port : {DefaultPort}, scale : {DefaultScale}]
ReplyMsg == [to : {"activity"}, what : {"VNC_STARTED", "VNC_STOPPED"},
             port : AnyPort, scale : {DefaultScale}]

Post(to, what, port, scale) ==
  looper' = Append(looper, [to |-> to, what |-> what, port |-> port, scale |-> scale])

-----------------------------------------------------------------------------
(* A new Java process: a service nobody has spoken to and a fresh watchdog. *)
JavaInit ==
  /\ wish = FALSE /\ wdPort = DefaultPort /\ wdScale = DefaultScale
  /\ held = {}
  /\ wrapPort = DefaultPort /\ wrapScale = DefaultScale
  /\ cached = FALSE /\ client = FALSE
  /\ activity = FALSE /\ view = FALSE /\ viewPort = DefaultPort
  /\ looper = <<>>
  /\ job = "none"
  /\ pc = [t \in Thread |-> "idle"]
  /\ arg = [t \in Thread |-> [port |-> DefaultPort, scale |-> DefaultScale]]
  /\ cur = [t \in Thread |-> FALSE]

Init ==
  /\ JavaInit
  /\ ticking = TRUE
  /\ proc = [p \in Pid |-> Gone]
  /\ shell = [s \in Shell |-> Idle]
  /\ wanted = FALSE
  /\ requests = 0 /\ faults = 0

-----------------------------------------------------------------------------
(* The native process and the shells.                                      *)

\* A su shell reaches "androidvncserver -r .. -s .. -P .." and runs it.
\* A process that cannot listen stays; the port may be another program's.
ShellLaunch(s, p) ==
  /\ shell[s].does = "launch" /\ ~proc[p].up
  /\ \E deaf \in BOOLEAN :
       /\ \/ deaf = ~CanListen(shell[s].port) /\ UNCHANGED faults
          \/ deaf /\ Fault("busy")
       /\ proc' = [proc EXCEPT ![p] = [up |-> TRUE, port |-> shell[s].port,
                                       scale |-> shell[s].scale, deaf |-> deaf]]
  /\ shell' = [shell EXCEPT ![s] = Idle]
  /\ UNCHANGED <<dog, wrapper, cached, client, ui, looper, locals, wanted, requests>>

\* No process can be made (here: every Pid is in use), the command is lost.
ShellLaunchFails(s) ==
  /\ shell[s].does = "launch" /\ \A p \in Pid : proc[p].up
  /\ shell' = [shell EXCEPT ![s] = Idle]
  /\ UNCHANGED <<proc, dog, wrapper, cached, client, ui, looper, locals, wanted, bounds>>

\* A su shell runs "killall androidvncserver; killall -KILL androidvncserver".
ShellKill(s) ==
  /\ shell[s].does = "kill"
  /\ proc' = [p \in Pid |-> Gone]
  /\ shell' = [shell EXCEPT ![s] = Idle]
  /\ UNCHANGED <<dog, wrapper, cached, client, ui, looper, locals, wanted, bounds>>

\* The process ends by itself: F12 calls exit(0), an ioctl fails, a signal.
ProcessExits(p) ==
  /\ proc[p].up /\ Fault("exit")
  /\ proc' = [proc EXCEPT ![p] = Gone]
  /\ UNCHANGED <<shell, dog, wrapper, cached, client, ui, looper, locals, wanted, requests>>

\* F11 calls rfbShutdownServer: the sockets close, the process stays.
ProcessGoesDeaf(p) ==
  /\ Listening(p) /\ Fault("deaf")
  /\ proc' = [proc EXCEPT ![p].deaf = TRUE]
  /\ UNCHANGED <<shell, dog, wrapper, cached, client, ui, looper, locals, wanted, requests>>

-----------------------------------------------------------------------------
(* What happens around the service: the activity, its user, and intents.   *)
(* The activity runs on the looper thread too, between two messages.       *)

MainIsFree == pc["main"] = "idle"

Go(t, step) == pc' = [pc EXCEPT ![t] = step]

\* A fresh activity starts the service, unless it runs, and binds to it;
\* onServiceConnected asks for the state.
OpenActivity ==
  /\ MainIsFree /\ ~activity /\ requests < MaxRequests
  /\ activity' = TRUE /\ view' = FALSE /\ viewPort' = DefaultPort
  /\ Post("service", "GET", DefaultPort, DefaultScale)
  /\ ticking' = TRUE
  /\ requests' = requests + 1
  /\ UNCHANGED <<native, wish, wdPort, wdScale, held, wrapper, cached, client, locals, wanted, faults>>

\* The activity is destroyed and unbinds; onUnbind forgets the client.  What
\* it had posted was handled on the way; replies to it reach nobody.
CloseActivity ==
  /\ MainIsFree /\ activity
  /\ \A i \in DOMAIN looper : looper[i].to = "activity"
  /\ activity' = FALSE /\ view' = FALSE /\ viewPort' = DefaultPort
  /\ client' = FALSE
  /\ looper' = <<>>
  /\ UNCHANGED <<native, dog, wrapper, cached, locals, wanted, bounds>>

\* "Stop all": stopService and, once the activity has unbound, onDestroy.  It
\* cancels the timer, whose current tick goes on, and stops the native server.
PressFinish ==
  /\ "FINISH" \in Requests /\ MainIsFree /\ activity /\ requests < MaxRequests
  /\ \A i \in DOMAIN looper : looper[i].to = "activity"
  /\ activity' = FALSE /\ view' = FALSE /\ viewPort' = DefaultPort
  /\ client' = FALSE
  /\ looper' = <<>>
  /\ ticking' = FALSE
  /\ job' = "FINISH" /\ Go("main", "stop.exec")
  /\ wanted' = FALSE
  /\ requests' = requests + 1
  /\ UNCHANGED <<native, wish, wdPort, wdScale, held, wrapper, cached, arg, cur, faults>>

\* Button01: enabled while the view says stopped (setStateLabels).
PressStart(port, scale) ==
  /\ "START" \in Requests /\ MainIsFree /\ activity /\ ~view /\ requests < MaxRequests
  /\ viewPort' = port
  /\ Post("service", "START", port, scale)
  /\ requests' = requests + 1
  /\ UNCHANGED <<native, dog, wrapper, cached, client, activity, view, locals, wanted, faults>>

\* Button02: enabled while the view says running.
PressStop ==
  /\ "STOP" \in Requests /\ MainIsFree /\ activity /\ view /\ requests < MaxRequests
  /\ Post("service", "STOP", DefaultPort, DefaultScale)
  /\ requests' = requests + 1
  /\ UNCHANGED <<native, dog, wrapper, cached, client, ui, locals, wanted, faults>>

\* An intent (boot, command line) reaches onStartCommand with extras, after
\* the end of a service that is about to go.
Intent(what, port, scale) ==
  /\ what \in Requests \cap {"INIT", "HALT"} /\ requests < MaxRequests
  /\ job # "FINISH"
  /\ Post("service", what, port, scale)
  /\ ticking' = TRUE
  /\ requests' = requests + 1
  /\ UNCHANGED <<native, wish, wdPort, wdScale, held, wrapper, cached, client, ui, locals, wanted, faults>>

\* ServersControllerActivity.IncomingHandler.handleMessage
ActivityHandles ==
  /\ MainIsFree /\ looper # <<>> /\ Head(looper).to = "activity"
  /\ LET msg == Head(looper) IN
       /\ view' = (msg.what = "VNC_STARTED")
       /\ viewPort' = IF msg.what = "VNC_STARTED" THEN msg.port ELSE viewPort
  /\ looper' = Tail(looper)
  /\ UNCHANGED <<native, dog, wrapper, cached, client, activity, locals, wanted, bounds>>

-----------------------------------------------------------------------------
(* The looper thread takes a request.                                      *)

Reply(t) == Go(t, "reply.read")

\* The first statements of each handler, up to the first shared access.
ServiceTakes ==
  /\ MainIsFree /\ looper # <<>> /\ Head(looper).to = "service"
  /\ LET msg == Head(looper) IN
       /\ job' = msg.what
       /\ arg' = [arg EXCEPT !["main"] = [port |-> msg.port, scale |-> msg.scale]]
       /\ client' = (client \/ msg.what \in {"START", "STOP", "GET"})
       /\ cached' = CASE msg.what = "STOP" -> TRUE
                      [] msg.what \in {"START", "GET"} -> FALSE
                      [] OTHER -> cached
       /\ Go("main", CASE msg.what = "GET"  -> "reply.read"
                       [] msg.what = "INIT" -> "start.check"
                       [] OTHER             -> "set.wish")
       /\ wanted' = CASE msg.what \in {"START", "INIT"} -> TRUE
                      [] msg.what \in {"STOP", "HALT"}  -> FALSE
                      [] OTHER -> wanted
  /\ looper' = Tail(looper)
  /\ UNCHANGED <<native, dog, wrapper, ui, cur, bounds>>

(* ServersWatchDog.setToRestartVnc: the monitor is the one of the Boolean  *)
(* that the field holds on entry; the first assignment replaces it.        *)
SetWish_StopKeepsTheWish ==
  /\ pc["main"] = "set.wish"
  /\ held' = {wish}
  /\ wish' = (wish \/ job \in {"START", "INIT"})
  /\ Go("main", "set.port")
  /\ UNCHANGED <<native, wdPort, wdScale, ticking, wrapper, cached, client, ui, looper,
                 job, arg, cur, wanted, bounds>>

SetWish_InitForgotten ==
  /\ pc["main"] = "set.wish"
  /\ held' = {wish}
  /\ wish' = (job = "START")
  /\ Go("main", "set.port")
  /\ UNCHANGED <<native, wdPort, wdScale, ticking, wrapper, cached, client, ui, looper,
                 job, arg, cur, wanted, bounds>>

SetWish ==
  /\ pc["main"] = "set.wish"
  /\ held' = {wish}
  /\ wish' = (job \in {"START", "INIT"})
  /\ Go("main", "set.port")
  /\ UNCHANGED <<native, wdPort, wdScale, ticking, wrapper, cached, client, ui, looper,
                 job, arg, cur, wanted, bounds>>

SetPort ==
  /\ pc["main"] = "set.port"
  /\ wdPort' = IF job = "HALT" THEN NoPort ELSE arg["main"].port
  /\ Go("main", "set.scale")
  /\ UNCHANGED <<native, wish, wdScale, ticking, held, wrapper, cached, client, ui, looper,
                 job, arg, cur, wanted, bounds>>

SetScale_KeepsTheMonitor ==
  /\ pc["main"] = "set.scale"
  /\ wdScale' = arg["main"].scale
  /\ Go("main", CASE job = "START" -> "start.check"
                  [] job = "INIT"  -> "idle"
                  [] OTHER         -> "stop.check")
  /\ job' = IF job = "INIT" THEN "none" ELSE job
  /\ UNCHANGED <<native, wish, wdPort, ticking, held, wrapper, cached, client, ui, looper,
                 arg, cur, wanted, bounds>>

\* The last assignment, and what the handler goes on with.  The -1 that
\* stopVnc() stores as scale is out of main()'s range, so it means 100.
SetScale ==
  /\ pc["main"] = "set.scale"
  /\ wdScale' = arg["main"].scale
  /\ held' = {}
  /\ Go("main", CASE job = "START" -> "start.check"
                  [] job = "INIT"  -> "idle"
                  [] OTHER         -> "stop.check")
  /\ job' = IF job = "INIT" THEN "none" ELSE job
  /\ UNCHANGED <<native, wish, wdPort, ticking, wrapper, cached, client, ui, looper,
                 arg, cur, wanted, bounds>>

-----------------------------------------------------------------------------
(* ServersWatchDog.normalizeServersStates, its VNC half.                   *)

Tick_TrustsTheCache ==
  /\ pc["timer"] = "idle" /\ ticking /\ wish \notin held
  /\ Go("timer", IF wish \/ cached THEN "tick.port" ELSE "stop.check")
  /\ UNCHANGED <<native, dog, wrapper, cached, client, ui, looper, job, arg, cur,
                 wanted, bounds>>

\* hasToRestartVnc: waits while "main" owns the monitor of the field's value.
Tick ==
  /\ pc["timer"] = "idle" /\ ticking /\ wish \notin held
  /\ Go("timer", IF wish THEN "tick.port" ELSE "stop.check")
  /\ UNCHANGED <<native, dog, wrapper, cached, client, ui, looper, job, arg, cur,
                 wanted, bounds>>

\* The arguments of tryStartVnc are read one by one and without a monitor.
TickPort ==
  /\ pc["timer"] = "tick.port"
  /\ arg' = [arg EXCEPT !["timer"].port = wdPort]
  /\ Go("timer", "tick.scale")
  /\ UNCHANGED <<native, dog, wrapper, cached, client, ui, looper, job, cur, wanted, bounds>>

TickScale_RestartsForReal ==
  /\ pc["timer"] = "tick.scale"
  /\ arg' = [arg EXCEPT !["timer"].scale = wdScale]
  /\ Go("timer", IF isRunning THEN "stop.check" ELSE "start.check")
  /\ UNCHANGED <<native, dog, wrapper, cached, client, ui, looper, job, cur, wanted, bounds>>

TickScale ==
  /\ pc["timer"] = "tick.scale"
  /\ arg' = [arg EXCEPT !["timer"].scale = wdScale]
  /\ Go("timer", "start.check")
  /\ UNCHANGED <<native, dog, wrapper, cached, client, ui, looper, job, cur, wanted, bounds>>

-----------------------------------------------------------------------------
(* tryStartVnc and startVncServer, on either thread.                       *)

StartCheck_Unchecked(t) ==
  /\ pc[t] = "start.check"
  /\ Go(t, "start.port")
  /\ UNCHANGED <<native, dog, wrapper, cached, client, ui, looper, job, arg, cur,
                 wanted, bounds>>

StartCheck(t) ==
  /\ pc[t] = "start.check"
  /\ \E seen \in BOOLEAN : Sees(seen) /\ Go(t, IF seen THEN "reply.read" ELSE "start.port")
  /\ UNCHANGED <<native, dog, wrapper, cached, client, ui, looper, job, arg, cur,
                 wanted, requests>>

\* The wrapper is one object for both threads.
StartPort(t) ==
  /\ pc[t] = "start.port"
  /\ wrapPort' = arg[t].port
  /\ Go(t, "start.scale")
  /\ UNCHANGED <<native, dog, wrapScale, cached, client, ui, looper, job, arg, cur,
                 wanted, bounds>>

StartScale(t) ==
  /\ pc[t] = "start.scale"
  /\ wrapScale' = arg[t].scale
  /\ Go(t, "start.exec")
  /\ UNCHANGED <<native, dog, wrapPort, cached, client, ui, looper, job, arg, cur,
                 wanted, bounds>>

\* VncServerWrapper.startVncServer: the command is built from the wrapper.
StartExec(t, s) ==
  /\ pc[t] = "start.exec"
  /\ shell[s].does = "nothing"
  /\ shell' = [shell EXCEPT ![s] = [does |-> "launch", port |-> wrapPort,
                                    scale |-> wrapScale]]
  /\ Go(t, "start.wait")
  /\ UNCHANGED <<proc, dog, wrapper, cached, client, ui, looper, job, arg, cur,
                 wanted, bounds>>

\* At most eleven polls 100 ms apart: it ends seeing the process, or gives up.
StartWait(t) ==
  /\ pc[t] = "start.wait"
  /\ Reply(t)
  /\ UNCHANGED <<native, dog, wrapper, cached, client, ui, looper, job, arg, cur,
                 wanted, bounds>>

-----------------------------------------------------------------------------
(* tryStopVnc and stopVncServer, on either thread.                         *)

Destroying(t) == t = "main" /\ job = "FINISH"

StopCheck(t) ==
  /\ pc[t] = "stop.check"
  /\ \E seen \in BOOLEAN : Sees(seen) /\ Go(t, IF seen THEN "stop.exec" ELSE "reply.read")
  /\ UNCHANGED <<native, dog, wrapper, cached, client, ui, looper, job, arg, cur,
                 wanted, requests>>

StopExec(t, s) ==
  /\ pc[t] = "stop.exec"
  /\ shell[s].does = "nothing"
  /\ shell' = [shell EXCEPT ![s] = [Idle EXCEPT !.does = "kill"]]
  /\ Go(t, "stop.wait")
  /\ UNCHANGED <<proc, dog, wrapper, cached, client, ui, looper, job, arg, cur,
                 wanted, bounds>>

\* tryStartVnc or tryStopVnc returns: only initVnc has something left to do.
Finish(t) ==
  /\ Go(t, IF t = "main" /\ job = "INIT" THEN "set.wish" ELSE "idle")
  /\ job' = IF t = "main" /\ job # "INIT" THEN "none" ELSE job
  /\ cur' = [cur EXCEPT ![t] = FALSE]

\* No shell, or no killall: the VncException is caught and only shown as text.
StopFails(t) ==
  /\ pc[t] = "stop.exec" /\ ~Destroying(t)
  /\ Fault("exec")
  /\ Finish(t)
  /\ UNCHANGED <<native, dog, wrapper, cached, client, ui, looper, arg, wanted, requests>>

StopWait(t) ==
  /\ pc[t] = "stop.wait"
  /\ Go(t, IF Destroying(t) THEN "exit" ELSE "reply.read")
  /\ UNCHANGED <<native, dog, wrapper, cached, client, ui, looper, job, arg, cur,
                 wanted, bounds>>

-----------------------------------------------------------------------------
(* sendVncReply, on either thread: read, compare and send, remember.       *)

ReplyRead(t) ==
  /\ pc[t] = "reply.read"
  /\ \E seen \in BOOLEAN : Sees(seen) /\ cur' = [cur EXCEPT ![t] = seen]
  /\ Go(t, "reply.send")
  /\ UNCHANGED <<native, dog, wrapper, cached, client, ui, looper, job, arg, wanted, requests>>

\* A reply whose activity was destroyed in between reaches nobody.
ReplySend(t) ==
  /\ pc[t] = "reply.send"
  /\ IF cached # cur[t] /\ client
     THEN Post("activity", IF cur[t] THEN "VNC_STARTED" ELSE "VNC_STOPPED",
               wrapPort, DefaultScale)
     ELSE UNCHANGED looper
  /\ Go(t, "reply.cache")
  /\ UNCHANGED <<native, dog, wrapper, cached, client, ui, job, arg, cur, wanted, bounds>>

ReplyCache_OnlyWhenStarted(t) ==
  /\ pc[t] = "reply.cache"
  /\ cached' = (cached \/ cur[t])
  /\ Finish(t)
  /\ UNCHANGED <<native, dog, wrapper, client, ui, looper, arg, wanted, requests, faults>>

ReplyCache(t) ==
  /\ pc[t] = "reply.cache"
  /\ cached' = cur[t]
  /\ Finish(t)
  /\ UNCHANGED <<native, dog, wrapper, client, ui, looper, arg, wanted, bounds>>

-----------------------------------------------------------------------------
(* The Java process dies and START_STICKY brings the service back, unless   *)
(* it was stopped, with a null intent that asks for nothing.               *)

JavaRestarts ==
  /\ wish' = FALSE /\ wdPort' = DefaultPort /\ wdScale' = DefaultScale
  /\ held' = {}
  /\ wrapPort' = DefaultPort /\ wrapScale' = DefaultScale
  /\ cached' = FALSE /\ client' = FALSE
  /\ activity' = FALSE /\ view' = FALSE /\ viewPort' = DefaultPort
  /\ looper' = <<>>
  /\ job' = "none"
  /\ pc' = [t \in Thread |-> "idle"]
  /\ arg' = [t \in Thread |-> [port |-> DefaultPort, scale |-> DefaultScale]]
  /\ cur' = [t \in Thread |-> FALSE]
  /\ UNCHANGED <<native, ticking, wanted, requests>>

\* The VncException of startVncServer is caught on neither thread.
StartThrows(t) ==
  /\ pc[t] = "start.exec"
  /\ Fault("exec")
  /\ JavaRestarts

\* Nor does onDestroy catch the one of stopVncServer.
DestroyThrows ==
  /\ pc["main"] = "stop.exec" /\ Destroying("main")
  /\ Fault("exec")
  /\ JavaRestarts

\* The last statement of onDestroy ends the process and the tick that runs.
SystemExit == pc["main"] = "exit" /\ JavaRestarts /\ UNCHANGED faults

\* Android kills the process to reclaim memory.
JavaKilled ==
  /\ Fault("java")
  /\ JavaRestarts

-----------------------------------------------------------------------------
ThreadStep(t) ==
  \/ StartCheck(t) \/ StartPort(t) \/ StartScale(t) \/ StartThrows(t) \/ StartWait(t)
  \/ \E s \in Shell : StartExec(t, s) \/ StopExec(t, s)
  \/ StopCheck(t) \/ StopFails(t) \/ StopWait(t)
  \/ ReplyRead(t) \/ ReplySend(t) \/ ReplyCache(t)

MainStep == ServiceTakes \/ ActivityHandles \/ SetWish \/ SetPort \/ SetScale
            \/ ThreadStep("main") \/ DestroyThrows \/ SystemExit

TimerStep == Tick \/ TickPort \/ TickScale \/ ThreadStep("timer")

ShellActs(s) == ShellKill(s) \/ ShellLaunchFails(s) \/ \E p \in Pid : ShellLaunch(s, p)

ShellStep == \E s \in Shell : ShellActs(s)

Environment ==
  \/ OpenActivity \/ CloseActivity \/ PressStop \/ PressFinish
  \/ \E port \in Port, scale \in Scale : PressStart(port, scale) \/ Intent("INIT", port, scale)
  \/ Intent("HALT", DefaultPort, DefaultScale)
  \/ \E p \in Pid : ProcessExits(p) \/ ProcessGoesDeaf(p)
  \/ JavaKilled

Next == MainStep \/ TimerStep \/ ShellStep \/ Environment

Spec == Init /\ [][Next]_vars

(* The looper and the timer thread are scheduled, and a su shell that was   *)
(* handed a command gets to it.  Users and faults are under no obligation.  *)
FairSpec ==
  /\ Spec
  /\ WF_vars(MainStep)
  /\ WF_vars(TimerStep)
  /\ \A s \in Shell : WF_vars(ShellActs(s))

-----------------------------------------------------------------------------
Step == {"idle", "set.wish", "set.port", "set.scale", "tick.port", "tick.scale",
         "start.check", "start.port", "start.scale", "start.exec", "start.wait",
         "stop.check", "stop.exec", "stop.wait", "reply.read", "reply.send",
         "reply.cache", "exit"}

NativeOK  == proc \in [Pid -> Process] /\ shell \in [Shell -> Command]
DogOK     == wish \in BOOLEAN /\ wdPort \in AnyPort /\ wdScale \in Scale
             /\ ticking \in BOOLEAN /\ held \subseteq BOOLEAN
WrapperOK == wrapPort \in AnyPort /\ wrapScale \in Scale
ReplyOK   == cached \in BOOLEAN /\ client \in BOOLEAN
UiOK      == activity \in BOOLEAN /\ view \in BOOLEAN /\ viewPort \in AnyPort
LooperOK  == looper \in Seq(RequestMsg \cup ReplyMsg)
LocalsOK  == /\ job \in {"none", "START", "STOP", "INIT", "HALT", "GET", "FINISH"}
             /\ pc \in [Thread -> Step]
             /\ arg \in [Thread -> [port : AnyPort, scale : Scale]]
             /\ cur \in [Thread -> BOOLEAN]
CountsOK  == wanted \in BOOLEAN /\ requests \in Nat /\ faults \in Nat

\* The main thread leaves neither a monitor nor a request behind.
NothingLeftBehind ==
  /\ held = {} <=> pc["main"] \notin {"set.port", "set.scale"}
  /\ job = "none" <=> pc["main"] = "idle"

(* The variables have their types, and the main thread leaves neither a      *)
(* monitor of the watchdog (synchronized in setToRestartVnc) nor a request   *)
(* behind.                                                                   *)
TypeOK == /\ NativeOK /\ DogOK /\ WrapperOK /\ ReplyOK /\ UiOK /\ LooperOK
          /\ LocalsOK /\ CountsOK /\ NothingLeftBehind

-----------------------------------------------------------------------------
(* Properties.                                                             *)

Queued(kinds) == \E i \in DOMAIN looper : looper[i].what \in kinds

Starting(t) == pc[t] \in {"tick.port", "tick.scale", "start.check", "start.port",
                          "start.scale", "start.exec", "start.wait"}
Stopping(t) == pc[t] \in {"stop.check", "stop.exec", "stop.wait"}
Pending(what) == \E s \in Shell : shell[s].does = what

\* Nobody wants the server and nothing that would start it is under way.
SettledOff ==
  /\ ~wish /\ job \notin {"START", "INIT"} /\ ~Queued({"START", "INIT"})
  /\ \A t \in Thread : ~Starting(t)
  /\ ~Pending("launch")

\* The server is wanted and nothing that would stop it is under way.
SettledOn ==
  /\ wish /\ job \notin {"STOP", "HALT", "FINISH"} /\ ~Queued({"STOP", "HALT"})
  /\ \A t \in Thread : ~Stopping(t)
  /\ ~Pending("kill")

\* The server runs, is wanted, and whoever decided to start it is done.
Healthy ==
  /\ SettledOn /\ isRunning
  /\ \A t \in Thread : pc[t] \notin {"start.port", "start.scale", "start.exec"}
  /\ ~Pending("launch")

\* Once the switch is off and drained, no interleaving of the two threads,
\* no late shell and no restart of the Java process starts a server, until
\* somebody asks again (hasToRestartVnc decides on each tick).
NothingStartsUnasked ==
  [][SettledOff /\ requests' = requests => SettledOff' /\ Up' \subseteq Up]_vars

\* Once the switch is on and drained, neither thread stops a server, until
\* somebody asks or something fails.
NothingStopsUnasked ==
  [][SettledOn /\ requests' = requests /\ faults' = faults
       => SettledOn' /\ Up \subseteq Up']_vars

\* The ticks of the watchdog leave a server that runs and is wanted alone:
\* they neither stop it nor add a second process.
HealthyServerIsLeftAlone ==
  [][Healthy /\ requests' = requests /\ faults' = faults => Healthy' /\ proc' = proc]_vars

\* "in case servers are down just starts them", and the opposite: in the end
\* the process runs exactly if the last request handled asked for it, as long
\* as there is a service.  ("Stop all" leaves a process behind when a tick that
\* mTimer.cancel() does not stop starts one; the next service stops that.)
Converges == <>[]((isRunning <=> wanted) \/ ~ticking)

\* The service's own idea of the server is right in the end, whichever
\* thread wrote cachedVncRunning last.
CacheIsRight == <>[]((cached <=> isRunning) \/ ~ticking)

\* "Stop all": without a service there is no server in the end.
\* (The code does not ensure it; see README, "Further traces".)
StopAllStops == <>[](ticking \/ ~isRunning)

\* setStateLabels: the activity shows "the current status" in the end.
\* (Two threads reply at once: it may not; see README, "Further traces".)
ViewIsRight == <>[](activity => (view <=> isRunning))

\* A server that is wanted listens in the end.
WantedServerListens == <>[](wanted => \E p \in Pid : Listening(p))

\* It listens where the user asked, scaled as the user asked.
\* (The code does not ensure it; see README, "Further traces".)
ListensWhereAsked ==
  <>[](wish => \E p \in Pid : /\ Listening(p)
                              /\ proc[p].port = wdPort /\ proc[p].scale = wdScale)

=============================================================================
