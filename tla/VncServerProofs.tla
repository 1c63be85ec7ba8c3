-------------------------- MODULE VncServerProofs ---------------------------
(***************************************************************************)
(* What holds of the VNC server process, from outside and from inside.     *)
(*                                                                         *)
(* Of VncControl, for every number of processes, shells, ports and         *)
(* requests: its types, and that a switch that is off and drained starts   *)
(* nothing, and one that is on and drained stops nothing.                  *)
(*                                                                         *)
(* Of Input, the pointer that the clients of one process share, for any    *)
(* clients and any number of events: its types, that nothing is stuck on   *)
(* the device, that no freed record is pointed to, and that pointerClient  *)
(* is the lock that PointerLock describes.                                 *)
(***************************************************************************)
EXTENDS VncControl, Input, TLAPS

USE DEF Thread

LEMMA InitTypeOK == Init => TypeOK
<1> SUFFICES ASSUME Init PROVE TypeOK
  OBVIOUS
<1> USE DEF Init, JavaInit
<1>1. NativeOK
  BY VncAssumption DEF NativeOK, Gone, Idle, Process, Command, AnyPort
<1>2. DogOK /\ WrapperOK /\ ReplyOK /\ UiOK
  BY VncAssumption DEF DogOK, WrapperOK, ReplyOK, UiOK, AnyPort
<1>3. LooperOK
  BY DEF LooperOK
<1>4. LocalsOK
  BY VncAssumption DEF LocalsOK, AnyPort, Step
<1>5. CountsOK /\ NothingLeftBehind
  BY DEF CountsOK, NothingLeftBehind
<1> QED
  BY <1>1, <1>2, <1>3, <1>4, <1>5 DEF TypeOK

LEMMA PostTypeOK ==
  ASSUME looper \in Seq(RequestMsg \cup ReplyMsg), NEW to, NEW what, NEW port, NEW scale,
         [to |-> to, what |-> what, port |-> port, scale |-> scale] \in RequestMsg \cup ReplyMsg,
         Post(to, what, port, scale)
  PROVE  looper' \in Seq(RequestMsg \cup ReplyMsg)
BY DEF Post

LEMMA HeadTypeOK ==
  ASSUME looper \in Seq(RequestMsg \cup ReplyMsg), looper # <<>>
  PROVE  /\ Head(looper) \in RequestMsg \cup ReplyMsg
         /\ Tail(looper) \in Seq(RequestMsg \cup ReplyMsg)
OBVIOUS

LEMMA NativeTypeOK ==
  ASSUME TypeOK, NEW s \in Shell, ShellActs(s)
  PROVE  TypeOK'
<1>1. NativeOK'
  <2> USE VncAssumption DEF TypeOK, NativeOK, Gone, Idle, Process, Command, AnyPort
  <2>1. CASE ShellKill(s)
    BY <2>1 DEF ShellKill
  <2>2. CASE ShellLaunchFails(s)
    BY <2>2 DEF ShellLaunchFails
  <2>3. ASSUME NEW p \in Pid, ShellLaunch(s, p) PROVE NativeOK'
    BY <2>3 DEF ShellLaunch
  <2> QED
    BY <2>1, <2>2, <2>3 DEF ShellActs
<1>2. UNCHANGED <<dog, wrapper, cached, client, ui, looper, locals, wanted, requests>>
  BY DEF ShellActs, ShellKill, ShellLaunchFails, ShellLaunch, bounds
<1>3. faults' \in Nat
  BY DEF ShellActs, ShellKill, ShellLaunchFails, ShellLaunch, bounds, Fault, TypeOK, CountsOK
<1> QED
  BY <1>1, <1>2, <1>3 DEF TypeOK, DogOK, WrapperOK, ReplyOK, UiOK, LooperOK, LocalsOK,
     CountsOK, NothingLeftBehind, dog, wrapper, ui, locals

\* Messages: what a request looks like when it is taken off the queue.
LEMMA RequestTypeOK ==
  ASSUME NEW msg \in RequestMsg \cup ReplyMsg, msg.to = "service"
  PROVE  /\ msg.what \in {"START", "STOP", "INIT", "HALT", "GET"}
         /\ msg.port \in Port /\ msg.scale \in Scale
BY VncAssumption DEF RequestMsg, ReplyMsg

LEMMA ReplyTypeOK ==
  ASSUME NEW msg \in RequestMsg \cup ReplyMsg, msg.to = "activity"
  PROVE  msg.what \in {"VNC_STARTED", "VNC_STOPPED"} /\ msg.port \in AnyPort
BY DEF RequestMsg, ReplyMsg

LEMMA RestartTypeOK == ASSUME TypeOK, JavaRestarts, faults' \in Nat PROVE TypeOK'
<1> USE DEF JavaRestarts
<1>1. NativeOK' /\ CountsOK'
  BY DEF TypeOK, NativeOK, CountsOK, native
<1>2. DogOK' /\ WrapperOK' /\ ReplyOK' /\ UiOK'
  BY VncAssumption DEF TypeOK, DogOK, WrapperOK, ReplyOK, UiOK, AnyPort
<1>3. LooperOK'
  BY DEF LooperOK
<1>4. LocalsOK'
  BY VncAssumption DEF LocalsOK, AnyPort, Step
<1>5. NothingLeftBehind'
  BY DEF NothingLeftBehind
<1> QED
  BY <1>1, <1>2, <1>3, <1>4, <1>5 DEF TypeOK

LEMMA EndTypeOK == ASSUME TypeOK, DestroyThrows \/ SystemExit PROVE TypeOK'
BY RestartTypeOK DEF DestroyThrows, SystemExit, Fault, TypeOK, CountsOK

LEMMA FreshUiOK ==
  ASSUME activity' \in BOOLEAN, view' = FALSE, viewPort' = DefaultPort
  PROVE  UiOK'
BY VncAssumption DEF UiOK, AnyPort

LEMMA EnvironmentTypeOK == ASSUME TypeOK, Environment PROVE TypeOK'
<1> USE DEF TypeOK, MainIsFree
<1>1. CASE OpenActivity
  <2>1. LooperOK'
    BY <1>1, PostTypeOK, VncAssumption DEF OpenActivity, LooperOK, RequestMsg, ReplyMsg, Post
  <2>2. UiOK'
    BY <1>1, FreshUiOK DEF OpenActivity
  <2>3. CountsOK'
    BY <1>1 DEF OpenActivity, CountsOK
  <2> QED
    BY <1>1, <2>1, <2>2, <2>3 DEF OpenActivity, NativeOK, DogOK, WrapperOK, ReplyOK,
       LocalsOK, NothingLeftBehind, native, dog, wrapper, locals
<1>2. CASE CloseActivity
  <2>1. UiOK'
    BY <1>2, FreshUiOK DEF CloseActivity
  <2>2. LooperOK'
    BY <1>2 DEF CloseActivity, LooperOK
  <2>3. ReplyOK'
    BY <1>2 DEF CloseActivity, ReplyOK
  <2> QED
    BY <1>2, <2>1, <2>2, <2>3 DEF CloseActivity, NativeOK, DogOK, WrapperOK,
       LocalsOK, CountsOK, NothingLeftBehind, native, dog, wrapper, locals, bounds
<1>3. CASE PressStop
  <2>1. LooperOK'
    BY <1>3, PostTypeOK, VncAssumption DEF PressStop, LooperOK, RequestMsg, ReplyMsg, Post
  <2> QED
    BY <1>3, <2>1 DEF PressStop, NativeOK, DogOK, WrapperOK, ReplyOK, UiOK,
       LocalsOK, CountsOK, NothingLeftBehind, native, dog, wrapper, ui, locals
<1>4. ASSUME NEW port \in Port, NEW scale \in Scale, PressStart(port, scale) PROVE TypeOK'
  <2>1. LooperOK'
    BY <1>4, PostTypeOK, VncAssumption DEF PressStart, LooperOK, RequestMsg, ReplyMsg, Post
  <2> QED
    BY <1>4, <2>1 DEF PressStart, NativeOK, DogOK, WrapperOK, ReplyOK, UiOK,
       LocalsOK, CountsOK, NothingLeftBehind, native, dog, wrapper, locals, AnyPort
<1>5. ASSUME NEW port \in Port, NEW scale \in Scale,
             Intent("INIT", port, scale) \/ Intent("HALT", DefaultPort, DefaultScale)
      PROVE  TypeOK'
  <2>1. LooperOK'
    BY <1>5, PostTypeOK, VncAssumption DEF Intent, LooperOK, RequestMsg, ReplyMsg, Post
  <2>2. DogOK'
    BY <1>5 DEF Intent, DogOK
  <2>3. CountsOK'
    BY <1>5 DEF Intent, CountsOK
  <2> QED
    BY <1>5, <2>1, <2>2, <2>3 DEF Intent, NativeOK, WrapperOK, ReplyOK, UiOK,
       LocalsOK, NothingLeftBehind, native, wrapper, ui, locals
<1>6. ASSUME NEW p \in Pid, ProcessExits(p) \/ ProcessGoesDeaf(p) PROVE TypeOK'
  <2>1. Gone \in Process /\ [proc[p] EXCEPT !.deaf = TRUE] \in Process
    BY VncAssumption DEF Gone, Process, AnyPort, NativeOK
  <2>2. proc' = [proc EXCEPT ![p] = Gone] \/ proc' = [proc EXCEPT ![p] = [@ EXCEPT !.deaf = TRUE]]
    BY <1>6 DEF ProcessExits, ProcessGoesDeaf
  <2>3. NativeOK'
    BY <1>6, <2>1, <2>2 DEF ProcessExits, ProcessGoesDeaf, NativeOK
  <2> QED
    BY <1>6, <2>3 DEF ProcessExits, ProcessGoesDeaf, Fault, DogOK, WrapperOK, ReplyOK, UiOK,
       LooperOK, LocalsOK, CountsOK, NothingLeftBehind, dog, wrapper, ui, locals
<1>7. CASE JavaKilled
  BY <1>7, RestartTypeOK DEF JavaKilled, Fault, CountsOK
<1>8. CASE PressFinish
  <2>1. UiOK'
    BY <1>8, FreshUiOK DEF PressFinish
  <2>2. LooperOK'
    BY <1>8 DEF PressFinish, LooperOK
  <2>3. ReplyOK'
    BY <1>8 DEF PressFinish, ReplyOK
  <2>4. DogOK'
    BY <1>8 DEF PressFinish, DogOK
  <2>5. CountsOK'
    <3>1. wanted' \in BOOLEAN
      BY <1>8, Zenon DEF PressFinish
    <3>2. requests' \in Nat /\ faults' \in Nat
      BY <1>8 DEF PressFinish, CountsOK
    <3> QED
      BY <3>1, <3>2 DEF CountsOK
  <2>6. LocalsOK' /\ NothingLeftBehind'
    BY <1>8 DEF PressFinish, Go, LocalsOK, NothingLeftBehind, Step
  <2> QED
    BY <1>8, <2>1, <2>2, <2>3, <2>4, <2>5, <2>6 DEF PressFinish, NativeOK, WrapperOK, native, wrapper
<1> QED
  BY <1>1, <1>2, <1>3, <1>4, <1>5, <1>6, <1>7, <1>8, VncAssumption DEF Environment

LEMMA MainTypeOK ==
  ASSUME TypeOK, ServiceTakes \/ ActivityHandles \/ SetWish \/ SetPort \/ SetScale
  PROVE  TypeOK'
<1> USE DEF TypeOK, MainIsFree
<1>1. CASE ServiceTakes
  <2> DEFINE msg == Head(looper)
  <2>1. /\ msg \in RequestMsg \cup ReplyMsg /\ msg.to = "service"
        /\ LooperOK'
    BY <1>1, HeadTypeOK DEF ServiceTakes, LooperOK
  <2>2. /\ msg.what \in {"START", "STOP", "INIT", "HALT", "GET"}
        /\ msg.port \in AnyPort /\ msg.scale \in Scale
    BY <2>1, RequestTypeOK DEF AnyPort
  <2>3. /\ job' = msg.what
        /\ arg' = [arg EXCEPT !["main"] = [port |-> msg.port, scale |-> msg.scale]]
        /\ pc' = [pc EXCEPT !["main"] = pc'["main"]]
        /\ pc'["main"] \in {"reply.read", "start.check", "set.wish"}
        /\ pc["main"] = "idle"
        /\ UNCHANGED cur
    BY <1>1, <2>2 DEF ServiceTakes, Go, LocalsOK
  <2>4. LocalsOK'
    BY <2>2, <2>3 DEF LocalsOK, Step
  <2>5. ReplyOK' /\ wanted' \in BOOLEAN
    BY <1>1, <2>2 DEF ServiceTakes, ReplyOK, CountsOK
  <2>6. UNCHANGED <<native, dog, wrapper, ui, bounds>>
    BY <1>1 DEF ServiceTakes
  <2>7. NothingLeftBehind'
    BY <2>2, <2>3, <2>6 DEF NothingLeftBehind, dog
  <2> QED
    BY <2>1, <2>4, <2>5, <2>6, <2>7 DEF NativeOK, DogOK, WrapperOK, UiOK, CountsOK,
       native, dog, wrapper, ui, bounds
<1>2. CASE ActivityHandles
  <2>1. /\ Head(looper) \in RequestMsg \cup ReplyMsg /\ Head(looper).to = "activity"
        /\ LooperOK'
    BY <1>2, HeadTypeOK DEF ActivityHandles, LooperOK
  <2>2. Head(looper).port \in AnyPort
    BY <2>1, ReplyTypeOK
  <2>3. view' \in BOOLEAN /\ viewPort' \in AnyPort /\ activity' = activity
    BY <1>2, <2>2 DEF ActivityHandles, UiOK
  <2> QED
    BY <1>2, <2>1, <2>3 DEF ActivityHandles, NativeOK, DogOK, WrapperOK, ReplyOK, UiOK,
       LocalsOK, CountsOK, NothingLeftBehind, native, dog, wrapper, locals, bounds
<1>3. ASSUME SetWish \/ SetPort PROVE TypeOK'
  <2>1. held' # {} /\ held' \subseteq BOOLEAN
    BY <1>3 DEF SetWish, SetPort, DogOK, NothingLeftBehind
  <2>2. wish' \in BOOLEAN
    <3>1. CASE SetWish
      <4>1. CASE job \in {"START", "INIT"}
        BY <3>1, <4>1 DEF SetWish
      <4>2. CASE job \notin {"START", "INIT"}
        BY <3>1, <4>2 DEF SetWish
      <4> QED
        BY <4>1, <4>2
    <3>2. CASE SetPort
      BY <3>2 DEF SetPort, DogOK
    <3> QED
      BY <1>3, <3>1, <3>2
  <2>3. wdPort' \in AnyPort /\ wdScale' \in Scale
    BY <1>3 DEF SetWish, SetPort, DogOK, LocalsOK, AnyPort
  <2>4. LocalsOK' /\ NothingLeftBehind'
    BY <1>3, <2>1 DEF SetWish, SetPort, Go, LocalsOK, Step, NothingLeftBehind
  <2> QED
    BY <1>3, <2>1, <2>2, <2>3, <2>4 DEF DogOK, SetWish, SetPort, NativeOK, WrapperOK, ReplyOK, UiOK,
       LooperOK, CountsOK, native, wrapper, ui, bounds
<1>4. CASE SetScale
  <2>1. DogOK'
    BY <1>4 DEF SetScale, DogOK, LocalsOK
  <2>2. pc'["main"] = (CASE job = "START" -> "start.check"
                         [] job = "INIT"  -> "idle"
                         [] OTHER         -> "stop.check")
    BY <1>4 DEF SetScale, Go, LocalsOK
  <2>3. LocalsOK'
    BY <1>4, <2>2 DEF SetScale, Go, LocalsOK, Step
  <2>4. NothingLeftBehind'
    BY <1>4, <2>2 DEF SetScale, NothingLeftBehind
  <2> QED
    BY <1>4, <2>1, <2>3, <2>4 DEF SetScale, NativeOK, WrapperOK, ReplyOK, UiOK,
       LooperOK, CountsOK, native, wrapper, ui, bounds
<1> QED
  BY <1>1, <1>2, <1>3, <1>4

LEMMA TimerTypeOK ==
  ASSUME TypeOK, Tick \/ TickPort \/ TickScale
  PROVE  TypeOK'
<1> USE DEF TypeOK
<1>1. LocalsOK'
  BY DEF Tick, TickPort, TickScale, Go, LocalsOK, DogOK, Step
<1>2. pc'["main"] = pc["main"] /\ job' = job
  BY DEF Tick, TickPort, TickScale, Go, LocalsOK
<1> QED
  BY <1>1, <1>2 DEF Tick, TickPort, TickScale, NativeOK, DogOK, WrapperOK, ReplyOK, UiOK,
     LooperOK, CountsOK, NothingLeftBehind, native, dog, wrapper, ui, bounds
LEMMA ThreadTypeOK ==
  ASSUME TypeOK, NEW t \in Thread, ThreadStep(t)
  PROVE  TypeOK'
<1> USE DEF TypeOK
<1>1. CASE StartCheck(t) \/ StopCheck(t) \/ ReplyRead(t)
  <2>1. LocalsOK' /\ NothingLeftBehind'
    BY <1>1 DEF StartCheck, StopCheck, ReplyRead, Go, LocalsOK, NothingLeftBehind, Step, dog
  <2>2. faults' \in Nat
    BY <1>1 DEF StartCheck, StopCheck, ReplyRead, Sees, Fault, CountsOK
  <2> QED
    BY <1>1, <2>1, <2>2 DEF StartCheck, StopCheck, ReplyRead, NativeOK, DogOK, WrapperOK,
       ReplyOK, UiOK, LooperOK, CountsOK, native, dog, wrapper, ui
<1>2. CASE StartPort(t) \/ StartScale(t)
  <2>1. WrapperOK' /\ LocalsOK' /\ NothingLeftBehind'
    BY <1>2 DEF StartPort, StartScale, Go, WrapperOK, LocalsOK, NothingLeftBehind, Step, dog
  <2> QED
    BY <1>2, <2>1 DEF StartPort, StartScale, NativeOK, DogOK, ReplyOK, UiOK, LooperOK,
       CountsOK, native, dog, ui, bounds
<1>3. CASE StartWait(t) \/ StopWait(t)
  <2>1. LocalsOK' /\ NothingLeftBehind'
    BY <1>3 DEF StartWait, StopWait, Reply, Go, LocalsOK, NothingLeftBehind, Step, dog
  <2> QED
    BY <1>3, <2>1 DEF StartWait, StopWait, NativeOK, DogOK, WrapperOK, ReplyOK, UiOK,
       LooperOK, CountsOK, native, dog, wrapper, ui, bounds
<1>4. ASSUME NEW s \in Shell, StartExec(t, s) \/ StopExec(t, s) PROVE TypeOK'
  <2>1. NativeOK'
    BY <1>4, VncAssumption DEF StartExec, StopExec, NativeOK, WrapperOK, Command, Idle, AnyPort
  <2>2. LocalsOK' /\ NothingLeftBehind'
    BY <1>4 DEF StartExec, StopExec, Go, LocalsOK, NothingLeftBehind, Step, dog
  <2> QED
    BY <1>4, <2>1, <2>2 DEF StartExec, StopExec, DogOK, WrapperOK, ReplyOK, UiOK,
       LooperOK, CountsOK, dog, wrapper, ui, bounds
<1>5. CASE StartThrows(t)
  BY <1>5, RestartTypeOK DEF StartThrows, Fault, CountsOK
<1>6. CASE StopFails(t) \/ ReplyCache(t)
  <2>1. Finish(t) /\ UNCHANGED <<arg, held>> /\ pc[t] \in {"stop.exec", "reply.cache"}
    BY <1>6 DEF StopFails, ReplyCache, dog
  <2>2. LocalsOK'
    BY <2>1 DEF Finish, Go, LocalsOK, Step
  <2>3. NothingLeftBehind'
    BY <2>1 DEF Finish, Go, LocalsOK, NothingLeftBehind
  <2>4. ReplyOK'
    BY <1>6 DEF StopFails, ReplyCache, ReplyOK, LocalsOK
  <2>5. faults' \in Nat
    BY <1>6 DEF StopFails, ReplyCache, Fault, CountsOK, bounds
  <2> QED
    BY <1>6, <2>2, <2>3, <2>4, <2>5 DEF StopFails, ReplyCache, NativeOK, DogOK, WrapperOK, UiOK,
       LooperOK, CountsOK, native, dog, wrapper, ui, bounds
<1>7. CASE ReplySend(t)
  <2>1. LocalsOK' /\ NothingLeftBehind'
    BY <1>7 DEF ReplySend, Go, LocalsOK, NothingLeftBehind, Step, dog
  <2>2. LooperOK'
    <3> DEFINE msg == [to |-> "activity", what |-> IF cur[t] THEN "VNC_STARTED" ELSE "VNC_STOPPED",
                       port |-> wrapPort, scale |-> DefaultScale]
    <3>1. msg \in RequestMsg \cup ReplyMsg
      BY DEF WrapperOK, ReplyMsg
    <3>2. looper' = Append(looper, msg) \/ looper' = looper
      BY <1>7 DEF ReplySend, Post
    <3> QED
      BY <3>1, <3>2 DEF LooperOK
  <2> QED
    BY <1>7, <2>1, <2>2 DEF ReplySend, NativeOK, DogOK, WrapperOK, ReplyOK, UiOK,
       CountsOK, native, dog, wrapper, ui, bounds
<1> QED
  BY <1>1, <1>2, <1>3, <1>4, <1>5, <1>6, <1>7 DEF ThreadStep

\* Every variable stays in its type, the main thread never leaves a monitor
\* locked behind it, and it is idle exactly between two requests.
THEOREM TypesHold == Spec => []TypeOK
<1>1. TypeOK /\ [Next]_vars => TypeOK'
  <2> SUFFICES ASSUME TypeOK, [Next]_vars PROVE TypeOK'
    OBVIOUS
  <2>1. CASE MainStep
    BY <2>1, MainTypeOK, EndTypeOK, ThreadTypeOK DEF MainStep
  <2>2. CASE TimerStep
    BY <2>2, TimerTypeOK, ThreadTypeOK DEF TimerStep
  <2>3. CASE ShellStep
    BY <2>3, NativeTypeOK DEF ShellStep
  <2>4. CASE Environment
    BY <2>4, EnvironmentTypeOK
  <2>5. CASE UNCHANGED vars
    BY <2>5 DEF vars, native, dog, wrapper, ui, locals, bounds, TypeOK, NativeOK, DogOK,
       WrapperOK, ReplyOK, UiOK, LooperOK, LocalsOK, CountsOK, NothingLeftBehind
  <2> QED
    BY <2>1, <2>2, <2>3, <2>4, <2>5 DEF Next
<1> QED
  BY <1>1, InitTypeOK, PTL DEF Spec
-----------------------------------------------------------------------------
(* How the queue of the looper keeps and loses kinds of messages.          *)

LEMMA TakenWasQueued ==
  ASSUME LooperOK, looper # <<>>, NEW kinds, Head(looper).what \in kinds
  PROVE  Queued(kinds)
BY DEF LooperOK, Queued

LEMMA TailQueued ==
  ASSUME LooperOK, looper # <<>>, looper' = Tail(looper), NEW kinds, ~Queued(kinds)
  PROVE  ~Queued(kinds)'
<1> SUFFICES ASSUME NEW n \in DOMAIN Tail(looper), Tail(looper)[n].what \in kinds PROVE FALSE
  BY DEF Queued
<1>1. n + 1 \in DOMAIN looper /\ looper[n + 1] = Tail(looper)[n]
  BY DEF LooperOK
<1> QED
  BY <1>1 DEF Queued

LEMMA PostQueued ==
  ASSUME LooperOK, NEW to, NEW what, NEW port, NEW scale, Post(to, what, port, scale),
         NEW kinds, what \notin kinds, ~Queued(kinds)
  PROVE  ~Queued(kinds)'
<1> SUFFICES ASSUME NEW n \in DOMAIN looper', looper'[n].what \in kinds PROVE FALSE
  BY DEF Queued
<1>1. CASE n \in DOMAIN looper
  BY <1>1 DEF LooperOK, Queued, Post
<1>2. CASE n = Len(looper) + 1
  BY <1>2 DEF LooperOK, Post
<1> QED
  BY <1>1, <1>2 DEF LooperOK, Post

-----------------------------------------------------------------------------
(* The switch that is off.                                                 *)

LEMMA OffNative ==
  ASSUME TypeOK, SettledOff, NEW s \in Shell, ShellActs(s)
  PROVE  SettledOff' /\ Up' \subseteq Up
<1>1. shell[s].does # "launch"
  BY DEF SettledOff, Pending
<1>2. ShellKill(s)
  BY <1>1 DEF ShellActs, ShellLaunch, ShellLaunchFails
<1>3. ~Pending("launch")'
  BY <1>2 DEF ShellKill, SettledOff, Pending, Idle, TypeOK, NativeOK
<1>4. Up' \subseteq Up
  BY <1>2 DEF ShellKill, Up, Gone
<1> QED
  BY <1>2, <1>3, <1>4 DEF ShellKill, SettledOff, Starting, Queued, dog, locals

LEMMA OffRestart ==
  ASSUME SettledOff, JavaRestarts
  PROVE  SettledOff' /\ Up' \subseteq Up
<1>1. ~wish' /\ job' = "none" /\ looper' = <<>> /\ \A t \in Thread : pc'[t] = "idle"
  BY DEF JavaRestarts
<1>2. UNCHANGED <<proc, shell>>
  BY DEF JavaRestarts, native
<1> QED
  BY <1>1, <1>2 DEF SettledOff, Queued, Starting, Pending, Up

LEMMA OffEnd ==
  ASSUME SettledOff, DestroyThrows \/ SystemExit
  PROVE  SettledOff' /\ Up' \subseteq Up
BY OffRestart DEF DestroyThrows, SystemExit

LEMMA OffEnvironment ==
  ASSUME TypeOK, SettledOff, Environment, requests' = requests
  PROVE  SettledOff' /\ Up' \subseteq Up
<1>1. requests + 1 # requests
  BY DEF TypeOK, CountsOK
<1>2. CASE CloseActivity
  BY <1>2 DEF CloseActivity, SettledOff, Queued, Starting, Pending, Up, native, dog, locals
<1>3. ASSUME NEW p \in Pid, ProcessExits(p) \/ ProcessGoesDeaf(p)
      PROVE  SettledOff' /\ Up' \subseteq Up
  <2>1. Up' \subseteq Up
    BY <1>3 DEF ProcessExits, ProcessGoesDeaf, Up, Gone, TypeOK, NativeOK, Process
  <2> QED
    BY <1>3, <2>1 DEF ProcessExits, ProcessGoesDeaf, SettledOff, Queued, Starting, Pending,
       dog, locals
<1>4. CASE JavaKilled
  BY <1>4, OffRestart DEF JavaKilled
<1> QED
  BY <1>1, <1>2, <1>3, <1>4
  DEF Environment, OpenActivity, PressStart, PressStop, PressFinish, Intent

LEMMA OffMain ==
  ASSUME TypeOK, SettledOff, ServiceTakes \/ ActivityHandles \/ SetWish \/ SetPort \/ SetScale
  PROVE  SettledOff' /\ Up' \subseteq Up
<1>1. CASE ServiceTakes
  <2>1. /\ looper # <<>> /\ looper' = Tail(looper) /\ job' = Head(looper).what
        /\ UNCHANGED <<proc, shell, wish>>
        /\ pc'["timer"] = pc["timer"]
    BY <1>1 DEF ServiceTakes, Go, TypeOK, LocalsOK, native, dog
  <2>2. job' \notin {"START", "INIT"} /\ ~Queued({"START", "INIT"})'
    BY <2>1, TakenWasQueued, TailQueued DEF SettledOff, TypeOK
  <2>3. pc'["main"] \in {"reply.read", "set.wish"}
    BY <1>1, <2>1, <2>2 DEF ServiceTakes, Go, TypeOK, LocalsOK
  <2> QED
    BY <2>1, <2>2, <2>3 DEF SettledOff, Starting, Pending, Up
<1>2. CASE ActivityHandles
  <2>1. ~Queued({"START", "INIT"})'
    BY <1>2, TailQueued DEF ActivityHandles, SettledOff, TypeOK
  <2> QED
    BY <1>2, <2>1 DEF ActivityHandles, SettledOff, Starting, Pending, Up, native, dog, locals
<1>3. CASE SetWish \/ SetPort
  <2>1. ~wish'
    BY <1>3 DEF SetWish, SetPort, SettledOff
  <2>2. UNCHANGED <<native, looper, job>> /\ pc' \in [Thread -> Step]
        /\ pc'["timer"] = pc["timer"] /\ pc'["main"] \in {"set.port", "set.scale"}
    BY <1>3 DEF SetWish, SetPort, Go, TypeOK, LocalsOK, Step
  <2> QED
    BY <2>1, <2>2 DEF SettledOff, Starting, Pending, Queued, Up, native
<1>4. CASE SetScale
  BY <1>4 DEF SetScale, Go, SettledOff, Starting, Pending, Queued, Up, native,
     TypeOK, LocalsOK
<1> QED
  BY <1>1, <1>2, <1>3, <1>4

LEMMA OffTimer ==
  ASSUME TypeOK, SettledOff, Tick \/ TickPort \/ TickScale
  PROVE  SettledOff' /\ Up' \subseteq Up
<1>1. Tick
  BY DEF SettledOff, Starting, TickPort, TickScale
<1> QED
  BY <1>1 DEF Tick, Go, SettledOff, Starting, Pending, Queued, Up, native, dog,
     TypeOK, LocalsOK

LEMMA OffThread ==
  ASSUME TypeOK, SettledOff, NEW t \in Thread, ThreadStep(t)
  PROVE  SettledOff' /\ Up' \subseteq Up
<1> USE DEF SettledOff, Starting, Pending, Up
<1>1. ~StartCheck(t) /\ ~StartPort(t) /\ ~StartScale(t) /\ ~StartThrows(t) /\ ~StartWait(t)
      /\ \A s \in Shell : ~StartExec(t, s)
  BY DEF StartCheck, StartPort, StartScale, StartThrows, StartWait, StartExec
<1>2. CASE StopCheck(t) \/ StopWait(t) \/ ReplyRead(t)
  BY <1>2 DEF StopCheck, StopWait, ReplyRead, Reply, Go, Queued, TypeOK, LocalsOK, native, dog
<1>3. ASSUME NEW s \in Shell, StopExec(t, s) PROVE SettledOff' /\ Up' \subseteq Up
  BY <1>3 DEF StopExec, Go, Queued, TypeOK, LocalsOK, NativeOK, Idle, dog
<1>4. CASE StopFails(t) \/ ReplyCache(t)
  <2>1. Finish(t) /\ UNCHANGED <<proc, shell, wish, looper>>
    BY <1>4 DEF StopFails, ReplyCache, native, dog
  <2>2. job' \in {job, "none"} /\ \A u \in Thread : pc'[u] \in {pc[u], "idle", "set.wish"}
    BY <2>1 DEF Finish, Go, TypeOK, LocalsOK
  <2> QED
    BY <2>1, <2>2 DEF Queued
<1>5. CASE ReplySend(t)
  <2>1. UNCHANGED looper \/ \E what \in {"VNC_STARTED", "VNC_STOPPED"} :
                              Post("activity", what, wrapPort, DefaultScale)
    BY <1>5 DEF ReplySend
  <2>2. ~Queued({"START", "INIT"})'
    BY <2>1, PostQueued DEF TypeOK, Queued
  <2> QED
    BY <1>5, <2>2 DEF ReplySend, Go, TypeOK, LocalsOK, native, dog
<1> QED
  BY <1>1, <1>2, <1>3, <1>4, <1>5 DEF ThreadStep

\* A switch that is off and drained stays so and starts no process, whatever
\* the two threads, the shells, the faults and the restarts do.
THEOREM OffHolds == Spec => NothingStartsUnasked
<1>1. TypeOK /\ [Next]_vars
      => [SettledOff /\ requests' = requests => SettledOff' /\ Up' \subseteq Up]_vars
  <2> SUFFICES ASSUME TypeOK, [Next]_vars, SettledOff, requests' = requests, ~UNCHANGED vars
               PROVE  SettledOff' /\ Up' \subseteq Up
    OBVIOUS
  <2>1. CASE MainStep
    BY <2>1, OffMain, OffEnd, OffThread DEF MainStep
  <2>2. CASE TimerStep
    BY <2>2, OffTimer, OffThread DEF TimerStep
  <2>3. CASE ShellStep
    BY <2>3, OffNative DEF ShellStep
  <2>4. CASE Environment
    BY <2>4, OffEnvironment
  <2> QED
    BY <2>1, <2>2, <2>3, <2>4 DEF Next
<1> QED
  BY <1>1, TypesHold, PTL DEF Spec, NothingStartsUnasked
-----------------------------------------------------------------------------
(* The switch that is on.  The main thread works through setToRestartVnc   *)
(* only for a request that says which way, since a question goes straight  *)
(* to the reply, and it ends the process for "Stop all" only.              *)

Directed ==
  /\ pc["main"] \in {"set.wish", "set.port", "set.scale"} => job \notin {"GET", "FINISH"}
  /\ pc["main"] = "exit" => job = "FINISH"

LEMMA MainDirected ==
  ASSUME TypeOK, Directed, ServiceTakes \/ ActivityHandles \/ SetWish \/ SetPort \/ SetScale
  PROVE  Directed'
<1> USE DEF Directed, Go, TypeOK, LocalsOK
<1>1. CASE ServiceTakes
  <2>1. Head(looper).what \in {"START", "STOP", "INIT", "HALT", "GET"}
    BY <1>1, HeadTypeOK, RequestTypeOK DEF ServiceTakes, LooperOK
  <2> QED
    BY <1>1, <2>1 DEF ServiceTakes
<1>2. CASE ActivityHandles \/ SetWish \/ SetPort \/ SetScale
  BY <1>2 DEF ActivityHandles, SetWish, SetPort, SetScale, locals
<1> QED
  BY <1>1, <1>2

LEMMA TimerDirected ==
  ASSUME TypeOK, Directed, Tick \/ TickPort \/ TickScale
  PROVE  Directed'
BY DEF Tick, TickPort, TickScale, Go, Directed, TypeOK, LocalsOK

LEMMA ThreadDirected ==
  ASSUME TypeOK, Directed, NEW t \in Thread, ThreadStep(t)
  PROVE  Directed'
<1> USE DEF Directed, TypeOK, LocalsOK, Go
<1>1. CASE StartCheck(t) \/ StopCheck(t) \/ ReplyRead(t) \/ StartPort(t) \/ StartScale(t)
           \/ StartWait(t) \/ StopWait(t) \/ ReplySend(t)
  BY <1>1 DEF StartCheck, StopCheck, ReplyRead, StartPort, StartScale, StartWait, StopWait,
     ReplySend, Reply, Destroying
<1>2. ASSUME NEW s \in Shell, StartExec(t, s) \/ StopExec(t, s) PROVE Directed'
  BY <1>2 DEF StartExec, StopExec
<1>3. CASE StartThrows(t)
  BY <1>3 DEF StartThrows, JavaRestarts
<1>4. CASE StopFails(t) \/ ReplyCache(t)
  BY <1>4 DEF StopFails, ReplyCache, Finish
<1> QED
  BY <1>1, <1>2, <1>3, <1>4 DEF ThreadStep

LEMMA IsDirected == Spec => []Directed
<1>1. Init => Directed
  BY DEF Init, JavaInit, Directed
<1>2. TypeOK /\ Directed /\ [Next]_vars => Directed'
  <2> SUFFICES ASSUME TypeOK, Directed, [Next]_vars PROVE Directed'
    OBVIOUS
  <2>1. CASE MainStep
    BY <2>1, MainDirected, ThreadDirected
    DEF MainStep, DestroyThrows, SystemExit, JavaRestarts, Directed
  <2>2. CASE TimerStep
    BY <2>2, TimerDirected, ThreadDirected DEF TimerStep
  <2>3. CASE ShellStep \/ UNCHANGED vars
    BY <2>3 DEF ShellStep, ShellActs, ShellKill, ShellLaunchFails, ShellLaunch, Directed, locals, vars
  <2>4. CASE Environment
    BY <2>4 DEF Environment, OpenActivity, CloseActivity, PressStop, PressStart, PressFinish,
       Intent, ProcessExits, ProcessGoesDeaf, JavaKilled, JavaRestarts, Directed, Go, locals,
       TypeOK, LocalsOK
  <2> QED
    BY <2>1, <2>2, <2>3, <2>4 DEF Next
<1> QED
  BY <1>1, <1>2, TypesHold, PTL DEF Spec

LEMMA OnNative ==
  ASSUME TypeOK, SettledOn, NEW s \in Shell, ShellActs(s)
  PROVE  SettledOn' /\ Up \subseteq Up'
<1>1. ~ShellKill(s)
  BY DEF ShellKill, SettledOn, Pending
<1>2. UNCHANGED <<wish, job, looper, pc>> /\ shell' = [shell EXCEPT ![s] = Idle]
  BY <1>1 DEF ShellActs, ShellLaunchFails, ShellLaunch, dog, locals
<1>3. ~Pending("kill")'
  BY <1>2 DEF SettledOn, Pending, Idle, TypeOK, NativeOK
<1>4. Up \subseteq Up'
  BY <1>1 DEF ShellActs, ShellLaunchFails, ShellLaunch, Up, TypeOK, NativeOK
<1> QED
  BY <1>2, <1>3, <1>4 DEF SettledOn, Stopping, Queued

LEMMA OnEnvironment ==
  ASSUME TypeOK, SettledOn, Environment, requests' = requests, faults' = faults
  PROVE  SettledOn' /\ proc' = proc /\ UNCHANGED <<pc, shell>>
<1>1. requests + 1 # requests /\ faults + 1 # faults
  BY DEF TypeOK, CountsOK
<1>2. CloseActivity
  BY <1>1 DEF Environment, OpenActivity, PressStart, PressStop, PressFinish, Intent,
     ProcessExits, ProcessGoesDeaf, JavaKilled, Fault
<1> QED
  BY <1>2 DEF CloseActivity, SettledOn, Queued, Stopping, Pending, native, dog, locals

LEMMA OnMain ==
  ASSUME TypeOK, Directed, SettledOn,
         ServiceTakes \/ ActivityHandles \/ SetWish \/ SetPort \/ SetScale
  PROVE  /\ SettledOn' /\ proc' = proc /\ shell' = shell
         /\ pc'["timer"] = pc["timer"]
         /\ pc'["main"] \notin {"start.port", "start.scale", "start.exec"}
<1>1. CASE ServiceTakes
  <2>1. /\ looper # <<>> /\ looper' = Tail(looper) /\ job' = Head(looper).what
        /\ UNCHANGED <<proc, shell, wish>>
        /\ pc'["timer"] = pc["timer"]
        /\ pc'["main"] \in {"reply.read", "start.check", "set.wish"}
    BY <1>1 DEF ServiceTakes, Go, TypeOK, LocalsOK, native, dog
  <2>2. Head(looper).what # "FINISH"
    BY <1>1, HeadTypeOK, RequestTypeOK DEF ServiceTakes, TypeOK, LooperOK
  <2>3. job' \notin {"STOP", "HALT", "FINISH"} /\ ~Queued({"STOP", "HALT"})'
    BY <2>1, <2>2, TakenWasQueued, TailQueued DEF SettledOn, TypeOK
  <2> QED
    BY <2>1, <2>3 DEF SettledOn, Stopping, Pending
<1>2. CASE ActivityHandles
  <2>1. ~Queued({"STOP", "HALT"})'
    BY <1>2, TailQueued DEF ActivityHandles, SettledOn, TypeOK
  <2> QED
    BY <1>2, <2>1 DEF ActivityHandles, MainIsFree, SettledOn, Stopping, Pending, native, dog, locals
<1>3. CASE SetWish \/ SetPort \/ SetScale
  <2>1. job \in {"START", "INIT"}
    BY <1>3 DEF SetWish, SetPort, SetScale, Directed, SettledOn, TypeOK, LocalsOK, NothingLeftBehind
  <2>2. wish' /\ UNCHANGED <<native, looper>> /\ job' \in {job, "none"}
    BY <1>3, <2>1 DEF SetWish, SetPort, SetScale, SettledOn
  <2>3. /\ pc'["timer"] = pc["timer"]
        /\ pc'["main"] \in {"set.port", "set.scale", "start.check", "idle"}
    BY <1>3, <2>1 DEF SetWish, SetPort, SetScale, Go, TypeOK, LocalsOK
  <2> QED
    BY <2>1, <2>2, <2>3 DEF SettledOn, Stopping, Pending, Queued, native
<1> QED
  BY <1>1, <1>2, <1>3

LEMMA OnEnd ==
  ASSUME TypeOK, Directed, SettledOn, DestroyThrows \/ SystemExit
  PROVE  FALSE
BY DEF DestroyThrows, SystemExit, Destroying, Directed, SettledOn

LEMMA OnTimer ==
  ASSUME TypeOK, SettledOn, Tick \/ TickPort \/ TickScale
  PROVE  /\ SettledOn' /\ proc' = proc /\ shell' = shell
         /\ pc'["main"] = pc["main"]
         /\ pc'["timer"] \notin {"start.port", "start.scale", "start.exec"}
BY DEF Tick, TickPort, TickScale, Go, SettledOn, Stopping, Pending, Queued, native, dog,
   TypeOK, LocalsOK

LEMMA OnThread ==
  ASSUME TypeOK, SettledOn, NEW t \in Thread, ThreadStep(t), faults' = faults
  PROVE  SettledOn' /\ proc' = proc
<1> USE DEF SettledOn, Stopping, Pending
<1>1. /\ ~StopCheck(t) /\ ~StopFails(t) /\ ~StopWait(t)
      /\ \A s \in Shell : ~StopExec(t, s)
  BY DEF StopCheck, StopFails, StopWait, StopExec
<1>2. ~StartThrows(t)
  BY DEF StartThrows, Fault, TypeOK, CountsOK
<1>3. CASE StartCheck(t) \/ StartPort(t) \/ StartScale(t) \/ StartWait(t) \/ ReplyRead(t)
  BY <1>3 DEF StartCheck, StartPort, StartScale, StartWait, ReplyRead, Reply, Go, Queued,
     TypeOK, LocalsOK, native, dog
<1>4. ASSUME NEW s \in Shell, StartExec(t, s) PROVE SettledOn' /\ proc' = proc
  BY <1>4 DEF StartExec, Go, Queued, TypeOK, LocalsOK, NativeOK, dog
<1>5. CASE ReplyCache(t)
  <2>1. Finish(t) /\ UNCHANGED <<proc, shell, wish, looper>>
    BY <1>5 DEF ReplyCache, native, dog
  <2>2. job' \in {job, "none"} /\ \A u \in Thread : pc'[u] \in {pc[u], "idle", "set.wish"}
    BY <2>1 DEF Finish, Go, TypeOK, LocalsOK
  <2> QED
    BY <2>1, <2>2 DEF Queued
<1>6. CASE ReplySend(t)
  <2>1. UNCHANGED looper \/ \E what \in {"VNC_STARTED", "VNC_STOPPED"} :
                              Post("activity", what, wrapPort, DefaultScale)
    BY <1>6 DEF ReplySend
  <2>2. ~Queued({"STOP", "HALT"})'
    BY <2>1, PostQueued DEF TypeOK, Queued
  <2> QED
    BY <1>6, <2>2 DEF ReplySend, Go, TypeOK, LocalsOK, native, dog
<1> QED
  BY <1>1, <1>2, <1>3, <1>4, <1>5, <1>6 DEF ThreadStep

\* A switch that is on and drained stays so and stops no process, whatever
\* the two threads and the shells do, until somebody asks or something fails.
THEOREM OnHolds == Spec => NothingStopsUnasked
<1>1. TypeOK /\ Directed /\ [Next]_vars
      => [SettledOn /\ requests' = requests /\ faults' = faults
            => SettledOn' /\ Up \subseteq Up']_vars
  <2> SUFFICES ASSUME TypeOK, Directed, [Next]_vars, SettledOn, requests' = requests,
                      faults' = faults, ~UNCHANGED vars
               PROVE  SettledOn' /\ Up \subseteq Up'
    OBVIOUS
  <2>1. CASE MainStep
    BY <2>1, OnMain, OnEnd, OnThread DEF MainStep, Up
  <2>2. CASE TimerStep
    BY <2>2, OnTimer, OnThread DEF TimerStep, Up
  <2>3. CASE ShellStep
    BY <2>3, OnNative DEF ShellStep
  <2>4. CASE Environment
    BY <2>4, OnEnvironment DEF Up
  <2> QED
    BY <2>1, <2>2, <2>3, <2>4 DEF Next
<1> QED
  BY <1>1, TypesHold, IsDirected, PTL DEF Spec, NothingStopsUnasked

LEMMA HealthyThread ==
  ASSUME TypeOK, Healthy, NEW t \in Thread, ThreadStep(t), faults' = faults
  PROVE  /\ ~Pending("launch")'
         /\ \A u \in Thread : pc'[u] \notin {"start.port", "start.scale", "start.exec"}
<1> USE DEF Healthy, Pending
<1>1. /\ ~StartPort(t) /\ ~StartScale(t) /\ ~StartThrows(t)
      /\ \A s \in Shell : ~StartExec(t, s)
  BY DEF StartPort, StartScale, StartThrows, StartExec
<1>2. ASSUME NEW s \in Shell, StopExec(t, s) PROVE FALSE
  BY <1>2 DEF StopExec, SettledOn, Stopping
<1>3. CASE StartCheck(t)
  <2>1. PICK seen \in BOOLEAN : Sees(seen) /\ Go(t, IF seen THEN "reply.read" ELSE "start.port")
    BY <1>3 DEF StartCheck
  <2>2. ~Fault("exec")
    BY DEF Fault, TypeOK, CountsOK
  <2>3. seen = TRUE
    BY <2>1, <2>2, Zenon DEF Sees
  <2>4. Go(t, "reply.read")
    BY <2>1, <2>3
  <2> QED
    BY <1>3, <2>4 DEF StartCheck, Go, TypeOK, LocalsOK, native
<1>4. CASE StopCheck(t) \/ StopWait(t) \/ StartWait(t) \/ ReplyRead(t) \/ ReplySend(t)
  BY <1>4 DEF StopCheck, StopWait, StartWait, ReplyRead, ReplySend, Reply, Go,
     TypeOK, LocalsOK, native
<1>5. CASE StopFails(t) \/ ReplyCache(t)
  BY <1>5 DEF StopFails, ReplyCache, Finish, Go, TypeOK, LocalsOK, native
<1> QED
  BY <1>1, <1>2, <1>3, <1>4, <1>5 DEF ThreadStep

\* A server that runs and is wanted, with no start under way, is neither
\* stopped nor doubled by any tick, any reply or any shell, until somebody
\* asks or something fails: tryStartVnc looks with ps before it starts.
THEOREM HealthyHolds == Spec => HealthyServerIsLeftAlone
<1>1. TypeOK /\ Directed /\ [Next]_vars
      => [Healthy /\ requests' = requests /\ faults' = faults
            => Healthy' /\ proc' = proc]_vars
  <2> SUFFICES ASSUME TypeOK, Directed, [Next]_vars, Healthy, requests' = requests,
                      faults' = faults, ~UNCHANGED vars
               PROVE  Healthy' /\ proc' = proc
    OBVIOUS
  <2> USE DEF Healthy, Pending, isRunning, Up
  <2>1. ASSUME NEW t \in Thread, ThreadStep(t) PROVE Healthy' /\ proc' = proc
    BY <2>1, OnThread, HealthyThread
  <2>2. CASE MainStep
    BY <2>1, <2>2, OnMain, OnEnd DEF MainStep
  <2>3. CASE TimerStep
    BY <2>1, <2>3, OnTimer DEF TimerStep
  <2>4. ~ShellStep
    BY DEF ShellStep, ShellActs, ShellKill, ShellLaunchFails, ShellLaunch, SettledOn
  <2>5. CASE Environment
    BY <2>5, OnEnvironment
  <2> QED
    BY <2>2, <2>3, <2>4, <2>5 DEF Next
<1> QED
  BY <1>1, TypesHold, IsDirected, PTL DEF Spec, HealthyServerIsLeftAlone

-----------------------------------------------------------------------------
(* The shared pointer. *)

\* Each button has a scancode to itself.
LEMMA Codes ==
  /\ Code["left"] = "touch" /\ Code["middle"] = "END" /\ Code["right"] = "back"
  /\ \A b \in Button : Code[b] \in {"touch", "END", "back"}
  /\ \A b \in Button : Code[b] = "touch" <=> b = "left"
  /\ \A b, d \in Button : Code[b] = Code[d] => b = d
BY DEF Code, Button

\* A key leaves no scancode down that was up, and never the finger up that
\* was down.
LEMMA Keys ==
  ASSUME NEW key
  PROVE  /\ Typed(key) \subseteq down
         /\ "touch" \in down => "touch" \in Typed(key)
<1>1. "touch" \notin Modifiers(key) \cup {Scancode(key)}
  BY DEF Modifiers, Scancode
<1> QED
  BY <1>1 DEF Typed

\* The part of InputTypeOK that is about clients.
ClientTypes ==
  /\ conn \in [Client -> {"away", "open", "closed"}]
  /\ pointerClient \in Client \cup {NoClient}
  /\ lastPtrButtons \in [Client -> SUBSET Button]
  /\ listening \in BOOLEAN /\ running \in BOOLEAN /\ turn \in {"sockets", "list"}

\* The part that is about the device and what was done to it.
DeviceTypes ==
  /\ clicked \subseteq Button /\ i \in 0 .. 9
  /\ down \subseteq {"touch", "END", "back"}
  /\ last \in [by : Client \cup {NoClient}, did : {"move", "press", "release", "nothing"}]
  /\ messages \in Nat

LEMMA InitTypes == InputInit => InputTypeOK
BY DEF InputInit, InputTypeOK, Button

LEMMA ClientTypesKept == ASSUME InputTypeOK, [InputNext]_inputVars PROVE ClientTypes'
<1> USE DEF InputTypeOK, ClientTypes
<1>1. ASSUME NEW c \in Client, Accepts(c) PROVE ClientTypes'
  BY <1>1 DEF Accepts
<1>2. ASSUME NEW c \in Client, Close(c) PROVE ClientTypes'
  BY <1>2 DEF Close
<1>3. ASSUME NEW c \in Client, PointerEventIgnored(c) PROVE ClientTypes'
  BY <1>3 DEF PointerEventIgnored, clients
<1>4. ASSUME NEW c \in Client, NEW mask \in SUBSET Button, PointerEvent(c, mask)
      PROVE  ClientTypes'
  BY <1>4 DEF PointerEvent
<1>5. ASSUME NEW c \in Client, NEW key \in Keysyms, KeyEvent(c, key) PROVE ClientTypes'
  BY <1>5 DEF KeyEvent, clients
<1>6. ASSUME NEW c \in Client, Shutdown(c) PROVE ClientTypes'
  BY <1>6 DEF Shutdown
<1>7. ASSUME NEW c \in Client, Exit(c) PROVE ClientTypes'
  BY <1>7 DEF Exit, clients
<1>8. CASE Timeout
  BY <1>8 DEF Timeout, clients
<1>9. CASE ClientsGone
  BY <1>9 DEF ClientsGone, Freed
<1>10. CASE UNCHANGED inputVars
  BY <1>10 DEF inputVars, clients
<1> QED
  BY <1>1, <1>2, <1>3, <1>4, <1>5, <1>6, <1>7, <1>8, <1>9, <1>10 DEF InputNext

LEMMA Counted == ASSUME messages \in Nat, Message PROVE messages' \in Nat
BY DEF Message

LEMMA DeviceTypesKept == ASSUME InputTypeOK, [InputNext]_inputVars PROVE DeviceTypes'
<1> USE DEF InputTypeOK, DeviceTypes
<1>1. ASSUME NEW c \in Client, NEW mask \in SUBSET Button, PointerEvent(c, mask)
      PROVE  DeviceTypes'
  <2>1. ptrevent(c, mask) /\ Message
    BY <1>1 DEF PointerEvent
  <2>2. down' \subseteq {"touch", "END", "back"}
    <3>1. {Code[b] : b \in mask} \subseteq {"touch", "END", "back"}
      BY Codes
    <3> QED
      BY <2>1, <3>1 DEF ptrevent
  <2>3. LeftButton(mask) \in {"move", "press", "release", "nothing"}
    BY DEF LeftButton
  <2>4. i' \in 0 .. 9
    BY <2>1 DEF ptrevent
  <2>5. clicked' \subseteq Button /\ messages' \in Nat
    BY <2>1, Counted DEF ptrevent
  <2>6. last' \in [by : Client \cup {NoClient}, did : {"move", "press", "release", "nothing"}]
    BY <2>1, <2>3 DEF ptrevent
  <2> QED
    BY <2>2, <2>4, <2>5, <2>6
<1>2. ASSUME NEW c \in Client, NEW key \in Keysyms, KeyEvent(c, key) PROVE DeviceTypes'
  <2>1. messages' \in Nat /\ down' \subseteq down
    BY <1>2, Counted, Keys DEF KeyEvent
  <2> QED
    BY <1>2, <2>1 DEF KeyEvent, pointer
<1>3. ASSUME NEW c \in Client, PointerEventIgnored(c) \/ Shutdown(c) \/ Exit(c)
      PROVE  DeviceTypes'
  <2>1. messages' \in Nat /\ down' \subseteq down
    BY <1>3, Counted DEF PointerEventIgnored, Shutdown, Exit
  <2> QED
    BY <1>3, <2>1 DEF PointerEventIgnored, Shutdown, Exit, pointer
<1>4. ASSUME NEW c \in Client, Accepts(c) \/ Close(c) PROVE DeviceTypes'
  BY <1>4 DEF Accepts, Close, pointer
<1>5. CASE Timeout \/ ClientsGone
  BY <1>5 DEF Timeout, ClientsGone, pointer
<1>6. CASE UNCHANGED inputVars
  BY <1>6 DEF inputVars, pointer
<1> QED
  BY <1>1, <1>2, <1>3, <1>4, <1>5, <1>6 DEF InputNext

LEMMA NextTypes == InputTypeOK /\ [InputNext]_inputVars => InputTypeOK'
BY ClientTypesKept, DeviceTypesKept DEF ClientTypes, DeviceTypes, InputTypeOK

\* The state of the server stays within its types: a scancode that no button
\* holds is never left down.
THEOREM PointerTypesHold == InputSpec => []InputTypeOK
<1> QED
  BY InitTypes, NextTypes, PTL DEF InputSpec

-----------------------------------------------------------------------------
LEMMA InitNothingStuck == InputInit => NothingIsStuck
BY DEF InputInit, NothingIsStuck

\* After a pointer event, the flags are the mask, and what they hold is down.
LEMMA PointerEventSticksNothing ==
  ASSUME InputTypeOK, NothingIsStuck, running, NEW c, NEW mask \in SUBSET Button, ptrevent(c, mask)
  PROVE  /\ "touch" \in down' <=> "left" \in clicked'
         /\ down' \subseteq {Code[b] : b \in clicked'}
<1>1. down \subseteq {Code[b] : b \in clicked} /\ clicked \subseteq Button
  BY DEF NothingIsStuck, InputTypeOK
<1>2. clicked' = mask
  BY DEF ptrevent
<1>3. down' = (down \ {Code[b] : b \in clicked \ mask}) \cup {Code[b] : b \in mask}
  BY DEF ptrevent
<1>4. ASSUME NEW k \in down' PROVE k \in {Code[b] : b \in mask}
  BY <1>1, <1>3, <1>4
<1>5. "touch" \in {Code[b] : b \in mask} <=> "left" \in mask
  BY Codes DEF Button
<1>6. "touch" \in down' <=> "touch" \in {Code[b] : b \in mask}
  BY <1>3, <1>4
<1> QED
  BY <1>2, <1>4, <1>5, <1>6

LEMMA NextNothingStuck == InputTypeOK /\ NothingIsStuck /\ [InputNext]_inputVars => NothingIsStuck'
<1> SUFFICES ASSUME InputTypeOK, NothingIsStuck, [InputNext]_inputVars PROVE NothingIsStuck'
  OBVIOUS
<1>1. ASSUME NEW c \in Client, NEW mask \in SUBSET Button, PointerEvent(c, mask)
      PROVE  NothingIsStuck'
  BY <1>1, PointerEventSticksNothing DEF PointerEvent, Reads, NothingIsStuck
<1>2. ASSUME NEW c \in Client, NEW key \in Keysyms, KeyEvent(c, key) PROVE NothingIsStuck'
  <2>1. clicked' = clicked /\ running' = running
    BY <1>2 DEF KeyEvent, pointer
  <2>2. down' \subseteq down /\ ("touch" \in down => "touch" \in down')
    BY <1>2, Keys DEF KeyEvent
  <2> QED
    BY <2>1, <2>2 DEF NothingIsStuck
<1>3. ASSUME NEW c \in Client, PointerEventIgnored(c) \/ Shutdown(c) \/ Accepts(c) \/ Close(c)
      PROVE  NothingIsStuck'
  BY <1>3 DEF PointerEventIgnored, Shutdown, Accepts, Close, pointer, NothingIsStuck
<1>4. ASSUME NEW c \in Client, Exit(c) PROVE NothingIsStuck'
  BY <1>4 DEF Exit, NothingIsStuck
<1>5. CASE Timeout \/ ClientsGone \/ UNCHANGED inputVars
  BY <1>5 DEF Timeout, ClientsGone, inputVars, pointer, NothingIsStuck
<1> QED
  BY <1>1, <1>2, <1>3, <1>4, <1>5 DEF InputNext

\* For any clients, buttons and keys: what is down on the device is what the
\* flags of ptrevent will release.
THEOREM NothingSticks == InputSpec => []NothingIsStuck
<1> QED
  BY InitTypes, NextTypes, InitNothingStuck, NextNothingStuck, PTL DEF InputSpec

-----------------------------------------------------------------------------
LEMMA NextOwner == InputTypeOK /\ OwnerIsListed /\ [InputNext]_inputVars => OwnerIsListed'
<1> SUFFICES ASSUME InputTypeOK, OwnerIsListed, [InputNext]_inputVars PROVE OwnerIsListed'
  OBVIOUS
<1> USE InputAssumption DEF OwnerIsListed, InputTypeOK
<1>1. ASSUME NEW c \in Client, NEW mask \in SUBSET Button, PointerEvent(c, mask)
      PROVE  OwnerIsListed'
  BY <1>1 DEF PointerEvent, Reads
<1>2. ASSUME NEW c \in Client, NEW key \in Keysyms, KeyEvent(c, key) PROVE OwnerIsListed'
  BY <1>2 DEF KeyEvent, clients
<1>3. ASSUME NEW c \in Client, Accepts(c) \/ Close(c) \/ Shutdown(c) PROVE OwnerIsListed'
  BY <1>3 DEF Accepts, Close, Shutdown
<1>4. ASSUME NEW c \in Client, PointerEventIgnored(c) \/ Exit(c) PROVE OwnerIsListed'
  BY <1>4 DEF PointerEventIgnored, Exit, clients
<1>5. CASE ClientsGone
  BY <1>5 DEF ClientsGone, Freed, ClosedClients
<1>6. CASE Timeout \/ UNCHANGED inputVars
  BY <1>6 DEF Timeout, inputVars, clients
<1> QED
  BY <1>1, <1>2, <1>3, <1>4, <1>5, <1>6 DEF InputNext

\* pointerClient never points to a record that was freed, in whatever order
\* clients come, press, and go.
THEOREM OwnerStaysListed == InputSpec => []OwnerIsListed
<1>1. InputInit => OwnerIsListed
  BY DEF InputInit, OwnerIsListed
<1> QED
  BY <1>1, InitTypes, NextTypes, NextOwner, PTL DEF InputSpec

-----------------------------------------------------------------------------
LEMMA PointerEventUses ==
  ASSUME NEW c \in Client, NEW mask \in SUBSET Button, PointerEvent(c, mask)
  PROVE  Lock!Use(c)
<1>1. pointerClient \in {NoClient, c} /\ pointerClient' \in {NoClient, c}
  BY DEF PointerEvent, MayPoint
<1>2. ASSUME "touch" \in down', "touch" \notin down PROVE pointerClient' = c
  <2>1. "touch" \in {Code[b] : b \in mask}
    BY <1>2 DEF PointerEvent, ptrevent
  <2>2. mask # {}
    BY <2>1
  <2> QED
    BY <2>2 DEF PointerEvent
<1> QED
  BY <1>1, <1>2 DEF Lock!Use

LEMMA NextLocked == InputTypeOK /\ [InputNext]_inputVars => [Lock!Next]_Lock!vars
<1> SUFFICES ASSUME InputTypeOK, [InputNext]_inputVars PROVE [Lock!Next]_Lock!vars
  OBVIOUS
<1> USE DEF Lock!Next, Lock!vars
<1>1. ASSUME NEW c \in Client, NEW mask \in SUBSET Button, PointerEvent(c, mask)
      PROVE  Lock!Next
  BY <1>1, PointerEventUses
<1>2. ASSUME NEW c \in Client, NEW key \in Keysyms, KeyEvent(c, key)
      PROVE  UNCHANGED Lock!vars
  <2>1. "touch" \in down' <=> "touch" \in down
    BY <1>2, Keys DEF KeyEvent
  <2> QED
    BY <1>2, <2>1 DEF KeyEvent, clients
<1>3. ASSUME NEW c \in Client, PointerEventIgnored(c) \/ Accepts(c) \/ Close(c) \/ Shutdown(c)
      PROVE  UNCHANGED Lock!vars
  BY <1>3 DEF PointerEventIgnored, Accepts, Close, Shutdown, clients
<1>4. ASSUME NEW c \in Client, Exit(c) PROVE Lock!Destroyed
  BY <1>4 DEF Exit, clients, Lock!Destroyed
<1>5. CASE ClientsGone
  BY <1>5 DEF ClientsGone, Freed, Lock!Lose
<1>6. CASE Timeout \/ UNCHANGED inputVars
  BY <1>6 DEF Timeout, inputVars, clients
<1> QED
  BY <1>1, <1>2, <1>3, <1>4, <1>5, <1>6 DEF InputNext

\* ptrevent and the library together implement PointerLock: two clients never
\* use the pointer at once.
THEOREM PointerStaysLocked == InputSpec => PointerIsLocked
<1>1. InputInit => Lock!Init
  BY DEF InputInit, Lock!Init
<1> QED
  BY <1>1, InitTypes, NextTypes, NextLocked, PTL DEF InputSpec, PointerIsLocked, Lock!Spec
=============================================================================
