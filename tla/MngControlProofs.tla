-------------------------- MODULE MngControlProofs --------------------------
(***************************************************************************)
(* What holds of MngControl for every number of server objects, ports and  *)
(* requests: its types, with where the threads are, that a switch that is  *)
(* off and drained starts no server thread, and that a server that listens *)
(* and is wanted is left alone.                                            *)
(***************************************************************************)
EXTENDS MngControl, TLAPS

USE DEF Thread

LEMMA InitTypeOK == Init => TypeOK
<1> SUFFICES ASSUME Init PROVE TypeOK
  OBVIOUS
<1> USE MngAssumption DEF Init
<1>1. ObjectsOK
  <2>1. life \in [Server -> Life] /\ keep \in [Server -> BOOLEAN]
    BY DEF Life
  <2>2. socket \in [Server -> Port \cup {"none", "closed"}]
    OBVIOUS
  <2>3. field \in Server \cup {Null} /\ port \in [Server -> AnyPort]
    BY DEF AnyPort
  <2> QED
    BY <2>1, <2>2, <2>3 DEF ObjectsOK
<1>2. DogOK /\ CountsOK
  BY DEF DogOK, CountsOK, AnyPort
<1>5. LooperOK
  <2>1. queue \in Seq(RequestMsg)
    OBVIOUS
  <2> QED
    BY <2>1 DEF LooperOK
<1>3. LocalsOK
  BY DEF LocalsOK, Step, AnyPort
<1>4. CallersOK /\ HandsOK /\ NothingLeftBehind
  BY DEF CallersOK, HandsOK, NothingLeftBehind
<1> QED
  BY <1>1, <1>2, <1>3, <1>4, <1>5 DEF TypeOK

LEMMA RestartTypeOK == ASSUME TypeOK, Restart, faults' \in Nat PROVE TypeOK'
<1> USE MngAssumption DEF Restart
<1>1. ObjectsOK'
  <2>1. life' \in [Server -> Life] /\ keep' \in [Server -> BOOLEAN]
    BY DEF Life
  <2>2. socket' \in [Server -> Port \cup {"none", "closed"}]
    OBVIOUS
  <2>3. field' \in Server \cup {Null} /\ port' \in [Server -> AnyPort]
    BY DEF AnyPort
  <2> QED
    BY <2>1, <2>2, <2>3 DEF ObjectsOK
<1>2. DogOK'
  BY DEF DogOK, AnyPort
<1>6. LooperOK'
  <2>1. queue' \in Seq(RequestMsg)
    OBVIOUS
  <2> QED
    BY <2>1 DEF LooperOK
<1>3. CountsOK'
  BY DEF TypeOK, CountsOK
<1>4. LocalsOK'
  BY DEF LocalsOK, Step, AnyPort
<1>5. CallersOK' /\ HandsOK' /\ NothingLeftBehind'
  BY DEF CallersOK, HandsOK, NothingLeftBehind
<1> QED
  BY <1>1, <1>2, <1>3, <1>4, <1>5, <1>6 DEF TypeOK

LEMMA CrashTypeOK == ASSUME TypeOK, Crash PROVE TypeOK'
BY RestartTypeOK DEF Crash, TypeOK, CountsOK

LEMMA ServerTypeOK == ASSUME TypeOK, NEW s \in Server, ServerStep(s) PROVE TypeOK'
<1> USE DEF TypeOK
<1>1. CASE BindThrows(s)
  BY <1>1, CrashTypeOK DEF BindThrows
<1>2. CASE ~BindThrows(s)
  <2> USE <1>2 DEF ServerStep, Runs
  <2>1. UNCHANGED <<field, port, dog, cached, queue, locals, history, requests>>
    BY DEF Bind, Listen, Loop, AcceptFails, Accept, Served, ServedDies, bounds
  <2>2. faults' \in Nat
    BY DEF Bind, Listen, Loop, AcceptFails, Accept, Served, ServedDies, bounds, Fault, CountsOK
  <2>3. life' \in [Server -> Life] /\ keep' \in [Server -> BOOLEAN]
    BY DEF Bind, Listen, Loop, AcceptFails, Accept, Served, ServedDies, ObjectsOK, Life
  <2>4. socket' \in [Server -> Port \cup {"none", "closed"}]
    BY DEF Bind, Listen, Loop, AcceptFails, Accept, Served, ServedDies, ObjectsOK
  <2>5. ObjectsOK'
    BY <2>1, <2>3, <2>4 DEF ObjectsOK
  <2> QED
    BY <2>1, <2>2, <2>5 DEF DogOK, LooperOK, LocalsOK, CountsOK, CallersOK, HandsOK,
       NothingLeftBehind, dog, locals, history
<1> QED
  BY <1>1, <1>2

LEMMA EnvironmentTypeOK == ASSUME TypeOK, Environment PROVE TypeOK'
<1> USE DEF TypeOK
<1>1. ASSUME NEW what \in {"START", "INIT", "STOP", "HALT", "GET", "FINISH"}, NEW p \in Port,
             Request(what, p)
      PROVE  TypeOK'
  <2>1. LooperOK'
    BY <1>1 DEF Request, LooperOK, RequestMsg
  <2>2. CountsOK'
    BY <1>1 DEF Request, CountsOK, history
  <2>3. DogOK'
    BY <1>1 DEF Request, DogOK
  <2> QED
    BY <1>1, <2>1, <2>2, <2>3 DEF Request, ObjectsOK, LocalsOK, CallersOK, HandsOK,
       NothingLeftBehind, servers, locals
<1>2. CASE JavaKilled
  BY <1>2, RestartTypeOK DEF JavaKilled, Fault, CountsOK
<1> QED
  BY <1>1, <1>2, MngAssumption DEF Environment

\* What Call and Go leave of the steps and the callers of the other thread.
LEMMA CallTypeOK ==
  ASSUME LocalsOK, NEW t \in Thread, NEW step \in Step,
         NEW caller \in {"none", "start", "stop", "poll", "reply", "port"},
         Call(t, step, caller)
  PROVE  /\ pc' \in [Thread -> Step]
         /\ by' \in [Thread -> {"none", "start", "stop", "poll", "reply", "port"}]
         /\ pc'[t] = step /\ by'[t] = caller
         /\ \A u \in Thread \ {t} : pc'[u] = pc[u] /\ by'[u] = by[u]
BY DEF Call, Go, LocalsOK

LEMMA GoTypeOK ==
  ASSUME LocalsOK, NEW t \in Thread, NEW step \in Step, Go(t, step), by' = by
  PROVE  /\ pc' \in [Thread -> Step]
         /\ by' \in [Thread -> {"none", "start", "stop", "poll", "reply", "port"}]
         /\ pc'[t] = step
         /\ \A u \in Thread \ {t} : pc'[u] = pc[u]
BY DEF Go, LocalsOK

LEMMA ServiceTakesTypeOK == ASSUME TypeOK, ServiceTakes PROVE TypeOK'
<1> USE DEF TypeOK
<1> DEFINE msg == Head(queue)
<1>1. msg \in RequestMsg /\ queue' \in Seq(RequestMsg)
  BY DEF ServiceTakes, LooperOK
<1>2. /\ msg.what \in {"START", "STOP", "INIT", "HALT", "GET", "FINISH"} /\ msg.port \in AnyPort
  BY <1>1 DEF RequestMsg, AnyPort
<1>3. /\ job' = msg.what /\ arg' = [arg EXCEPT !["main"] = msg.port]
      /\ pc["main"] = "idle"
      /\ UNCHANGED <<field, servers, wish, wdPort, held, ref, cur, bounds>>
  BY DEF ServiceTakes
<1>11. DogOK'
  BY DEF ServiceTakes, DogOK
<1>4. cached' \in BOOLEAN /\ wanted' \in BOOLEAN
  BY <1>2 DEF ServiceTakes, LooperOK, CountsOK
<1>5. lost' \in BOOLEAN
  <2>1. CASE lost /\ msg.what = "GET"
    BY <2>1 DEF ServiceTakes
  <2>2. CASE ~(lost /\ msg.what = "GET")
    BY <2>2 DEF ServiceTakes
  <2> QED
    BY <2>1, <2>2
<1>6. \/ Call("main", "look", "reply") \/ Call("main", "look", "start")
      \/ Call("main", "set.wish", "none") \/ Call("main", "stop.if", "stop")
  BY <1>2 DEF ServiceTakes
<1>7. /\ pc' \in [Thread -> Step]
      /\ by' \in [Thread -> {"none", "start", "stop", "poll", "reply", "port"}]
      /\ \/ pc'["main"] = "look" /\ by'["main"] \in {"start", "reply"}
         \/ pc'["main"] = "set.wish" /\ by'["main"] = "none"
         \/ pc'["main"] = "stop.if" /\ by'["main"] = "stop"
      /\ pc'["timer"] = pc["timer"] /\ by'["timer"] = by["timer"]
  BY <1>6, CallTypeOK DEF Step
<1>8. LocalsOK' /\ LooperOK' /\ CountsOK'
  BY <1>1, <1>2, <1>3, <1>4, <1>5, <1>7 DEF LocalsOK, LooperOK, CountsOK, bounds
<1>9. CallersOK' /\ HandsOK'
  BY <1>3, <1>7 DEF CallersOK, HandsOK
<1>10. NothingLeftBehind'
  BY <1>2, <1>3, <1>7 DEF NothingLeftBehind
<1> QED
  BY <1>3, <1>8, <1>9, <1>10, <1>11 DEF ObjectsOK, servers

LEMMA SetTypeOK == ASSUME TypeOK, SetWish \/ SetPort PROVE TypeOK'
<1> USE DEF TypeOK
<1>1. CASE SetWish
  <2>1. wish' \in BOOLEAN
    <3>1. CASE job \in {"START", "INIT"}
      BY <1>1, <3>1 DEF SetWish
    <3>2. CASE job \notin {"START", "INIT"}
      BY <1>1, <3>2 DEF SetWish
    <3> QED
      BY <3>1, <3>2
  <2>2. DogOK' /\ held' # {}
    BY <1>1, <2>1 DEF SetWish, DogOK
  <2>3. /\ pc' \in [Thread -> Step] /\ by' = by
        /\ pc["main"] = "set.wish" /\ pc'["main"] = "set.port" /\ pc'["timer"] = pc["timer"]
    BY <1>1, GoTypeOK DEF SetWish, Step
  <2>4. LocalsOK'
    BY <1>1, <2>3 DEF SetWish, LocalsOK
  <2>5. CallersOK' /\ HandsOK'
    BY <1>1, <2>3 DEF SetWish, CallersOK, HandsOK
  <2>6. NothingLeftBehind'
    BY <1>1, <2>2, <2>3 DEF SetWish, NothingLeftBehind
  <2> QED
    BY <1>1, <2>2, <2>4, <2>5, <2>6 DEF SetWish, ObjectsOK, LooperOK, CountsOK,
       servers, history, bounds
<1>2. CASE SetPort
  <2>1. DogOK' /\ held' = {}
    BY <1>2, MngAssumption DEF SetPort, DogOK, LocalsOK, AnyPort
  <2>2. \/ Call("main", "look", "start") /\ job = "START"
        \/ Call("main", "idle", "none") /\ job = "INIT"
        \/ Call("main", "look", "stop") /\ job \notin {"START", "INIT"}
    BY <1>2 DEF SetPort
  <2>3. /\ pc' \in [Thread -> Step] /\ pc["main"] = "set.port"
        /\ by' \in [Thread -> {"none", "start", "stop", "poll", "reply", "port"}]
        /\ \/ pc'["main"] = "look" /\ by'["main"] \in {"start", "stop"} /\ job # "INIT"
           \/ pc'["main"] = "idle" /\ by'["main"] = "none" /\ job = "INIT"
        /\ pc'["timer"] = pc["timer"] /\ by'["timer"] = by["timer"]
    BY <1>2, <2>2, CallTypeOK DEF SetPort, Step
  <2>4. LocalsOK'
    BY <1>2, <2>3 DEF SetPort, LocalsOK
  <2>5. CallersOK' /\ HandsOK'
    BY <1>2, <2>3 DEF SetPort, CallersOK, HandsOK
  <2>6. NothingLeftBehind'
    BY <1>2, <2>1, <2>3 DEF SetPort, NothingLeftBehind
  <2> QED
    BY <1>2, <2>1, <2>4, <2>5, <2>6 DEF SetPort, ObjectsOK, LooperOK, CountsOK,
       servers, history, bounds
<1> QED
  BY <1>1, <1>2

\* A thread moves to a step and a caller that belong together, with nothing
\* in its hands before or after.
LEMMA MoveTypeOK ==
  ASSUME TypeOK, NEW t \in Thread, NEW step \in Step,
         NEW caller \in {"none", "start", "stop", "poll", "reply", "port"},
         Call(t, step, caller),
         \/ step = "idle" /\ caller = "none" /\ t = "timer"
         \/ step = "tick.port" /\ caller = "none" /\ t = "timer"
         \/ step = "look" /\ caller \in {"start", "stop", "poll", "reply"}
         \/ step = "look.keep" /\ caller \in {"start", "stop", "poll", "reply"}
         \/ step \in {"get", "get.new", "get.ref"} /\ caller \in {"start", "port"}
         \/ step = "reply.send" /\ caller = "reply"
         \/ step = "reply.cache" /\ caller = "port"
         \/ step \in {"stop.if", "stop.keep", "stop.clear", "exit"} /\ caller = "stop",
         \/ t = "timer"
         \/ pc[t] \notin {"idle", "set.wish", "set.port", "tick.port"},
         ref'[t] = Null, \A u \in Thread \ {t} : ref'[u] = ref[u],
         UNCHANGED <<job, held>>
  PROVE  /\ pc' \in [Thread -> Step]
         /\ by' \in [Thread -> {"none", "start", "stop", "poll", "reply", "port"}]
         /\ CallersOK' /\ HandsOK' /\ NothingLeftBehind'
<1> USE DEF TypeOK
<1>1. /\ pc' \in [Thread -> Step]
      /\ by' \in [Thread -> {"none", "start", "stop", "poll", "reply", "port"}]
      /\ pc'[t] = step /\ by'[t] = caller
      /\ \A u \in Thread \ {t} : pc'[u] = pc[u] /\ by'[u] = by[u]
  BY CallTypeOK
<1>2. CallersOK'
  BY <1>1 DEF CallersOK
<1>3. HandsOK'
  BY <1>1 DEF HandsOK
<1>4. NothingLeftBehind'
  BY <1>1 DEF NothingLeftBehind
<1> QED
  BY <1>1, <1>2, <1>3, <1>4

LEMMA TimerTypeOK == ASSUME TypeOK, Tick \/ TickPort PROVE TypeOK'
<1> USE DEF TypeOK
<1>1. /\ pc["timer"] \in {"idle", "tick.port"}
      /\ UNCHANGED <<field, servers, dog, cached, queue, job, ref, cur, history, bounds>>
  BY DEF Tick, TickPort
<1>2. \/ Call("timer", "tick.port", "none")
      \/ Call("timer", "look", "stop")
      \/ Call("timer", "look", "start")
  BY DEF Tick, TickPort
<1>3. ref["timer"] = Null
  BY <1>1 DEF HandsOK
<1>4. /\ pc' \in [Thread -> Step]
      /\ by' \in [Thread -> {"none", "start", "stop", "poll", "reply", "port"}]
      /\ CallersOK' /\ HandsOK' /\ NothingLeftBehind'
  BY <1>1, <1>2, <1>3, MoveTypeOK DEF dog, Step
<1>5. arg' \in [Thread -> AnyPort]
  BY DEF Tick, TickPort, LocalsOK, DogOK
<1> QED
  BY <1>1, <1>4, <1>5 DEF ObjectsOK, DogOK, LooperOK, LocalsOK, CountsOK, servers, dog,
     history, bounds

\* The callers of isMngRunning go on.
LEMMA AnswerTypeOK ==
  ASSUME TypeOK, NEW t \in Thread, NEW running \in BOOLEAN, Answer(t, running),
         pc[t] \in {"look", "look.keep"},
         UNCHANGED <<field, servers, dog, cached, queue, job, arg, ref, history, bounds>>
  PROVE  TypeOK'
<1> USE DEF TypeOK
<1>1. ref[t] = Null /\ by[t] \in {"start", "stop", "poll", "reply"}
  BY DEF HandsOK, CallersOK
<1>2. \/ Call(t, "look", "reply") \/ Call(t, "get", "start")
      \/ Call(t, "stop.if", "stop") \/ Call(t, "reply.send", "reply")
  BY <1>1 DEF Answer
<1>3. cur' \in [Thread -> BOOLEAN]
  BY DEF Answer, LocalsOK
<1>4. /\ pc' \in [Thread -> Step]
      /\ by' \in [Thread -> {"none", "start", "stop", "poll", "reply", "port"}]
      /\ CallersOK' /\ HandsOK' /\ NothingLeftBehind'
  BY <1>1, <1>2, MoveTypeOK DEF dog, Step
<1> QED
  BY <1>3, <1>4 DEF ObjectsOK, DogOK, LooperOK, LocalsOK, CountsOK, servers, dog,
     history, bounds

\* The other steps of the two threads that touch no server object.
LEMMA WalkTypeOK ==
  ASSUME TypeOK, NEW t \in Thread, NEW step \in Step,
         NEW caller \in {"none", "start", "stop", "poll", "reply", "port"},
         Call(t, step, caller),
         \/ step \in {"look", "look.keep"} /\ caller \in {"start", "stop", "poll", "reply"}
         \/ step \in {"get", "get.new", "get.ref"} /\ caller \in {"start", "port"}
         \/ step = "reply.cache" /\ caller = "port"
         \/ step \in {"stop.if", "stop.keep", "stop.clear", "exit"} /\ caller = "stop",
         pc[t] \notin {"idle", "set.wish", "set.port", "tick.port"},
         ref'[t] = Null, \A u \in Thread \ {t} : ref'[u] = ref[u],
         ref' \in [Thread -> Server \cup {Null}],
         ObjectsOK',
         UNCHANGED <<dog, cached, queue, job, arg, cur, history, bounds>>
  PROVE  TypeOK'
<1> USE DEF TypeOK
<1>1. /\ pc' \in [Thread -> Step]
      /\ by' \in [Thread -> {"none", "start", "stop", "poll", "reply", "port"}]
      /\ CallersOK' /\ HandsOK' /\ NothingLeftBehind'
  BY MoveTypeOK DEF dog
<1> QED
  BY <1>1 DEF DogOK, LooperOK, LocalsOK, CountsOK, dog, history, bounds

LEMMA GoIsCall ==
  ASSUME LocalsOK, NEW t \in Thread, NEW step, Go(t, step), UNCHANGED by
  PROVE  Call(t, step, by[t])
BY DEF Call, LocalsOK

LEMMA LookTypeOK == ASSUME TypeOK, NEW t \in Thread, Look(t) \/ LookKeep(t) PROVE TypeOK'
<1> USE DEF TypeOK
<1>1. CASE Look(t) /\ field = Null
  BY <1>1, AnswerTypeOK DEF Look
<1>2. CASE LookKeep(t)
  <2>1. keep[field] \in BOOLEAN
    BY <1>2 DEF LookKeep, ObjectsOK
  <2> QED
    BY <1>2, <2>1, AnswerTypeOK DEF LookKeep
<1>3. CASE Look(t) /\ field # Null
  <2>1. ref[t] = Null /\ by[t] \in {"start", "stop", "poll", "reply"}
    BY <1>3 DEF Look, HandsOK, CallersOK
  <2>2. Call(t, "look.keep", by[t])
    BY <1>3, GoIsCall DEF Look
  <2>3. ObjectsOK' /\ ref' \in [Thread -> Server \cup {Null}]
    BY <1>3 DEF Look, ObjectsOK, LocalsOK, servers
  <2> QED
    BY <1>3, <2>1, <2>2, <2>3, WalkTypeOK DEF Look, Step
<1> QED
  BY <1>1, <1>2, <1>3

LEMMA GetTypeOK == ASSUME TypeOK, NEW t \in Thread, Get(t) \/ GetNew(t) PROVE TypeOK'
<1> USE DEF TypeOK
<1>1. /\ ref[t] = Null /\ by[t] \in {"start", "port"} /\ pc[t] \in {"get", "get.new"}
      /\ ref' = ref /\ ref' \in [Thread -> Server \cup {Null}]
      /\ UNCHANGED <<dog, cached, queue, job, arg, cur, history, bounds>>
  BY DEF Get, GetNew, HandsOK, CallersOK, LocalsOK
<1>2. Call(t, "get.new", by[t]) \/ Call(t, "get.ref", by[t])
  BY GoIsCall DEF Get, GetNew
<1>3. ObjectsOK'
  <2>1. CASE Get(t)
    BY <2>1 DEF Get, ObjectsOK, servers
  <2>2. CASE GetNew(t)
    <3> DEFINE s == CHOOSE u \in Unused : TRUE
    <3>1. s \in Server
      BY <2>2 DEF GetNew, Unused
    <3>2. /\ field' = s
          /\ life' = [life EXCEPT ![s] = "new"] /\ keep' = [keep EXCEPT ![s] = FALSE]
          /\ socket' = [socket EXCEPT ![s] = "none"]
          /\ port' = [port EXCEPT ![s] = DefaultPort]
      BY <2>2 DEF GetNew
    <3> HIDE DEF s
    <3>3. DefaultPort \in AnyPort
      BY MngAssumption DEF AnyPort
    <3> QED
      BY <3>1, <3>2, <3>3 DEF ObjectsOK, Life
  <2> QED
    BY <2>1, <2>2
<1> QED
  BY <1>1, <1>2, <1>3, WalkTypeOK DEF Step

\* A thread gets a server into its hands, to start it or to close it.
LEMMA TakeTypeOK ==
  ASSUME TypeOK, NEW t \in Thread, NEW s \in Server,
         \/ Call(t, "start", "start") \/ Call(t, "stop.close", "stop"),
         pc[t] \notin {"idle", "set.wish", "set.port", "tick.port"},
         ref' = [ref EXCEPT ![t] = s], ObjectsOK',
         UNCHANGED <<dog, cached, queue, job, arg, cur, history, bounds>>
  PROVE  TypeOK'
<1> USE DEF TypeOK
<1>1. /\ pc' \in [Thread -> Step]
      /\ by' \in [Thread -> {"none", "start", "stop", "poll", "reply", "port"}]
      /\ \/ pc'[t] = "start" /\ by'[t] = "start"
         \/ pc'[t] = "stop.close" /\ by'[t] = "stop"
      /\ \A u \in Thread \ {t} : pc'[u] = pc[u] /\ by'[u] = by[u]
  BY CallTypeOK DEF Step
<1>2. /\ ref' \in [Thread -> Server \cup {Null}] /\ ref'[t] # Null
      /\ \A u \in Thread \ {t} : ref'[u] = ref[u]
  BY MngAssumption DEF LocalsOK
<1>3. CallersOK'
  BY <1>1 DEF CallersOK
<1>4. HandsOK'
  BY <1>1, <1>2 DEF HandsOK
<1>5. NothingLeftBehind'
  BY <1>1 DEF NothingLeftBehind, dog
<1> QED
  BY <1>1, <1>2, <1>3, <1>4, <1>5 DEF DogOK, LooperOK, LocalsOK, CountsOK, dog, history, bounds

LEMMA GetRefTypeOK == ASSUME TypeOK, NEW t \in Thread, GetRef(t) PROVE TypeOK'
<1> USE DEF TypeOK
<1>1. /\ ref[t] = Null /\ by[t] \in {"start", "port"} /\ pc[t] = "get.ref"
      /\ UNCHANGED <<dog, cached, queue, job, arg, cur, history, bounds>>
      /\ field \in Server
  BY DEF GetRef, HandsOK, CallersOK, ObjectsOK
<1>2. port' \in [Server -> AnyPort]
  BY <1>1 DEF GetRef, ObjectsOK, LocalsOK
<1>3. ObjectsOK'
  BY <1>2 DEF GetRef, ObjectsOK
<1>4. CASE by[t] = "start"
  <2>1. ref' = [ref EXCEPT ![t] = field] /\ Call(t, "start", "start")
    BY <1>4, GoIsCall DEF GetRef
  <2> QED
    BY <1>1, <1>3, <2>1, TakeTypeOK
<1>5. CASE by[t] # "start"
  <2>1. Call(t, "reply.cache", "port") /\ ref' = ref
    BY <1>1, <1>5, GoIsCall DEF GetRef
  <2> QED
    BY <1>1, <1>3, <2>1, WalkTypeOK DEF Step, LocalsOK
<1> QED
  BY <1>4, <1>5

LEMMA StartTypeOK == ASSUME TypeOK, NEW t \in Thread, Start(t) \/ StopClose(t) PROVE TypeOK'
<1> USE DEF TypeOK
<1>1. /\ ref[t] \in Server /\ by[t] \in {"start", "stop"} /\ pc[t] \in {"start", "stop.close"}
      /\ UNCHANGED <<dog, cached, queue, job, arg, cur, history, bounds>>
      /\ ref' = [ref EXCEPT ![t] = Null]
  BY DEF Start, StopClose, HandsOK, CallersOK, LocalsOK
<1>2. Call(t, "look", "poll") \/ Call(t, "stop.clear", "stop")
  BY GoIsCall DEF Start, StopClose, CallersOK
<1>3. ObjectsOK'
  BY <1>1 DEF Start, StopClose, ObjectsOK, Life
<1>4. ref' \in [Thread -> Server \cup {Null}] /\ ref'[t] = Null
  BY <1>1 DEF LocalsOK
<1>5. \A u \in Thread \ {t} : ref'[u] = ref[u]
  BY <1>1 DEF LocalsOK
<1> QED
  BY <1>1, <1>2, <1>3, <1>4, <1>5, WalkTypeOK DEF Step

LEMMA StopTypeOK ==
  ASSUME TypeOK, NEW t \in Thread, StopIf(t) \/ StopKeep(t) \/ StopClear(t) PROVE TypeOK'
<1> USE DEF TypeOK
<1>1. /\ ref[t] = Null /\ by[t] = "stop" /\ pc[t] \in {"stop.if", "stop.keep", "stop.clear"}
      /\ UNCHANGED <<dog, cached, queue, job, arg, cur, history, bounds>>
  BY DEF StopIf, StopKeep, StopClear, HandsOK, CallersOK
<1>2. ObjectsOK'
  BY DEF StopIf, StopKeep, StopClear, ObjectsOK, servers
<1>3. CASE StopKeep(t)
  <2>1. field \in Server /\ ref' = [ref EXCEPT ![t] = field] /\ Call(t, "stop.close", "stop")
    BY <1>1, <1>3, GoIsCall DEF StopKeep, ObjectsOK
  <2> QED
    BY <1>1, <1>2, <2>1, TakeTypeOK
<1>4. CASE StopIf(t) \/ StopClear(t)
  <2>1. /\ ref' = ref
        /\ \/ Call(t, "look", "reply") \/ Call(t, "stop.keep", "stop") \/ Call(t, "exit", "stop")
    BY <1>4 DEF StopIf, StopClear, Stopped
  <2> QED
    BY <1>1, <1>2, <2>1, WalkTypeOK DEF Step, LocalsOK
<1> QED
  BY <1>3, <1>4

LEMMA ReplyTypeOK == ASSUME TypeOK, NEW t \in Thread, ReplySend(t) \/ ReplyCache(t) PROVE TypeOK'
<1> USE DEF TypeOK
<1>1. CASE ReplySend(t)
  <2>1. ref[t] = Null /\ ref' = ref /\ ref' \in [Thread -> Server \cup {Null}]
    BY <1>1 DEF ReplySend, HandsOK, LocalsOK
  <2>2. Call(t, "get", "port") \/ Call(t, "reply.cache", "port")
    BY <1>1 DEF ReplySend
  <2>3. ObjectsOK'
    BY <1>1 DEF ReplySend, ObjectsOK, servers
  <2> QED
    BY <1>1, <2>1, <2>2, <2>3, WalkTypeOK DEF ReplySend, Step
<1>2. CASE ReplyCache(t)
  <2> DEFINE goesOn == t = "main" /\ job = "INIT"
  <2>1. /\ pc' \in [Thread -> Step]
        /\ by' \in [Thread -> {"none", "start", "stop", "poll", "reply", "port"}]
        /\ pc'[t] = (IF goesOn THEN "set.wish" ELSE "idle") /\ by'[t] = "none"
        /\ \A u \in Thread \ {t} : pc'[u] = pc[u] /\ by'[u] = by[u]
    BY <1>2, CallTypeOK DEF ReplyCache, Step
  <2>2. pc[t] = "reply.cache" /\ ref[t] = Null /\ ref' = ref /\ held' = held
    BY <1>2 DEF ReplyCache, HandsOK, dog
  <2>3. job' = IF t = "main" /\ job # "INIT" THEN "none" ELSE job
    BY <1>2 DEF ReplyCache
  <2>4. CallersOK' /\ HandsOK'
    BY <2>1, <2>2 DEF CallersOK, HandsOK
  <2>5. NothingLeftBehind'
    BY <2>1, <2>2, <2>3 DEF NothingLeftBehind
  <2>6. DefaultPort \in AnyPort
    BY MngAssumption DEF AnyPort
  <2>7. arg' \in [Thread -> AnyPort] /\ cur' \in [Thread -> BOOLEAN]
    BY <1>2, <2>6 DEF ReplyCache, LocalsOK
  <2>8. LocalsOK'
    BY <2>1, <2>2, <2>3, <2>7 DEF LocalsOK
  <2>9. LooperOK'
    BY <1>2 DEF ReplyCache, LooperOK, LocalsOK
  <2> QED
    BY <1>2, <2>4, <2>5, <2>8, <2>9 DEF ReplyCache, ObjectsOK, DogOK, CountsOK, servers, dog,
       history, bounds
<1> QED
  BY <1>1, <1>2

LEMMA ThreadTypeOK == ASSUME TypeOK, NEW t \in Thread, ThreadStep(t) PROVE TypeOK'
BY LookTypeOK, GetTypeOK, GetRefTypeOK, StartTypeOK, StopTypeOK, ReplyTypeOK, CrashTypeOK
   DEF ThreadStep, LookThrows, GetThrows, StartThrows, StopThrows

\* Every variable stays in its type, a thread that shares a method with others
\* goes back to its own caller, it holds a server only between getMngServer and
\* start() or inside stopListening, and the main thread frees the monitor.
THEOREM TypesHold == Spec => []TypeOK
<1>1. TypeOK /\ [Next]_vars => TypeOK'
  <2> SUFFICES ASSUME TypeOK, [Next]_vars PROVE TypeOK'
    OBVIOUS
  <2>1. CASE MainStep
    BY <2>1, ServiceTakesTypeOK, SetTypeOK, CrashTypeOK, ThreadTypeOK DEF MainStep, SystemExit
  <2>2. CASE TimerStep
    BY <2>2, TimerTypeOK, ThreadTypeOK DEF TimerStep
  <2>3. CASE \E s \in Server : ServerStep(s)
    BY <2>3, ServerTypeOK
  <2>4. CASE Environment
    BY <2>4, EnvironmentTypeOK
  <2>5. CASE UNCHANGED vars
    BY <2>5 DEF vars, servers, dog, locals, history, bounds, TypeOK, ObjectsOK, DogOK, LooperOK,
       LocalsOK, CountsOK, CallersOK, HandsOK, NothingLeftBehind
  <2> QED
    BY <2>1, <2>2, <2>3, <2>4, <2>5 DEF Next
<1> QED
  BY <1>1, InitTypeOK, PTL DEF Spec

-----------------------------------------------------------------------------
(* The switch that is off.                                                 *)

Off == SettledOff' /\ Alive' \subseteq Alive

LEMMA OffRestart == ASSUME Restart PROVE Off
<1>1. ~wish' /\ job' = "none" /\ queue' = <<>>
  BY DEF Restart
<1>2. \A t \in Thread : pc'[t] = "idle" /\ by'[t] = "none"
  BY DEF Restart
<1>3. \A s \in Server : life'[s] = "new"
  BY DEF Restart
<1> QED
  BY <1>1, <1>2, <1>3 DEF Off, SettledOff, Queued, Starting, Alive

LEMMA OffServer == ASSUME TypeOK, SettledOff, NEW s \in Server, ServerStep(s) PROVE Off
<1>1. CASE BindThrows(s)
  BY <1>1, OffRestart DEF BindThrows, Crash
<1>2. CASE ~BindThrows(s)
  <2> USE <1>2 DEF ServerStep, Runs
  <2>1. UNCHANGED <<dog, queue, locals>>
    BY DEF Bind, Listen, Loop, AcceptFails, Accept, Served, ServedDies
  <2>2. life[s] \notin {"new", "dead"} /\ \A r \in Server \ {s} : life'[r] = life[r]
    BY DEF Bind, Listen, Loop, AcceptFails, Accept, Served, ServedDies, TypeOK, ObjectsOK
  <2>3. SettledOff'
    BY <2>1 DEF SettledOff, Queued, Starting, dog, locals
  <2>4. Alive' \subseteq Alive
    BY <2>2 DEF Alive
  <2> QED
    BY <2>3, <2>4 DEF Off
<1> QED
  BY <1>1, <1>2

LEMMA OffEnvironment ==
  ASSUME TypeOK, SettledOff, Environment, requests' = requests PROVE Off
<1>1. requests + 1 # requests
  BY DEF TypeOK, CountsOK
<1> QED
  BY <1>1, OffRestart DEF Environment, Request, JavaKilled

LEMMA OffServiceTakes == ASSUME TypeOK, SettledOff, ServiceTakes PROVE Off
<1>1. queue # <<>> /\ queue' = Tail(queue) /\ queue \in Seq(RequestMsg)
  BY DEF ServiceTakes, TypeOK, LooperOK
<1>2. job' = Head(queue).what /\ UNCHANGED <<life, wish>>
  BY DEF ServiceTakes, servers, dog
<1>3. job' \notin {"START", "INIT"}
  BY <1>1, <1>2 DEF SettledOff, Queued
<1>4. ~Queued({"START", "INIT"})'
  <2> SUFFICES ASSUME NEW i \in DOMAIN Tail(queue), Tail(queue)[i].what \in {"START", "INIT"}
               PROVE  FALSE
    BY <1>1 DEF Queued
  <2>1. i + 1 \in DOMAIN queue /\ queue[i + 1] = Tail(queue)[i]
    BY <1>1
  <2> QED
    BY <2>1 DEF SettledOff, Queued
<1>5. \/ Call("main", "look", "reply") \/ Call("main", "set.wish", "none")
      \/ Call("main", "stop.if", "stop")
  BY <1>2, <1>3 DEF ServiceTakes
<1>6. ~Starting("main")' /\ ~Starting("timer")'
  BY <1>5, CallTypeOK DEF SettledOff, Starting, TypeOK, Step
<1> QED
  BY <1>2, <1>3, <1>4, <1>6 DEF Off, SettledOff, Alive

LEMMA OffSet == ASSUME TypeOK, SettledOff, SetWish \/ SetPort PROVE Off
<1>1. UNCHANGED <<life, queue>> /\ job' \notin {"START", "INIT"}
  BY DEF SetWish, SetPort, SettledOff, servers
<1>2. ~wish'
  BY DEF SetWish, SetPort, SettledOff
<1>3. \/ Call("main", "set.port", by["main"])
      \/ Call("main", "look", "stop")
  BY GoIsCall DEF SetWish, SetPort, SettledOff, TypeOK
<1>4. by["main"] = "none"
  BY DEF SetWish, SetPort, TypeOK, CallersOK, NothingLeftBehind
<1>5. ~Starting("main")' /\ ~Starting("timer")'
  BY <1>3, <1>4, CallTypeOK DEF SettledOff, Starting, TypeOK, Step
<1> QED
  BY <1>1, <1>2, <1>5 DEF Off, SettledOff, Queued, Alive

LEMMA OffTimer == ASSUME TypeOK, SettledOff, Tick \/ TickPort PROVE Off
<1>1. Tick /\ Call("timer", "look", "stop")
  BY DEF Tick, TickPort, SettledOff, Starting
<1>2. ~Starting("main")' /\ ~Starting("timer")'
  BY <1>1, CallTypeOK DEF SettledOff, Starting, TypeOK, Step
<1> QED
  BY <1>1, <1>2 DEF Tick, Off, SettledOff, Queued, Alive, servers, dog

\* A thread that is not starting a server goes on with another caller than "start".
LEMMA OffWalk ==
  ASSUME TypeOK, SettledOff, NEW t \in Thread, NEW step \in Step \ {"tick.port", "start"},
         NEW caller \in {"none", "stop", "reply", "port"}, Call(t, step, caller),
         job' \in {job, "none"}, UNCHANGED <<wish, queue>>, Alive' \subseteq Alive
  PROVE  Off
<1>1. \A u \in Thread : ~Starting(u)'
  BY CallTypeOK DEF SettledOff, Starting, TypeOK
<1> QED
  BY <1>1 DEF Off, SettledOff, Queued

\* The only way out of "poll" and of a start that is no longer one.
LEMMA OffAnswer ==
  ASSUME TypeOK, SettledOff, NEW t \in Thread, NEW running \in BOOLEAN, Answer(t, running),
         pc[t] \in {"look", "look.keep"}, UNCHANGED <<job, wish, queue, life>>
  PROVE  Off
<1>1. by[t] \in {"stop", "poll", "reply"}
  BY DEF SettledOff, Starting, TypeOK, CallersOK
<1>2. \/ Call(t, "look", "reply") \/ Call(t, "stop.if", "stop")
      \/ Call(t, "reply.send", "reply")
  BY <1>1 DEF Answer
<1> QED
  BY <1>2, OffWalk DEF Step, Alive

LEMMA OffThread == ASSUME TypeOK, SettledOff, NEW t \in Thread, ThreadStep(t) PROVE Off
<1> USE DEF servers, dog
<1>1. by[t] # "start" \/ pc[t] = "reply.cache"
  BY DEF SettledOff, Starting
<1>2. CASE LookThrows(t) \/ GetThrows(t) \/ StartThrows(t) \/ StopThrows(t)
  BY <1>2, OffRestart DEF LookThrows, GetThrows, StartThrows, StopThrows, Crash
<1>3. CASE Look(t) /\ field = Null
  BY <1>3, OffAnswer DEF Look
<1>4. CASE LookKeep(t)
  BY <1>4, OffAnswer DEF LookKeep, TypeOK, ObjectsOK
<1>5. CASE Look(t) /\ field # Null
  <2>1. Call(t, "look.keep", by[t]) /\ by[t] \in {"stop", "poll", "reply"}
    BY <1>1, <1>5, GoIsCall DEF Look, TypeOK, CallersOK
  <2>2. \A u \in Thread : ~Starting(u)'
    BY <2>1, CallTypeOK DEF SettledOff, Starting, TypeOK, Step
  <2> QED
    BY <1>5, <2>2 DEF Look, Off, SettledOff, Queued, Alive
<1>6. CASE Get(t) \/ GetNew(t) \/ GetRef(t)
  <2>1. by[t] = "port"
    BY <1>1, <1>6 DEF Get, GetNew, GetRef, TypeOK, CallersOK
  <2>2. \/ Call(t, "get.new", "port") \/ Call(t, "get.ref", "port")
        \/ Call(t, "reply.cache", "port")
    BY <1>6, <2>1, GoIsCall DEF Get, GetNew, GetRef, TypeOK
  <2>3. Alive' \subseteq Alive
    BY <1>6 DEF Get, GetNew, GetRef, Alive, TypeOK, ObjectsOK
  <2>4. UNCHANGED <<wish, queue, job>>
    BY <1>6 DEF Get, GetNew, GetRef
  <2> QED
    BY <2>2, <2>3, <2>4, OffWalk DEF Step
<1>7. ~Start(t)
  BY DEF Start, SettledOff, Starting
<1>8. CASE StopIf(t) \/ StopKeep(t) \/ StopClose(t) \/ StopClear(t)
  <2>1. by[t] = "stop" /\ UNCHANGED <<wish, queue, job, life>>
    BY <1>8 DEF StopIf, StopKeep, StopClose, StopClear, TypeOK, CallersOK
  <2>2. \/ Call(t, "look", "reply") \/ Call(t, "stop.keep", "stop")
        \/ Call(t, "stop.close", "stop") \/ Call(t, "stop.clear", "stop")
        \/ Call(t, "exit", "stop")
    BY <1>8, <2>1, GoIsCall DEF StopIf, StopKeep, StopClose, StopClear, Stopped, TypeOK
  <2> QED
    BY <2>1, <2>2, OffWalk DEF Step, Alive
<1>9. CASE ReplySend(t) \/ ReplyCache(t)
  <2>1. /\ UNCHANGED <<wish, queue, life>> /\ job' \in {job, "none"}
        /\ \/ Call(t, "get", "port") \/ Call(t, "reply.cache", "port")
           \/ Call(t, "set.wish", "none") \/ Call(t, "idle", "none")
    BY <1>9 DEF ReplySend, ReplyCache
  <2> QED
    BY <2>1, OffWalk DEF Step, Alive
<1> QED
  BY <1>2, <1>3, <1>4, <1>5, <1>6, <1>7, <1>8, <1>9 DEF ThreadStep

\* A switch that is off and drained stays so and starts no server thread,
\* whatever the two threads, the servers' own threads, exceptions and faults do.
THEOREM OffHolds == Spec => NothingStartsUnasked
<1>1. TypeOK /\ [Next]_vars
      => [SettledOff /\ requests' = requests => SettledOff' /\ Alive' \subseteq Alive]_vars
  <2> SUFFICES ASSUME TypeOK, [Next]_vars, SettledOff, requests' = requests, ~UNCHANGED vars
               PROVE  Off
    BY DEF Off
  <2>1. CASE MainStep
    BY <2>1, OffServiceTakes, OffSet, OffRestart, OffThread DEF MainStep, SystemExit, Crash
  <2>2. CASE TimerStep
    BY <2>2, OffTimer, OffThread DEF TimerStep
  <2>3. CASE \E s \in Server : ServerStep(s)
    BY <2>3, OffServer
  <2>4. CASE Environment
    BY <2>4, OffEnvironment
  <2> QED
    BY <2>1, <2>2, <2>3, <2>4 DEF Next
<1> QED
  BY <1>1, TypesHold, PTL DEF Spec, NothingStartsUnasked

-----------------------------------------------------------------------------
(* The server that is wanted and listens.  The main thread works through   *)
(* setToRestartMng only for a request that says which way, since a question *)
(* goes straight to the reply, and it ends the process for "Stop all" only.  *)

Directed ==
  /\ pc["main"] \in {"set.wish", "set.port"} => job \notin {"GET", "FINISH"}
  /\ pc["main"] = "exit" => job = "FINISH"

LEMMA ThreadDirected ==
  ASSUME TypeOK, Directed, NEW t \in Thread, ThreadStep(t) PROVE Directed'
<1> USE DEF Directed, TypeOK, LocalsOK, Go
<1>1. CASE LookThrows(t) \/ GetThrows(t) \/ StartThrows(t) \/ StopThrows(t)
  BY <1>1 DEF LookThrows, GetThrows, StartThrows, StopThrows, Crash, Restart
<1>2. CASE Look(t) \/ LookKeep(t)
  BY <1>2 DEF Look, LookKeep, Answer, Call, CallersOK
<1>3. CASE Get(t) \/ GetNew(t) \/ GetRef(t)
  BY <1>3 DEF Get, GetNew, GetRef
<1>4. CASE Start(t) \/ StopIf(t) \/ StopKeep(t) \/ StopClose(t) \/ StopClear(t) \/ ReplySend(t)
  BY <1>4 DEF Start, StopIf, StopKeep, StopClose, StopClear, Stopped, ReplySend, Call
<1>5. CASE ReplyCache(t)
  BY <1>5 DEF ReplyCache, Call
<1> QED
  BY <1>1, <1>2, <1>3, <1>4, <1>5 DEF ThreadStep

LEMMA IsDirected == Spec => []Directed
<1>1. Init => Directed
  BY DEF Init, Directed
<1>2. TypeOK /\ Directed /\ [Next]_vars => Directed'
  <2> SUFFICES ASSUME TypeOK, Directed, [Next]_vars PROVE Directed'
    OBVIOUS
  <2> USE DEF Directed, locals
  <2>1. ASSUME NEW t \in Thread, ThreadStep(t) PROVE Directed'
    BY <2>1, ThreadDirected
  <2>2. CASE ServiceTakes \/ SetWish \/ SetPort \/ SystemExit
    BY <2>2 DEF ServiceTakes, SetWish, SetPort, SystemExit, Crash, Restart, Call, Go, TypeOK, LocalsOK
  <2>3. CASE Tick \/ TickPort
    BY <2>3 DEF Tick, TickPort, Call, Go, TypeOK, LocalsOK
  <2>4. CASE \E s \in Server : ServerStep(s)
    BY <2>4 DEF ServerStep, Runs, Bind, BindThrows, Listen, Loop, AcceptFails, Accept, Served,
       ServedDies, Crash, Restart
  <2>5. CASE Environment \/ UNCHANGED vars
    BY <2>5 DEF Environment, Request, JavaKilled, Restart, vars
  <2> QED
    BY <2>1, <2>2, <2>3, <2>4, <2>5 DEF Next, MainStep, TimerStep
<1> QED
  BY <1>1, <1>2, TypesHold, PTL DEF Spec

On == SettledOn' /\ field' = field

LEMMA OnServer ==
  ASSUME TypeOK, SettledOn, NEW s \in Server, ServerStep(s), faults' = faults PROVE On
<1> USE DEF SettledOn, TypeOK, ObjectsOK
<1>1. ~Bind(s) /\ ~BindThrows(s) /\ ~ServedDies(s)
  BY DEF Bind, BindThrows, ServedDies, Fault, CountsOK
<1>2. CASE Listen(s)
  BY <1>2 DEF Listen, On, Open, Queued, Stopping, Creating, dog, locals
<1>3. CASE AcceptFails(s)
  <2>1. s # field
    BY <1>3, MngAssumption DEF AcceptFails, Open
  <2> QED
    BY <1>3, <2>1 DEF AcceptFails, On, Open, Queued, Stopping, Creating, dog, locals
<1>4. CASE Loop(s) \/ Accept(s) \/ Served(s)
  BY <1>4 DEF Loop, Accept, Served, On, Open, Queued, Stopping, Creating, dog, locals
<1> QED
  BY <1>1, <1>2, <1>3, <1>4 DEF ServerStep, Runs

LEMMA OnEnvironment ==
  ASSUME TypeOK, SettledOn, Environment, requests' = requests, faults' = faults PROVE On
<1>1. requests + 1 # requests /\ faults + 1 # faults
  BY DEF TypeOK, CountsOK
<1> QED
  BY <1>1 DEF Environment, Request, JavaKilled, Fault

\* A thread that goes on neither to stop a server nor to make one.
LEMMA OnWalk ==
  ASSUME TypeOK, SettledOn, NEW t \in Thread, NEW step \in Step \ {"get.new", "start"},
         NEW caller \in {"none", "start", "poll", "reply", "port"}, Call(t, step, caller),
         caller = "start" => step \notin {"get", "get.ref"},
         job' \notin {"STOP", "HALT", "FINISH"}, ~Queued({"STOP", "HALT", "FINISH"})', wish',
         UNCHANGED <<field, servers>>
  PROVE  On
<1>1. \A u \in Thread : ~Stopping(u)' /\ ~Creating(u)'
  BY CallTypeOK DEF SettledOn, Stopping, Creating, TypeOK
<1> QED
  BY <1>1 DEF On, SettledOn, Open, servers

LEMMA OnServiceTakes == ASSUME TypeOK, SettledOn, ServiceTakes PROVE On
<1>1. queue # <<>> /\ queue' = Tail(queue) /\ queue \in Seq(RequestMsg)
  BY DEF ServiceTakes, TypeOK, LooperOK
<1>2. job' = Head(queue).what /\ UNCHANGED <<field, servers, wish>>
  BY DEF ServiceTakes
<1>3. job' \notin {"STOP", "HALT", "FINISH"}
  BY <1>1, <1>2 DEF SettledOn, Queued
<1>4. ~Queued({"STOP", "HALT", "FINISH"})'
  <2> SUFFICES ASSUME NEW i \in DOMAIN Tail(queue), Tail(queue)[i].what \in {"STOP", "HALT", "FINISH"}
               PROVE  FALSE
    BY <1>1 DEF Queued
  <2>1. i + 1 \in DOMAIN queue /\ queue[i + 1] = Tail(queue)[i]
    BY <1>1
  <2> QED
    BY <2>1 DEF SettledOn, Queued
<1>5. \/ Call("main", "look", "reply") \/ Call("main", "look", "start")
      \/ Call("main", "set.wish", "none")
  BY <1>2, <1>3 DEF ServiceTakes
<1>6. wish'
  BY <1>2 DEF SettledOn
<1> QED
  BY <1>2, <1>3, <1>4, <1>5, <1>6, OnWalk DEF Step

LEMMA OnSet == ASSUME TypeOK, Directed, SettledOn, SetWish \/ SetPort PROVE On
<1>1. job \in {"START", "INIT"} /\ by["main"] = "none"
  BY DEF SetWish, SetPort, Directed, SettledOn, TypeOK, LocalsOK, CallersOK, NothingLeftBehind
<1>2. wish' /\ UNCHANGED <<field, servers, queue>> /\ job' \in {job, "none"}
  BY <1>1 DEF SetWish, SetPort, SettledOn
<1>3. \/ Call("main", "set.port", "none") \/ Call("main", "look", "start")
      \/ Call("main", "idle", "none")
  BY <1>1, GoIsCall DEF SetWish, SetPort, TypeOK
<1>4. ~Queued({"STOP", "HALT", "FINISH"})' /\ job' \notin {"STOP", "HALT", "FINISH"}
  BY <1>1, <1>2 DEF SettledOn, Queued
<1> QED
  BY <1>2, <1>3, <1>4, OnWalk DEF Step

LEMMA OnExit == ASSUME Directed, SettledOn, SystemExit PROVE FALSE
BY DEF SystemExit, Directed, SettledOn

LEMMA OnTimer == ASSUME TypeOK, SettledOn, Tick \/ TickPort PROVE On
<1>1. Call("timer", "tick.port", "none") \/ Call("timer", "look", "start")
  BY DEF Tick, TickPort, SettledOn
<1>2. UNCHANGED <<field, servers, wish, queue, job>>
  BY DEF Tick, TickPort, dog
<1>3. wish' /\ ~Queued({"STOP", "HALT", "FINISH"})' /\ job' \notin {"STOP", "HALT", "FINISH"}
  BY <1>2 DEF SettledOn, Queued
<1> QED
  BY <1>1, <1>2, <1>3, OnWalk DEF Step

LEMMA OnThread ==
  ASSUME TypeOK, SettledOn, NEW t \in Thread, ThreadStep(t) PROVE On
<1>1. by[t] # "stop" /\ ~Creating(t) /\ field # Null /\ keep[field]
  BY DEF SettledOn, Stopping
<1>2. /\ ~LookThrows(t) /\ ~GetThrows(t) /\ ~StartThrows(t) /\ ~StopThrows(t)
      /\ ~GetNew(t) /\ ~Start(t)
      /\ ~StopIf(t) /\ ~StopKeep(t) /\ ~StopClose(t) /\ ~StopClear(t)
  BY <1>1 DEF LookThrows, GetThrows, StartThrows, StopThrows, GetNew, Start, StopIf, StopKeep,
     StopClose, StopClear, Creating, TypeOK, CallersOK
<1>3. ASSUME NEW step \in Step \ {"get.new", "start"},
             NEW caller \in {"none", "start", "poll", "reply", "port"}, Call(t, step, caller),
             caller = "start" => step \notin {"get", "get.ref"},
             job' \in {job, "none"}, UNCHANGED <<field, servers, wish, queue>>
      PROVE  On
  <2>1. wish' /\ ~Queued({"STOP", "HALT", "FINISH"})' /\ job' \notin {"STOP", "HALT", "FINISH"}
    BY <1>3 DEF SettledOn, Queued
  <2> QED
    BY <1>3, <2>1, OnWalk
<1>4. CASE Look(t)
  <2>1. Call(t, "look.keep", by[t]) /\ by[t] \in {"start", "poll", "reply"}
    BY <1>1, <1>4, GoIsCall DEF Look, TypeOK, CallersOK
  <2> QED
    BY <1>3, <1>4, <2>1 DEF Look, Step, dog
<1>5. CASE LookKeep(t)
  <2>1. Answer(t, TRUE) /\ by[t] \in {"start", "poll", "reply"}
    BY <1>1, <1>5 DEF LookKeep, TypeOK, ObjectsOK, CallersOK
  <2>2. Call(t, "look", "reply") \/ Call(t, "reply.send", "reply")
    BY <2>1 DEF Answer
  <2> QED
    BY <1>3, <1>5, <2>2 DEF LookKeep, Step, dog
<1>6. CASE Get(t) \/ GetRef(t)
  <2>1. by[t] = "port"
    BY <1>1, <1>6 DEF Get, GetRef, Creating, TypeOK, CallersOK
  <2>2. Call(t, "get.ref", "port") \/ Call(t, "reply.cache", "port")
    BY <1>1, <1>6, <2>1, GoIsCall DEF Get, GetRef, TypeOK
  <2>3. UNCHANGED <<field, servers, wish, queue, job>>
    BY <1>6, <2>1 DEF Get, GetRef, servers, dog
  <2> QED
    BY <1>3, <2>2, <2>3 DEF Step
<1>7. CASE ReplySend(t) \/ ReplyCache(t)
  <2>1. /\ UNCHANGED <<field, servers, wish, queue>> /\ job' \in {job, "none"}
        /\ \/ Call(t, "get", "port") \/ Call(t, "reply.cache", "port")
           \/ Call(t, "set.wish", "none") \/ Call(t, "idle", "none")
    BY <1>7 DEF ReplySend, ReplyCache, dog
  <2> QED
    BY <1>3, <2>1 DEF Step
<1> QED
  BY <1>2, <1>4, <1>5, <1>6, <1>7 DEF ThreadStep

\* A server that listens, is wanted and whose state nobody acts on late keeps
\* its place and its socket, whatever the ticks, the replies, the clients and
\* the requests to start it again do (tryStartMng looks before it starts).
THEOREM HealthyHolds == Spec => HealthyServerIsLeftAlone
<1>1. TypeOK /\ Directed /\ [Next]_vars
      => [SettledOn /\ requests' = requests /\ faults' = faults
            => SettledOn' /\ field' = field]_vars
  <2> SUFFICES ASSUME TypeOK, Directed, [Next]_vars, SettledOn, requests' = requests,
                      faults' = faults, ~UNCHANGED vars
               PROVE  On
    BY DEF On
  <2>1. CASE MainStep
    BY <2>1, OnServiceTakes, OnSet, OnExit, OnThread DEF MainStep
  <2>2. CASE TimerStep
    BY <2>2, OnTimer, OnThread DEF TimerStep
  <2>3. CASE \E s \in Server : ServerStep(s)
    BY <2>3, OnServer
  <2>4. CASE Environment
    BY <2>4, OnEnvironment
  <2> QED
    BY <2>1, <2>2, <2>3, <2>4 DEF Next
<1> QED
  BY <1>1, TypesHold, IsDirected, PTL DEF Spec, HealthyServerIsLeftAlone
=============================================================================
