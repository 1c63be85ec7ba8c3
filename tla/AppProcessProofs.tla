-------------------------- MODULE AppProcessProofs --------------------------
(***************************************************************************)
(* What holds of the app's process and the native server for any clients,  *)
(* any number of descriptors and any version of the package: types, what   *)
(* leaks, what is installed, what makes the app fall, and whom the         *)
(* notification names.                                                     *)
(***************************************************************************)
EXTENDS AppProcess, FiniteSetTheorems, SequenceTheorems, TLAPS

Messages == Viewers \cup {"DISCONNECTED", "CLIP", "nothing"}

InstallOK ==
  /\ package \in 1 .. MaxVersion /\ lastRun \in 0 .. package /\ binary \in 0 .. package
  /\ app \in {"down", "first", "copied", "up"} /\ native \in 0 .. package

\* A message under way has a descriptor.
ServerOK ==
  /\ clients \subseteq Viewers /\ IsFiniteSet(clients)
  /\ sending \in Viewers \cup {"DISCONNECTED", "CLIP", None}
  /\ leaked \in 0 .. Limit /\ lost \in Nat
  /\ sending # None => leaked < Limit

InboxOK == inbox \in Seq(Messages) /\ Len(inbox) <= Backlog

\* The one that is served is the first of the queue.
ManagerOK ==
  /\ mng \in {"off", "accept", "serve", "ended"} /\ queue \in Seq(Managers)
  /\ asked \in [Managers -> Operations \cup {None, "gone"}] /\ sessions \subseteq Managers
  /\ mng = "serve" => queue # <<>>

OtherOK ==
  /\ notice \in Viewers \cup Managers \cup {None}
  /\ killers \in Nat /\ events \in 0 .. MaxEvents

FlagsOK == disturbed \in BOOLEAN /\ cut \in BOOLEAN /\ torn \in BOOLEAN

Types == InstallOK /\ ServerOK /\ InboxOK /\ ManagerOK /\ OtherOK /\ FlagsOK

-----------------------------------------------------------------------------
(* Sequences.                                                              *)

\* RemoveAt(s, 1) is the rest of the sequence.
LEMMA Rest_Tail ==
  ASSUME NEW S, NEW s \in Seq(S), s # <<>>
  PROVE  /\ RemoveAt(s, 1) \in Seq(S)
         /\ Len(RemoveAt(s, 1)) = Len(s) - 1
         /\ \A i \in 1 .. Len(s) - 1 : RemoveAt(s, 1)[i] = s[i + 1]
<1>1. SubSeq(s, 1, 1 - 1) = <<>>
  BY SubSeqEmpty
<1>2. SubSeq(s, 1 + 1, Len(s)) = Tail(s)
  BY TailIsSubSeq
<1>3. /\ Tail(s) \in Seq(S) /\ Len(Tail(s)) = Len(s) - 1
      /\ \A i \in 1 .. Len(Tail(s)) : Tail(s)[i] = s[i + 1]
  BY HeadTailProperties
<1>4. <<>> \o Tail(s) = Tail(s)
  BY <1>3, ConcatEmptySeq
<1> QED
  BY <1>1, <1>2, <1>3, <1>4 DEF RemoveAt

\* Append(Front(s), e) is the sequence with another last element.
LEMMA Last_Changed ==
  ASSUME NEW S, NEW s \in Seq(S), NEW e \in S, s # <<>>
  PROVE  /\ Append(Front(s), e) \in Seq(S)
         /\ Len(Append(Front(s), e)) = Len(s)
         /\ Append(Front(s), e)[Len(s)] = e
         /\ \A i \in 1 .. Len(s) - 1 : Append(Front(s), e)[i] = s[i]
<1> DEFINE n == Len(s) - 1
<1>1. Len(s) \in Nat \ {0} /\ n \in Nat
  BY EmptySeq
<1>2. \A i \in 1 .. n : s[i] \in S
  BY <1>1, ElementOfSeq
<1>3. /\ SubSeq(s, 1, n) \in Seq(S)
      /\ Len(SubSeq(s, 1, n)) = IF 1 <= n THEN n - 1 + 1 ELSE 0
      /\ \A i \in 1 .. n - 1 + 1 : SubSeq(s, 1, n)[i] = s[1 + i - 1]
  <2> HIDE DEF n
  <2> QED BY <1>1, <1>2, SubSeqProperties
<1>4. Front(s) = SubSeq(s, 1, n)
  BY DEF Front
<1>5. Front(s) \in Seq(S) /\ Len(Front(s)) = n /\ \A i \in 1 .. n : Front(s)[i] = s[i]
  <2> HIDE DEF n
  <2>1. \A i \in 1 .. n : 1 + i - 1 = i /\ i \in 1 .. n - 1 + 1
    BY <1>1
  <2> QED
    BY <1>1, <1>3, <1>4, <2>1
<1> QED
  BY <1>1, <1>5, AppendProperties

-----------------------------------------------------------------------------
(* Types.                                                                  *)

LEMMA Bounds == /\ Limit \in Nat \ {0} /\ Backlog \in Nat \ {0} /\ MaxVersion \in Nat \ {0}
                /\ MaxEvents \in Nat /\ None \notin Viewers \cup Managers /\ "nothing" \notin Viewers
                /\ "DISCONNECTED" \notin Viewers /\ None \notin {"DISCONNECTED", "CLIP"}
BY AppProcessAssumption DEF AppProcessAssumption

LEMMA InitTypes == Init => Types
<1> SUFFICES ASSUME Init PROVE Types
  OBVIOUS
<1>0. InstallOK
  BY Bounds DEF Init, InstallOK
<1>1. InboxOK
  BY Bounds, EmptySeq DEF Init, InboxOK
<1>2. ServerOK
  BY Bounds, FS_EmptySet DEF Init, ServerOK
<1>3. ManagerOK
  BY EmptySeq DEF Init, ManagerOK
<1>4. OtherOK
  BY Bounds DEF Init, OtherOK
<1>5. FlagsOK
  BY DEF Init, FlagsOK
<1> QED
  BY <1>0, <1>1, <1>2, <1>3, <1>4, <1>5 DEF Types

\* What a message does to the server and to the connections that wait.
LEMMA SendingTypes ==
  ASSUME ServerOK, InboxOK, FlagsOK,
         NEW c, c \subseteq Viewers, IsFiniteSet(c),
         NEW message \in Viewers \cup {"DISCONNECTED", "CLIP"}, sending = None,
         send_remote_msg(message, c)
  PROVE  ServerOK' /\ InboxOK' /\ (native' = 0 \/ native' = native)
         /\ disturbed' \in BOOLEAN /\ cut' \in BOOLEAN
<1>1. Cardinality(c) \in Nat
  BY FS_CardinalityType
<1>2. CASE Full(c)
  <2>1. Ends /\ UNCHANGED inbox
    BY <1>2 DEF send_remote_msg
  <2>2. disturbed' \in BOOLEAN /\ cut' \in BOOLEAN
    BY <2>1 DEF Ends
  <2> QED
    BY <2>1, <2>2, FS_EmptySet, Bounds DEF Ends, ServerOK, InboxOK
<1>3. CASE ~Full(c) /\ app # "up"
  <2>1. /\ leaked' = leaked + 1 /\ lost' = lost + 1 /\ clients' = c
        /\ UNCHANGED <<native, sending, inbox, past>>
    BY <1>3 DEF send_remote_msg
  <2>2. disturbed' \in BOOLEAN /\ cut' \in BOOLEAN
    BY <2>1 DEF FlagsOK, past
  <2> QED
    BY <1>1, <1>3, <2>1, <2>2, Bounds DEF Full, ServerOK, InboxOK
<1>4. CASE ~Full(c) /\ app = "up"
  <2>1. /\ inbox' = Append(inbox, "nothing") /\ Len(inbox) < Backlog
        /\ sending' = message /\ clients' = c /\ UNCHANGED <<native, leaked, lost, past>>
    BY <1>4 DEF send_remote_msg
  <2>2. InboxOK'
    BY <2>1, Bounds, AppendProperties, LenProperties DEF InboxOK, Messages
  <2>3. ServerOK'
    BY <1>1, <1>4, <2>1, Bounds DEF Full, ServerOK
  <2> QED
    BY <2>1, <2>2, <2>3 DEF FlagsOK, past
<1> QED
  BY <1>2, <1>3, <1>4

LEMMA HookTypes ==
  ASSUME Types, NEW v \in Viewers, clientHook(v) \/ clientGone(v) \/ CutText(v)
  PROVE  Types'
<1>1. PICK c \in SUBSET Viewers, message \in Viewers \cup {"DISCONNECTED", "CLIP"} :
        IsFiniteSet(c) /\ send_remote_msg(message, c)
  <2>1. CASE clientHook(v)
    BY <2>1, FS_AddElement DEF clientHook, Types, ServerOK
  <2>2. CASE clientGone(v)
    BY <2>2, FS_RemoveElement DEF clientGone, Types, ServerOK
  <2>3. CASE CutText(v)
    BY <2>3 DEF CutText, Types, ServerOK
  <2> QED
    BY <2>1, <2>2, <2>3
<1>2. sending = None /\ Rest /\ events' \in {events, events + 1} /\ (events' = events \/ events < MaxEvents)
  BY DEF clientHook, clientGone, CutText, Outside
<1>3. ServerOK' /\ InboxOK' /\ (native' = 0 \/ native' = native)
         /\ disturbed' \in BOOLEAN /\ cut' \in BOOLEAN
  BY <1>1, <1>2, SendingTypes DEF Types
<1>4. InstallOK' /\ OtherOK' /\ FlagsOK'
  BY <1>2, <1>3, Bounds DEF Types, Rest, installed, InstallOK, OtherOK, FlagsOK
<1>5. ManagerOK'
  BY <1>2 DEF Types, Rest, manager, ManagerOK
<1> QED
  BY <1>3, <1>4, <1>5 DEF Types

LEMMA SendTypes == ASSUME Types, Send PROVE Types'
<1>1. /\ sending # None /\ sending' = None /\ Rest
      /\ UNCHANGED <<native, clients, past, events>>
  BY DEF Send
<1>2. ASSUME inbox # <<>>, Last(inbox) = "nothing" PROVE ServerOK' /\ InboxOK'
  <2>1. inbox' = Append(Front(inbox), sending) /\ UNCHANGED <<leaked, lost>>
    BY <1>2 DEF Send, Written, Close
  <2>2. InboxOK'
    <3>1. sending \in Messages
      BY <1>1 DEF Types, ServerOK, Messages
    <3> QED
      BY <1>2, <2>1, <3>1, Last_Changed DEF Types, InboxOK
  <2>3. ServerOK'
    BY <1>1, <2>1 DEF Types, ServerOK
  <2> QED
    BY <2>2, <2>3
<1>3. ASSUME ~(inbox # <<>> /\ Last(inbox) = "nothing") PROVE ServerOK' /\ InboxOK'
  <2>1. leaked' = leaked + 1 /\ lost' = lost + 1 /\ UNCHANGED inbox
    BY <1>3 DEF Send
  <2>2. ServerOK'
    BY <1>1, <2>1, Bounds DEF Types, ServerOK
  <2> QED
    BY <2>1, <2>2 DEF Types, InboxOK
<1>4. InstallOK' /\ OtherOK'
  BY <1>1 DEF Types, Rest, installed, InstallOK, OtherOK
<1>5. ManagerOK' /\ FlagsOK'
  BY <1>1 DEF Types, Rest, installed, manager, past, ManagerOK, FlagsOK
<1> QED
  BY <1>2, <1>3, <1>4, <1>5 DEF Types

\* Its end leaves a server without clients.
LEMMA EndsTypes ==
  ASSUME Types, Ends
  PROVE  ServerOK' /\ native' = 0 /\ disturbed' \in BOOLEAN /\ cut' \in BOOLEAN
<1>1. disturbed' \in BOOLEAN /\ cut' \in BOOLEAN
  BY DEF Ends
<1> QED
  BY <1>1, FS_EmptySet, Bounds DEF Ends, ServerOK

LEMMA NativeTypes ==
  ASSUME Types, startVncServer \/ stopVncServer \/ Killall \/ NativeIsKilled
  PROVE  Types'
<1>1. CASE startVncServer
  <2>1. native' = binary /\ UNCHANGED <<clients, sending, leaked, lost, inbox, past, events>> /\ Rest
    BY <1>1 DEF startVncServer
  <2>2. FlagsOK'
    BY <2>1 DEF Rest, installed, past, Types, FlagsOK
  <2>3. InstallOK' /\ ServerOK' /\ InboxOK'
    BY <2>1 DEF Rest, installed, Types, InstallOK, ServerOK, InboxOK
  <2>4. ManagerOK' /\ OtherOK'
    BY <2>1 DEF Rest, manager, Types, ManagerOK, OtherOK
  <2> QED
    BY <2>2, <2>3, <2>4 DEF Types
<1>2. CASE stopVncServer
  <2>1. /\ killers' = 1 /\ notice' = None /\ disturbed' = TRUE
        /\ UNCHANGED <<app, installed, server, manager, inbox, events, cut>>
    BY <1>2 DEF stopVncServer
  <2>2. FlagsOK'
    BY <2>1 DEF installed, Types, FlagsOK
  <2>3. InstallOK' /\ ServerOK' /\ InboxOK'
    BY <2>1 DEF installed, server, Types, InstallOK, ServerOK, InboxOK
  <2>4. ManagerOK' /\ OtherOK'
    BY <2>1 DEF manager, Types, ManagerOK, OtherOK
  <2> QED
    BY <2>2, <2>3, <2>4 DEF Types
<1>3. CASE Killall \/ NativeIsKilled
  <2>1. Ends /\ UNCHANGED <<app, installed, inbox, notice, manager>>
    BY <1>3 DEF Killall, NativeIsKilled
  <2>2. ServerOK' /\ native' = 0 /\ disturbed' \in BOOLEAN /\ cut' \in BOOLEAN
    BY <2>1, EndsTypes
  <2>3. OtherOK'
    BY <1>3, <2>1, Bounds DEF Killall, NativeIsKilled, Outside, Types, OtherOK
  <2>4. InstallOK' /\ InboxOK'
    BY <2>1, <2>2, Bounds DEF installed, Types, InstallOK, InboxOK
  <2>5. ManagerOK' /\ FlagsOK'
    BY <2>1, <2>2 DEF installed, manager, Types, ManagerOK, FlagsOK
  <2> QED
    BY <2>2, <2>3, <2>4, <2>5 DEF Types
<1> QED
  BY <1>1, <1>2, <1>3

\* The end of the app leaves neither connections nor managers.
LEMMA FallsTypes ==
  ASSUME Types, Falls
  PROVE  InboxOK' /\ ManagerOK' /\ disturbed' \in BOOLEAN /\ torn' \in BOOLEAN /\ app' = "down"
<1>1. InboxOK' /\ app' = "down"
  BY EmptySeq, Bounds DEF Falls, InboxOK
<1>2. ManagerOK'
  BY EmptySeq DEF Falls, ManagerOK
<1>3. disturbed' \in BOOLEAN /\ torn' \in BOOLEAN
  BY DEF Falls
<1> QED
  BY <1>1, <1>2, <1>3

LEMMA InstallTypes ==
  ASSUME Types, isFirstRun \/ copyBinary \/ createBinary
  PROVE  Types'
<1>1. UNCHANGED <<server, manager, inbox, notice, events, past>>
  BY DEF isFirstRun, copyBinary, createBinary
<1>2. ServerOK' /\ InboxOK'
  BY <1>1 DEF server, Types, ServerOK, InboxOK
<1>3. ManagerOK' /\ OtherOK'
  BY <1>1 DEF isFirstRun, copyBinary, createBinary, manager, Types, ManagerOK, OtherOK
<1>4. InstallOK'
  BY <1>1 DEF isFirstRun, copyBinary, createBinary, Copied, installed, server, Types, InstallOK
<1>5. FlagsOK'
  BY <1>1 DEF isFirstRun, copyBinary, createBinary, installed, past, Types, FlagsOK
<1> QED
  BY <1>2, <1>3, <1>4, <1>5 DEF Types

LEMMA KilledTypes ==
  ASSUME Types, AppIsKilled \/ Upgrade
  PROVE  Types'
<1>1. Falls /\ UNCHANGED <<lastRun, server, killers, notice, cut>>
  BY DEF AppIsKilled, Upgrade
<1>2. InboxOK' /\ ManagerOK' /\ disturbed' \in BOOLEAN /\ torn' \in BOOLEAN /\ app' = "down"
  BY <1>1, FallsTypes
<1>3. InstallOK'
  BY <1>1, <1>2, Bounds DEF AppIsKilled, Upgrade, server, Types, InstallOK
<1>4. ServerOK' /\ OtherOK'
  BY <1>1, Bounds DEF AppIsKilled, Upgrade, Outside, server, Types, ServerOK, OtherOK
<1>5. FlagsOK'
  BY <1>1, <1>2 DEF Types, FlagsOK
<1> QED
  BY <1>2, <1>3, <1>4, <1>5 DEF Types

LEMMA ReaderTypes == ASSUME Types, LocalSocketServer PROVE Types'
<1>1. /\ inbox # <<>> /\ app = "up" /\ ~(sending # None /\ Len(inbox) = 1)
      /\ UNCHANGED <<package, lastRun, binary, server, killers, events, cut>>
      /\ IF inbox[1] = "nothing" THEN Falls /\ UNCHANGED notice
         ELSE /\ Shown(inbox[1]) /\ inbox' = RemoveAt(inbox, 1)
              /\ UNCHANGED <<app, mng, queue, asked, sessions, disturbed, torn>>
  BY DEF LocalSocketServer, Oldest
<1>2. ServerOK'
  BY <1>1 DEF server, Types, ServerOK
<1>3. CASE inbox[1] = "nothing"
  <2>1. InboxOK' /\ ManagerOK' /\ disturbed' \in BOOLEAN /\ torn' \in BOOLEAN /\ app' = "down"
    BY <1>1, <1>3, FallsTypes
  <2>2. InstallOK' /\ OtherOK'
    BY <1>1, <1>3, <2>1 DEF server, Types, InstallOK, OtherOK
  <2>3. FlagsOK'
    BY <1>1, <2>1 DEF Types, FlagsOK
  <2> QED
    BY <1>2, <2>1, <2>2, <2>3 DEF Types
<1>4. CASE inbox[1] # "nothing"
  <2>1. InboxOK'
    <3>1. inbox' = RemoveAt(inbox, 1) /\ inbox \in Seq(Messages) /\ Len(inbox) <= Backlog
      BY <1>1, <1>4 DEF Types, InboxOK
    <3>2. inbox' \in Seq(Messages) /\ Len(inbox') = Len(inbox) - 1 /\ Len(inbox) \in Nat
      BY <1>1, <3>1, Rest_Tail, LenProperties
    <3> QED
      BY <3>1, <3>2, Bounds DEF InboxOK
  <2>2. OtherOK'
    BY <1>1, <1>4 DEF Shown, Types, OtherOK
  <2>3. InstallOK'
    BY <1>1, <1>4 DEF server, Types, InstallOK
  <2>4. ManagerOK' /\ FlagsOK'
    BY <1>1, <1>4 DEF Types, ManagerOK, FlagsOK
  <2> QED
    BY <1>2, <2>1, <2>2, <2>3, <2>4 DEF Types
<1> QED
  BY <1>3, <1>4

LEMMA LoopTypes ==
  ASSUME Types, Listens \/ Loop \/ \E m \in Managers : Calls(m) \/ Asks(m) \/ HangsUp(m)
  PROVE  Types'
<1>1. Alone
  BY DEF Listens, Loop, Accept, Serves, Breaks, Calls, Asks, HangsUp
<1>2. InstallOK' /\ ServerOK' /\ InboxOK'
  BY <1>1 DEF Alone, installed, server, Types, InstallOK, ServerOK, InboxOK
<1>3. FlagsOK'
  BY <1>1 DEF Alone, installed, past, Types, FlagsOK
<1>4. killers' \in Nat /\ events' \in 0 .. MaxEvents
  BY <1>1, Bounds DEF Alone, Listens, Loop, Accept, Serves, Breaks, Calls, Asks, HangsUp, Outside,
                      Types, OtherOK
<1> SUFFICES ManagerOK' /\ notice' \in Viewers \cup Managers \cup {None}
  BY <1>2, <1>3, <1>4 DEF Types, OtherOK
<1>5. CASE Serves \/ Breaks
  <2>1. queue # <<>> /\ Served \in Managers /\ Tail(queue) \in Seq(Managers)
    BY <1>5, HeadTailProperties DEF Serves, Breaks, Served, Types, ManagerOK
  <2>2. ManagerOK'
    BY <1>5, <2>1 DEF Serves, Breaks, Closed, Types, ManagerOK
  <2>3. notice' \in Viewers \cup Managers \cup {None}
    BY <1>5, <2>1 DEF Serves, Breaks, Answered, Types, OtherOK
  <2> QED
    BY <2>2, <2>3
<1>6. CASE Listens \/ Accept
  BY <1>6 DEF Listens, Accept, Types, ManagerOK, OtherOK
<1>7. CASE \E m \in Managers : Calls(m) \/ Asks(m) \/ HangsUp(m)
  <2>1. PICK m \in Managers : Calls(m) \/ Asks(m) \/ HangsUp(m)
    BY <1>7
  <2>2. CASE Calls(m)
    BY <2>2, AppendProperties DEF Calls, Types, ManagerOK, OtherOK
  <2>3. CASE Asks(m) \/ HangsUp(m)
    BY <2>3 DEF Asks, HangsUp, Types, ManagerOK, OtherOK
  <2> QED
    BY <2>1, <2>2, <2>3
<1> QED
  BY <1>5, <1>6, <1>7 DEF Loop

LEMMA StepTypes == ASSUME Types, [Next]_vars PROVE Types'
<1>1. CASE \E v \in Viewers : clientHook(v) \/ clientGone(v) \/ CutText(v)
  BY <1>1, HookTypes
<1>2. CASE Send
  BY <1>2, SendTypes
<1>3. CASE startVncServer \/ stopVncServer \/ Killall \/ NativeIsKilled
  BY <1>3, NativeTypes
<1>4. CASE isFirstRun \/ copyBinary \/ createBinary
  BY <1>4, InstallTypes
<1>5. CASE AppIsKilled \/ Upgrade
  BY <1>5, KilledTypes
<1>6. CASE LocalSocketServer
  BY <1>6, ReaderTypes
<1>7. CASE Listens \/ Loop \/ \E m \in Managers : Calls(m) \/ Asks(m) \/ HangsUp(m)
  BY <1>7, LoopTypes
<1>8. CASE UNCHANGED vars
  <2>1. InstallOK' /\ ServerOK' /\ InboxOK' /\ OtherOK'
    BY <1>8 DEF vars, installed, server, Types, InstallOK, ServerOK, InboxOK, OtherOK
  <2>2. ManagerOK' /\ FlagsOK'
    BY <1>8 DEF vars, installed, manager, past, Types, ManagerOK, FlagsOK
  <2> QED
    BY <2>1, <2>2 DEF Types
<1> QED
  BY <1>1, <1>2, <1>3, <1>4, <1>5, <1>6, <1>7, <1>8 DEF Next, Native

LEMMA AlwaysTypes == Spec => []Types
BY InitTypes, StepTypes, PTL DEF Spec

\* In every reachable state the variables have their types, a message that is being sent
\* included: the server that connects it has a descriptor left.
THEOREM TypesHold == Spec => []TypeOK
<1>1. Types => TypeOK
  <2> SUFFICES ASSUME Types PROVE TypeOK
    OBVIOUS
  <2>1. ToSet(queue) \subseteq Managers
    BY ElementOfSeq, LenProperties DEF ToSet, Types, ManagerOK
  <2>2. {disturbed, cut, torn} \subseteq BOOLEAN
    BY DEF Types, FlagsOK
  <2>3. ManagerOK /\ InboxOK
    BY DEF Types
  <2> QED
    BY <2>1, <2>2, <2>3 DEF Types, TypeOK, InstallOK, ServerOK, InboxOK, ManagerOK, OtherOK, Messages
<1> QED
  BY <1>1, AlwaysTypes, PTL

-----------------------------------------------------------------------------
(* Descriptors.                                                            *)

\* The native server loses a descriptor only with a message: Ends clears both counts, the
\* two early returns of send_remote_msg raise both, and a message that is sent is closed.
THEOREM LeaksStayLosses == Spec => []LeaksAreLosses
<1>1. Init => LeaksAreLosses
  BY DEF Init, LeaksAreLosses
<1>2. ASSUME Types, LeaksAreLosses, [Next]_vars PROVE LeaksAreLosses'
  <2> leaked \in Nat /\ lost \in Nat /\ leaked <= lost
    BY <1>2, Bounds DEF Types, ServerOK, LeaksAreLosses
  <2>1. CASE UNCHANGED <<leaked, lost>>
    BY <2>1 DEF LeaksAreLosses
  <2>2. ASSUME Ends PROVE LeaksAreLosses'
    BY <2>2 DEF Ends, LeaksAreLosses
  <2>3. ASSUME leaked' = leaked + 1, lost' = lost + 1 PROVE LeaksAreLosses'
    BY <2>3 DEF LeaksAreLosses
  <2>4. ASSUME NEW m, NEW c, send_remote_msg(m, c) PROVE LeaksAreLosses'
    BY <2>1, <2>2, <2>3, <2>4 DEF send_remote_msg
  <2>5. CASE \E v \in Viewers : clientHook(v) \/ clientGone(v) \/ CutText(v)
    BY <2>4, <2>5 DEF clientHook, clientGone, CutText
  <2>6. CASE Send
    BY <2>1, <2>3, <2>6 DEF Send, Close
  <2>7. CASE Killall \/ NativeIsKilled
    BY <2>2, <2>7 DEF Killall, NativeIsKilled
  <2>8. CASE startVncServer
    BY <2>1, <2>8 DEF startVncServer
  <2>9. CASE stopVncServer \/ isFirstRun \/ copyBinary \/ createBinary \/ AppIsKilled \/ Upgrade
             \/ LocalSocketServer
    BY <2>1, <2>9 DEF stopVncServer, isFirstRun, copyBinary, createBinary, AppIsKilled, Upgrade,
                      LocalSocketServer, server
  <2>10. CASE Listens \/ Loop \/ \E m \in Managers : Calls(m) \/ Asks(m) \/ HangsUp(m)
    BY <2>1, <2>10 DEF Listens, Loop, Accept, Serves, Breaks, Calls, Asks, HangsUp, Alone, server
  <2>11. CASE UNCHANGED vars
    BY <2>1, <2>11 DEF vars, server
  <2> QED
    BY <1>2, <2>5, <2>6, <2>7, <2>8, <2>9, <2>10, <2>11 DEF Next, Native
<1> QED
  BY <1>1, <1>2, AlwaysTypes, PTL DEF Spec

-----------------------------------------------------------------------------
(* Installation.                                                           *)

\* A version that ran was copied, as long as no first run was torn: last_run is what
\* makes the difference between a start that copies and one that does not.
CopiedOnce ==
  /\ app # "down" => lastRun = package
  /\ ~torn /\ app # "first" /\ lastRun = package => binary = package

LEMMA StepInstalls == ASSUME Types, CopiedOnce, [Next]_vars PROVE CopiedOnce'
<1> USE DEF CopiedOnce
<1>0. package \in Nat /\ lastRun \in 0 .. package /\ package \in 1 .. MaxVersion /\ torn \in BOOLEAN
  BY Bounds DEF Types, InstallOK, FlagsOK
<1>1. CASE UNCHANGED <<app, installed>>
  BY <1>1 DEF installed
<1>2. CASE isFirstRun
  BY <1>0, <1>2 DEF isFirstRun, First
<1>3. CASE copyBinary
  <2>1. /\ app = "first" /\ app' = "copied" /\ UNCHANGED <<package, lastRun>>
        /\ torn' = (torn \/ native # 0) /\ binary' = (IF native = 0 THEN package ELSE binary)
    BY <1>3 DEF copyBinary, Copied
  <2> QED
    BY <2>1
<1>4. CASE createBinary
  BY <1>4 DEF createBinary, installed
<1>5. CASE AppIsKilled
  <2>1. app # "down" /\ app' = "down" /\ torn' = (torn \/ app = "first") /\ UNCHANGED <<package, lastRun>>
        /\ (app # "first" => UNCHANGED binary)
    BY <1>5 DEF AppIsKilled, Falls
  <2> QED
    BY <2>1
<1>6. CASE Upgrade
  BY <1>0, <1>6 DEF Upgrade, Falls
<1>7. CASE LocalSocketServer
  <2>1. app = "up" /\ app' \in {"up", "down"} /\ UNCHANGED <<package, lastRun, binary>>
    BY <1>7 DEF LocalSocketServer, Falls
  <2>2. torn' = (torn \/ app = "first") \/ torn' = torn
    BY <1>7 DEF LocalSocketServer, Falls
  <2> QED
    BY <2>1, <2>2
<1>8. CASE \E v \in Viewers : clientHook(v) \/ clientGone(v) \/ CutText(v)
  BY <1>1, <1>8 DEF clientHook, clientGone, CutText, Rest
<1>9. CASE Send \/ startVncServer \/ stopVncServer \/ Killall \/ NativeIsKilled
  BY <1>1, <1>9 DEF Send, startVncServer, stopVncServer, Killall, NativeIsKilled, Rest
<1>10. CASE Listens \/ Loop \/ \E m \in Managers : Calls(m) \/ Asks(m) \/ HangsUp(m)
  BY <1>1, <1>10 DEF Listens, Loop, Accept, Serves, Breaks, Calls, Asks, HangsUp, Alone
<1>11. CASE UNCHANGED vars
  BY <1>1, <1>11 DEF vars
<1> QED
  BY <1>2, <1>3, <1>4, <1>5, <1>6, <1>7, <1>8, <1>9, <1>10, <1>11 DEF Next, Native

\* An app that came up runs next to the binary of its own version, for any number of
\* upgrades and kills, unless a first run was torn.
THEOREM InstallsItsVersion == Spec => []InstalledUnlessTorn
<1>1. Init => CopiedOnce
  BY DEF Init, CopiedOnce
<1>2. CopiedOnce => InstalledUnlessTorn
  BY DEF CopiedOnce, InstalledUnlessTorn
<1> QED
  BY <1>1, <1>2, StepInstalls, AlwaysTypes, PTL DEF Spec

-----------------------------------------------------------------------------
(* Messages.                                                               *)

\* As long as no server was killed in the middle of a message, a connection without
\* one is the last, and its message is on the way.
HalfSent == ~cut => \A i \in 1 .. Len(inbox) : inbox[i] = "nothing" => i = Len(inbox) /\ sending # None

LEMMA StepHalfSent == ASSUME Types, HalfSent, [Next]_vars PROVE HalfSent'
<1>0. /\ inbox \in Seq(Messages) /\ Len(inbox) \in Nat
      /\ sending \in Viewers \cup {"DISCONNECTED", "CLIP", None}
  BY LenProperties DEF Types, InboxOK, ServerOK
<1>1. CASE UNCHANGED <<inbox, sending, cut>>
  BY <1>1 DEF HalfSent
<1>2. ASSUME Ends, UNCHANGED inbox PROVE HalfSent'
  BY <1>2 DEF Ends, HalfSent
<1>3. ASSUME NEW message \in Viewers \cup {"DISCONNECTED", "CLIP"}, NEW c, sending = None,
             send_remote_msg(message, c)
      PROVE  HalfSent'
  <2>1. CASE Full(c)
    BY <1>2, <1>3, <2>1 DEF send_remote_msg
  <2>2. CASE ~Full(c) /\ app # "up"
    BY <1>1, <1>3, <2>2 DEF send_remote_msg, past
  <2>3. CASE ~Full(c) /\ app = "up"
    <3>1. inbox' = Append(inbox, "nothing") /\ sending' = message /\ UNCHANGED cut
      BY <1>3, <2>3 DEF send_remote_msg, past
    <3>2. /\ Len(inbox') = Len(inbox) + 1
          /\ \A i \in 1 .. Len(inbox) : inbox'[i] = inbox[i]
      BY <1>0, <3>1, AppendProperties DEF Messages
    <3>3. message # None
      BY <1>3, Bounds
    <3> QED
      BY <1>0, <1>3, <3>1, <3>2, <3>3 DEF HalfSent
  <2> QED
    BY <2>1, <2>2, <2>3
<1>4. ASSUME Falls, UNCHANGED cut PROVE HalfSent'
  BY <1>4, EmptySeq DEF Falls, HalfSent
<1>5. CASE \E v \in Viewers : clientHook(v) \/ clientGone(v) \/ CutText(v)
  BY <1>3, <1>5 DEF clientHook, clientGone, CutText
<1>6. CASE Send
  <2>1. CASE inbox # <<>> /\ Last(inbox) = "nothing"
    <3>1. inbox' = Append(Front(inbox), sending) /\ sending # None /\ sending' = None /\ UNCHANGED cut
      BY <1>6, <2>1 DEF Send, Written, past
    <3>2. sending \in Messages /\ sending # "nothing"
      BY <1>0, <3>1, Bounds DEF Messages
    <3>3. /\ Len(inbox') = Len(inbox) /\ inbox'[Len(inbox)] = sending
          /\ \A i \in 1 .. Len(inbox) - 1 : inbox'[i] = inbox[i]
      BY <1>0, <2>1, <3>1, <3>2, Last_Changed
    <3> QED
      BY <1>0, <3>1, <3>2, <3>3 DEF HalfSent
  <2>2. CASE ~(inbox # <<>> /\ Last(inbox) = "nothing")
    <3>1. UNCHANGED <<inbox, cut>>
      BY <1>6, <2>2 DEF Send, past
    <3>2. ~cut => \A i \in 1 .. Len(inbox) : inbox[i] # "nothing"
      BY <1>0, <2>2, EmptySeq DEF HalfSent, Last
    <3> QED
      BY <3>1, <3>2 DEF HalfSent
  <2> QED
    BY <2>1, <2>2
<1>7. CASE LocalSocketServer
  <2>1. CASE inbox[1] = "nothing"
    BY <1>4, <1>7, <2>1 DEF LocalSocketServer, Oldest
  <2>2. CASE inbox[1] # "nothing"
    <3>1. inbox # <<>> /\ inbox' = RemoveAt(inbox, 1) /\ UNCHANGED <<sending, cut>>
      BY <1>7, <2>2 DEF LocalSocketServer, Oldest, server
    <3>2. /\ Len(inbox') = Len(inbox) - 1
          /\ \A i \in 1 .. Len(inbox) - 1 : inbox'[i] = inbox[i + 1]
      BY <1>0, <3>1, Rest_Tail
    <3> QED
      BY <1>0, <3>1, <3>2 DEF HalfSent
  <2> QED
    BY <2>1, <2>2
<1>8. CASE Killall \/ NativeIsKilled
  BY <1>2, <1>8 DEF Killall, NativeIsKilled
<1>9. CASE AppIsKilled \/ Upgrade
  BY <1>4, <1>9 DEF AppIsKilled, Upgrade
<1>10. CASE startVncServer \/ stopVncServer \/ isFirstRun \/ copyBinary \/ createBinary
  BY <1>1, <1>10 DEF startVncServer, stopVncServer, isFirstRun, copyBinary, createBinary, server, past
<1>11. CASE Listens \/ Loop \/ \E m \in Managers : Calls(m) \/ Asks(m) \/ HangsUp(m)
  BY <1>1, <1>11 DEF Listens, Loop, Accept, Serves, Breaks, Calls, Asks, HangsUp, Alone, server, past
<1>12. CASE UNCHANGED vars
  BY <1>1, <1>12 DEF vars, server, past
<1> QED
  BY <1>5, <1>6, <1>7, <1>8, <1>9, <1>10, <1>11, <1>12 DEF Next, Native

LEMMA AlwaysHalfSent == Spec => []HalfSent
<1>1. Init => HalfSent
  BY EmptySeq DEF Init, HalfSent
<1> QED
  BY <1>1, StepHalfSent, AlwaysTypes, PTL DEF Spec

\* The substring of LocalSocketServer throws only on a connection that a killed server left
\* without its message, whatever is sent, lost and restarted before.
THEOREM FallsOnlyByAKill == Spec => FallsByAKill
<1>1. ASSUME Types, HalfSent, [Next]_vars
      PROVE  [app = "up" /\ app' = "down" /\ package' = package /\ events' = events => cut]_vars
  <2> SUFFICES ASSUME Next, app = "up", app' = "down", package' = package, events' = events, ~cut
               PROVE  FALSE
    BY <1>1
  <2>0. package \in Nat /\ events \in Nat /\ Len(inbox) \in Nat
    BY <1>1, Bounds, LenProperties DEF Types, InstallOK, OtherOK, InboxOK
  <2>1. CASE LocalSocketServer
    <3>1. /\ inbox # <<>> /\ ~(sending # None /\ 1 = Len(inbox)) /\ inbox[1] = "nothing"
      BY <2>1 DEF LocalSocketServer, Oldest
    <3>2. 1 \in 1 .. Len(inbox)
      BY <1>1, <3>1, EmptySeq DEF Types, InboxOK
    <3> QED
      BY <1>1, <3>1, <3>2 DEF HalfSent
  <2>2. CASE AppIsKilled \/ Upgrade
    BY <2>0, <2>2 DEF AppIsKilled, Upgrade, Outside
  <2>3. CASE \E v \in Viewers : clientHook(v) \/ clientGone(v) \/ CutText(v)
    BY <2>3 DEF clientHook, clientGone, CutText, Rest
  <2>4. CASE Send \/ startVncServer \/ stopVncServer \/ Killall \/ NativeIsKilled
    BY <2>4 DEF Send, startVncServer, stopVncServer, Killall, NativeIsKilled, Rest
  <2>5. CASE isFirstRun \/ copyBinary \/ createBinary
    BY <2>5 DEF isFirstRun, copyBinary, createBinary
  <2>6. CASE Listens \/ Loop \/ \E m \in Managers : Calls(m) \/ Asks(m) \/ HangsUp(m)
    BY <2>6 DEF Listens, Loop, Accept, Serves, Breaks, Calls, Asks, HangsUp, Alone
  <2> QED
    BY <2>1, <2>2, <2>3, <2>4, <2>5, <2>6 DEF Next, Native
<1> QED
  BY <1>1, AlwaysTypes, AlwaysHalfSent, PTL DEF Spec, FallsByAKill

-----------------------------------------------------------------------------
(* The notification.                                                       *)

\* A departure is on its way at or behind the i-th of the connections that wait.
Departs(i) == sending = "DISCONNECTED" \/ \E j \in i .. Len(inbox) : inbox[j] = "DISCONNECTED"

\* Of the processes: where nothing ended, a server runs only next to an app that listens, and
\* the message that it sends has the last of the connections.
Together ==
  /\ native # 0 => app = "up"
  /\ native = 0 => clients = {} /\ sending = None
  /\ sending # None => inbox # <<>> /\ inbox[Len(inbox)] = "nothing"

\* Whom the notification, a message, or the message on its way names is connected, or his
\* departure comes behind.
Announced ==
  /\ notice \in clients \cup sessions \cup {None} \/ Departs(1)
  /\ \A i \in 1 .. Len(inbox) : inbox[i] \in Viewers => inbox[i] \in clients \/ Departs(i)
  /\ sending \in Viewers => sending \in clients

TrueNotice == ~disturbed => Together /\ Announced

LEMMA MessageNotice ==
  ASSUME Types, TrueNotice, sending = None, native # 0, UNCHANGED <<app, notice, sessions>>,
         NEW c \in SUBSET Viewers, NEW message \in Viewers \cup {"DISCONNECTED", "CLIP"},
         message \in Viewers => message \in c,
         clients \subseteq c \/ (message = "DISCONNECTED" /\ clients # {}),
         send_remote_msg(message, c)
  PROVE  TrueNotice'
<1> SUFFICES ASSUME ~disturbed' PROVE Together' /\ Announced'
  BY DEF TrueNotice
<1>0. /\ inbox \in Seq(Messages) /\ Len(inbox) \in Nat /\ "nothing" \in Messages
      /\ "nothing" \notin Viewers
  BY Bounds, LenProperties DEF Types, InboxOK, Messages
<1>1. CASE Full(c)
  <2>1. /\ native' = 0 /\ clients' = {} /\ sending' = None /\ clients = {} /\ ~disturbed
        /\ UNCHANGED inbox
    BY <1>1 DEF send_remote_msg, Ends
  <2>2. Together /\ Announced
    BY <2>1 DEF TrueNotice
  <2>3. Together'
    BY <2>1 DEF Together
  <2>4. Announced'
    <3>1. \A i : Departs(i) <=> Departs(i)'
      BY <2>1 DEF Departs
    <3>2. None \notin Viewers
      BY Bounds
    <3> QED
      BY <2>1, <2>2, <3>1, <3>2 DEF Announced
  <2> QED
    BY <2>3, <2>4
<1>2. CASE ~Full(c) /\ app # "up"
  <2>1. ~disturbed
    BY <1>2 DEF send_remote_msg, past
  <2> QED
    BY <1>2, <2>1 DEF TrueNotice, Together
<1>3. CASE ~Full(c) /\ app = "up"
  <2>1. /\ inbox' = Append(inbox, "nothing") /\ sending' = message /\ clients' = c
        /\ UNCHANGED <<native, disturbed>>
    BY <1>3 DEF send_remote_msg, past
  <2>2. Together /\ Announced
    BY <2>1 DEF TrueNotice
  <2>3. /\ inbox' # <<>> /\ Len(inbox') = Len(inbox) + 1 /\ inbox'[Len(inbox) + 1] = "nothing"
        /\ \A i \in 1 .. Len(inbox) : inbox'[i] = inbox[i]
    BY <1>0, <2>1, AppendProperties
  <2>4. Together'
    BY <1>3, <2>1, <2>3 DEF Together
  <2>5. \A i \in 1 .. Len(inbox) + 1 : Departs(i) => Departs(i)'
    <3> SUFFICES ASSUME NEW i \in 1 .. Len(inbox) + 1, Departs(i) PROVE Departs(i)'
      OBVIOUS
    <3>1. PICK j \in i .. Len(inbox) : inbox[j] = "DISCONNECTED"
      BY Bounds DEF Departs
    <3>2. j \in i .. Len(inbox') /\ inbox'[j] = "DISCONNECTED"
      BY <1>0, <2>3, <3>1
    <3> QED
      BY <3>2 DEF Departs
  <2>6. message = "DISCONNECTED" => \A i : Departs(i)'
    BY <2>1 DEF Departs
  <2>7. notice' \in clients' \cup sessions' \cup {None} \/ Departs(1)'
    BY <1>0, <2>1, <2>2, <2>5, <2>6 DEF Announced
  <2>8. ASSUME NEW i \in 1 .. Len(inbox'), inbox'[i] \in Viewers
        PROVE  inbox'[i] \in clients' \/ Departs(i)'
    <3>1. i \in 1 .. Len(inbox) /\ inbox[i] \in Viewers /\ inbox'[i] = inbox[i]
      BY <1>0, <2>3, <2>8
    <3> QED
      BY <1>0, <2>1, <2>2, <2>5, <2>6, <3>1 DEF Announced
  <2> QED
    BY <2>1, <2>4, <2>7, <2>8 DEF Announced
<1> QED
  BY <1>1, <1>2, <1>3

LEMMA SendNotice == ASSUME Types, TrueNotice, Send PROVE TrueNotice'
<1> SUFFICES ASSUME ~disturbed' PROVE Together' /\ Announced'
  BY DEF TrueNotice
<1>1. /\ sending # None /\ sending' = None /\ ~disturbed
      /\ UNCHANGED <<native, clients, app, notice, sessions>>
  BY DEF Send, Rest, past, manager
<1>2. Together /\ Announced
  BY <1>1 DEF TrueNotice
<1>3. /\ inbox \in Seq(Messages) /\ Len(inbox) \in Nat \ {0} /\ inbox[Len(inbox)] = "nothing"
      /\ sending \in Messages /\ sending # "nothing" /\ "nothing" \notin Viewers
      /\ None \notin Viewers /\ Len(inbox) \in 1 .. Len(inbox) /\ inbox # <<>>
  BY <1>1, <1>2, Bounds, EmptySeq, LenProperties DEF Together, Types, InboxOK, ServerOK, Messages
<1>4. inbox' = Append(Front(inbox), sending)
  BY <1>1, <1>3 DEF Send, Written, Last
<1>5. /\ Len(inbox') = Len(inbox) /\ inbox'[Len(inbox)] = sending
      /\ \A i \in 1 .. Len(inbox) - 1 : inbox'[i] = inbox[i]
  BY <1>3, <1>4, Last_Changed
<1>6. \A i \in 1 .. Len(inbox) : Departs(i) => Departs(i)'
  <2> SUFFICES ASSUME NEW i \in 1 .. Len(inbox), Departs(i) PROVE Departs(i)'
    OBVIOUS
  <2>1. CASE sending = "DISCONNECTED"
    <3>1. Len(inbox) \in i .. Len(inbox') /\ inbox'[Len(inbox)] = "DISCONNECTED"
      BY <1>3, <1>5, <2>1
    <3> QED
      BY <3>1 DEF Departs
  <2>2. CASE sending # "DISCONNECTED"
    <3>1. PICK j \in i .. Len(inbox) : inbox[j] = "DISCONNECTED"
      BY <2>2 DEF Departs
    <3>2. j \in i .. Len(inbox') /\ inbox'[j] = "DISCONNECTED"
      BY <1>3, <1>5, <3>1
    <3> QED
      BY <3>2 DEF Departs
  <2> QED
    BY <2>1, <2>2
<1>7. Together'
  BY <1>1, <1>2 DEF Together
<1>8. ASSUME NEW i \in 1 .. Len(inbox'), inbox'[i] \in Viewers
      PROVE  inbox'[i] \in clients' \/ Departs(i)'
  <2>1. CASE i = Len(inbox)
    BY <1>1, <1>2, <1>5, <1>8, <2>1 DEF Announced
  <2>2. CASE i # Len(inbox)
    <3>1. i \in 1 .. Len(inbox) /\ inbox'[i] = inbox[i]
      BY <1>3, <1>5, <2>2
    <3> QED
      BY <1>1, <1>2, <1>6, <1>8, <3>1 DEF Announced
  <2> QED
    BY <2>1, <2>2
<1>9. notice' \in clients' \cup sessions' \cup {None} \/ Departs(1)'
  <2>1. 1 \in 1 .. Len(inbox)
    BY <1>3
  <2> QED
    BY <1>1, <1>2, <1>6, <2>1 DEF Announced
<1> QED
  BY <1>1, <1>3, <1>7, <1>8, <1>9 DEF Announced

\* With the app its connections go; nobody notices when there was neither server nor notice.
LEMMA FallsNotice ==
  ASSUME Types, TrueNotice, Falls, UNCHANGED <<server, notice>>
  PROVE  TrueNotice'
<1> SUFFICES ASSUME ~disturbed' PROVE Together' /\ Announced'
  BY DEF TrueNotice
<1>1. /\ native = 0 /\ notice = None /\ ~disturbed /\ inbox' = <<>>
      /\ UNCHANGED <<native, clients, sending, notice>>
  BY DEF Falls, server
<1>2. Together
  BY <1>1 DEF TrueNotice
<1>3. Together'
  BY <1>1, <1>2 DEF Together
<1>4. Len(inbox') = 0 /\ None \notin Viewers /\ sending = None
  BY <1>1, <1>2, EmptySeq, Bounds DEF Together
<1>5. \A i \in 1 .. Len(inbox') : FALSE
  BY <1>4
<1> QED
  BY <1>1, <1>3, <1>4, <1>5 DEF Announced

LEMMA ReaderNotice == ASSUME Types, TrueNotice, LocalSocketServer PROVE TrueNotice'
<1>1. /\ inbox # <<>> /\ app = "up" /\ ~(sending # None /\ 1 = Len(inbox)) /\ UNCHANGED server
      /\ IF inbox[1] = "nothing" THEN Falls /\ UNCHANGED notice
         ELSE /\ Shown(inbox[1]) /\ inbox' = RemoveAt(inbox, 1)
              /\ UNCHANGED <<app, mng, queue, asked, sessions, disturbed, torn>>
  BY DEF LocalSocketServer, Oldest
<1>2. CASE inbox[1] = "nothing"
  BY <1>1, <1>2, FallsNotice
<1>3. ASSUME inbox[1] # "nothing", ~disturbed' PROVE Together' /\ Announced'
  <2>0. /\ inbox \in Seq(Messages) /\ Len(inbox) \in Nat \ {0} /\ 1 \in 1 .. Len(inbox)
        /\ "DISCONNECTED" \notin Viewers
    BY <1>1, Bounds, EmptySeq, LenProperties DEF Types, InboxOK
  <2>1. /\ Shown(inbox[1]) /\ ~disturbed
        /\ UNCHANGED <<app, sessions, native, clients, sending>>
    BY <1>1, <1>3 DEF server
  <2>2. Together /\ Announced
    BY <2>1 DEF TrueNotice
  <2>3. /\ Len(inbox') = Len(inbox) - 1 /\ inbox' \in Seq(Messages)
        /\ \A i \in 1 .. Len(inbox) - 1 : inbox'[i] = inbox[i + 1]
    BY <1>1, <1>3, <2>0, Rest_Tail
  <2>4. Together'
    <3>1. ASSUME sending' # None PROVE inbox' # <<>> /\ inbox'[Len(inbox')] = "nothing"
      <4>1. inbox[Len(inbox)] = "nothing" /\ Len(inbox) # 1
        BY <1>1, <2>1, <2>2, <3>1 DEF Together
      <4>2. Len(inbox) - 1 \in 1 .. Len(inbox) - 1 /\ (Len(inbox) - 1) + 1 = Len(inbox)
        <5>1. Len(inbox) \in Nat /\ Len(inbox) # 0
          BY <2>0
        <5>2. Len(inbox) # 1
          BY <4>1
        <5>3. \A n \in Nat \ {0, 1} : n - 1 \in 1 .. n - 1 /\ (n - 1) + 1 = n
          OBVIOUS
        <5> QED
          BY <5>1, <5>2, <5>3
      <4>3. inbox'[Len(inbox) - 1] = inbox[Len(inbox)]
        BY <2>3, <4>2
      <4>4. Len(inbox') # 0
        BY <2>3, <4>2
      <4> QED
        BY <2>3, <4>1, <4>3, <4>4, EmptySeq
    <3> QED
      BY <2>1, <2>2, <3>1 DEF Together
  <2>5. \A i \in 2 .. Len(inbox) : Departs(i) => Departs(i - 1)'
    <3> SUFFICES ASSUME NEW i \in 2 .. Len(inbox), Departs(i) PROVE Departs(i - 1)'
      OBVIOUS
    <3>1. CASE sending = "DISCONNECTED"
      BY <2>1, <3>1 DEF Departs
    <3>2. CASE sending # "DISCONNECTED"
      <4>1. PICK j \in i .. Len(inbox) : inbox[j] = "DISCONNECTED"
        BY <3>2 DEF Departs
      <4>2. j - 1 \in 1 .. Len(inbox) - 1 /\ (j - 1) + 1 = j /\ j - 1 \in (i - 1) .. Len(inbox')
        BY <2>0, <2>3, <4>1
      <4>3. inbox'[j - 1] = "DISCONNECTED"
        BY <2>3, <4>1, <4>2
      <4> QED
        BY <4>2, <4>3 DEF Departs
    <3> QED
      BY <3>1, <3>2
  <2>6. ASSUME Departs(1), inbox[1] # "DISCONNECTED" PROVE Departs(1)'
    <3>1. CASE sending = "DISCONNECTED"
      BY <2>1, <3>1 DEF Departs
    <3>2. CASE sending # "DISCONNECTED"
      <4>1. PICK j \in 1 .. Len(inbox) : inbox[j] = "DISCONNECTED"
        BY <2>6, <3>2 DEF Departs
      <4>2. j \in 2 .. Len(inbox) /\ 2 \in 2 .. Len(inbox)
        BY <2>0, <2>6, <4>1
      <4>3. Departs(2)
        BY <4>1, <4>2 DEF Departs
      <4> QED
        BY <2>5, <4>2, <4>3
    <3> QED
      BY <3>1, <3>2
  <2>7. notice' \in clients' \cup sessions' \cup {None} \/ Departs(1)'
    <3>1. CASE inbox[1] \in Viewers
      BY <2>0, <2>1, <2>2, <2>6, <3>1 DEF Shown, Announced
    <3>2. CASE inbox[1] = "DISCONNECTED"
      BY <2>0, <2>1, <3>2 DEF Shown
    <3>3. CASE inbox[1] \notin Viewers /\ inbox[1] # "DISCONNECTED"
      BY <2>1, <2>2, <2>6, <3>3 DEF Shown, Announced
    <3> QED
      BY <3>1, <3>2, <3>3
  <2>8. ASSUME NEW i \in 1 .. Len(inbox'), inbox'[i] \in Viewers
        PROVE  inbox'[i] \in clients' \/ Departs(i)'
    <3>1. i + 1 \in 2 .. Len(inbox) /\ i + 1 \in 1 .. Len(inbox) /\ (i + 1) - 1 = i
      BY <2>0, <2>3
    <3>2. inbox'[i] = inbox[i + 1]
      BY <2>0, <2>3
    <3>3. inbox[i + 1] \in clients \/ Departs(i + 1)
      BY <2>2, <2>8, <3>1, <3>2 DEF Announced
    <3> QED
      BY <2>1, <2>5, <3>1, <3>2, <3>3
  <2> QED
    BY <2>1, <2>2, <2>4, <2>7, <2>8 DEF Announced
<1> QED
  BY <1>2, <1>3 DEF TrueNotice

\* The loop names managers that have opened, and no other.
LEMMA LoopNotice ==
  ASSUME TrueNotice, Listens \/ Loop \/ \E m \in Managers : Calls(m) \/ Asks(m) \/ HangsUp(m)
  PROVE  TrueNotice'
<1> SUFFICES ASSUME ~disturbed' PROVE Together' /\ Announced'
  BY DEF TrueNotice
<1>1. Alone
  BY DEF Listens, Loop, Accept, Serves, Breaks, Calls, Asks, HangsUp
<1>2. UNCHANGED <<app, native, clients, sending, inbox>> /\ ~disturbed
  BY <1>1 DEF Alone, server, past
<1>3. Together /\ Announced
  BY <1>2 DEF TrueNotice
<1>4. \A i : Departs(i) <=> Departs(i)'
  BY <1>2 DEF Departs
<1>5. UNCHANGED <<notice, sessions>> \/ notice' \in sessions' \cup {None}
  BY DEF Listens, Loop, Accept, Serves, Breaks, Calls, Asks, HangsUp, Answered
<1>6. Together'
  BY <1>2, <1>3 DEF Together
<1> QED
  BY <1>2, <1>3, <1>4, <1>5, <1>6 DEF Announced

LEMMA StepNotice == ASSUME Types, TrueNotice, [Next]_vars PROVE TrueNotice'
<1>1. CASE UNCHANGED <<app, server, inbox, notice, sessions, disturbed>>
  <2>1. \A i : Departs(i) <=> Departs(i)'
    BY <1>1 DEF Departs, server
  <2> QED
    BY <1>1, <2>1 DEF TrueNotice, Together, Announced, server
<1>2. CASE \E v \in Viewers : clientHook(v) \/ clientGone(v) \/ CutText(v)
  <2>1. PICK v \in Viewers : clientHook(v) \/ clientGone(v) \/ CutText(v)
    BY <1>2
  <2>2. sending = None /\ native # 0 /\ UNCHANGED <<app, notice, sessions>>
    BY <2>1 DEF clientHook, clientGone, CutText, Rest, manager
  <2>3. clients \subseteq Viewers /\ "DISCONNECTED" \notin Viewers /\ "CLIP" \notin Viewers
    BY AppProcessAssumption DEF AppProcessAssumption, Types, ServerOK
  <2>4. PICK c \in SUBSET Viewers, message \in Viewers \cup {"DISCONNECTED", "CLIP"} :
          /\ message \in Viewers => message \in c
          /\ clients \subseteq c \/ (message = "DISCONNECTED" /\ clients # {})
          /\ send_remote_msg(message, c)
    <3>1. CASE clientHook(v)
      BY <2>3, <3>1 DEF clientHook
    <3>2. CASE clientGone(v)
      BY <2>3, <3>2 DEF clientGone
    <3>3. CASE CutText(v)
      BY <2>3, <3>3 DEF CutText
    <3> QED
      BY <2>1, <3>1, <3>2, <3>3
  <2> QED
    BY <2>2, <2>4, MessageNotice
<1>3. CASE Send
  BY <1>3, SendNotice
<1>4. CASE startVncServer
  <2>1. /\ app = "up" /\ native = 0 /\ native' = binary /\ binary # 0
        /\ UNCHANGED <<app, clients, sending, inbox, notice, sessions, disturbed>>
    BY <1>4 DEF startVncServer, Rest, manager, past
  <2>2. \A i : Departs(i) <=> Departs(i)'
    BY <2>1 DEF Departs
  <2> QED
    BY <2>1, <2>2 DEF TrueNotice, Together, Announced
<1>5. CASE stopVncServer
  BY <1>5 DEF stopVncServer, TrueNotice
<1>6. CASE Killall \/ NativeIsKilled
  <2> SUFFICES ASSUME ~disturbed' PROVE Together' /\ Announced'
    BY DEF TrueNotice
  <2>1. /\ Ends /\ ~disturbed /\ clients = {} /\ sending = None
        /\ UNCHANGED <<app, inbox, notice, sessions, clients, sending>>
    BY <1>6 DEF Killall, NativeIsKilled, Ends, manager
  <2>2. \A i : Departs(i) <=> Departs(i)'
    BY <2>1 DEF Departs
  <2> QED
    BY <2>1, <2>2 DEF Ends, TrueNotice, Together, Announced
<1>7. CASE isFirstRun
  <2> SUFFICES ASSUME ~disturbed' PROVE Together' /\ Announced'
    BY DEF TrueNotice
  <2>1. /\ app = "down" /\ ~disturbed /\ UNCHANGED <<native, clients, sending, inbox, notice, sessions>>
    BY <1>7 DEF isFirstRun, server, manager, past
  <2>2. \A i : Departs(i) <=> Departs(i)'
    BY <2>1 DEF Departs
  <2> QED
    BY <2>1, <2>2 DEF TrueNotice, Together, Announced
<1>8. CASE copyBinary \/ createBinary
  <2> SUFFICES ASSUME ~disturbed' PROVE Together' /\ Announced'
    BY DEF TrueNotice
  <2>1. /\ app # "up" /\ ~disturbed /\ UNCHANGED <<native, clients, sending, inbox, notice, sessions>>
    BY <1>8 DEF copyBinary, createBinary, server, manager, past
  <2>2. \A i : Departs(i) <=> Departs(i)'
    BY <2>1 DEF Departs
  <2> QED
    BY <2>1, <2>2 DEF TrueNotice, Together, Announced
<1>9. CASE AppIsKilled \/ Upgrade
  BY <1>9, FallsNotice DEF AppIsKilled, Upgrade
<1>10. CASE LocalSocketServer
  BY <1>10, ReaderNotice
<1>11. CASE Listens \/ Loop \/ \E m \in Managers : Calls(m) \/ Asks(m) \/ HangsUp(m)
  BY <1>11, LoopNotice
<1>12. CASE UNCHANGED vars
  BY <1>1, <1>12 DEF vars, manager, past
<1> QED
  BY <1>2, <1>3, <1>4, <1>5, <1>6, <1>7, <1>8, <1>9, <1>10, <1>11, <1>12 DEF Next, Native

\* As long as no process ended, whom the notification names is connected once all messages
\* are read, for any number of clients of both kinds that come and go.
THEOREM NoticeStaysTrue == Spec => []NoticeIsTrue
<1>1. Init => TrueNotice
  <2> SUFFICES ASSUME Init PROVE Together /\ Announced
    BY DEF TrueNotice
  <2>1. Len(inbox) = 0 /\ None \notin Viewers
    BY EmptySeq, Bounds DEF Init
  <2>2. \A i \in 1 .. Len(inbox) : FALSE
    BY <2>1
  <2> QED
    BY <2>1, <2>2 DEF Init, Together, Announced
<1>2. Types /\ TrueNotice => NoticeIsTrue
  <2> SUFFICES ASSUME TrueNotice, ~disturbed, inbox = <<>>, sending = None, notice # None
               PROVE  notice \in clients \cup sessions
    BY DEF NoticeIsTrue
  <2>1. Len(inbox) = 0 /\ None # "DISCONNECTED"
    BY EmptySeq, Bounds
  <2>2. ~Departs(1)
    BY <2>1 DEF Departs
  <2> QED
    BY <2>2 DEF TrueNotice, Announced
<1> QED
  BY <1>1, <1>2, StepNotice, AlwaysTypes, PTL DEF Spec
=============================================================================
