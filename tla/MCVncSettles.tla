---------------------------- MODULE MCVncSettles ----------------------------
EXTENDS VncControl

\* Three ways to let it settle: the user presses buttons; or there are also intents and a
\* process that exits, with one request less; or he starts the server, stops everything
\* and comes back, with one request more.
VARIABLE scenario

Pressed == \E port \in Port, scale \in Scale : PressStart(port, scale)
Works == MainStep \/ TimerStep \/ ShellStep \/ OpenActivity

Buttons == Works \/ Pressed \/ PressStop \/ CloseActivity
StopAll == Works \/ (requests = 1 /\ Pressed) \/ (requests = 2 /\ PressFinish)

\* Only without a service may everything rest.
Resting == ~ticking /\ MainIsFree /\ pc["timer"] = "idle" /\ UNCHANGED vars

SettlingNext ==
  /\ \/ scenario = "buttons" /\ Buttons /\ requests' < MaxRequests
     \/ scenario = "intents" /\ Next /\ requests' < MaxRequests - 1
     \/ scenario = "stop all" /\ StopAll
     \/ Resting
  /\ UNCHANGED scenario

SettlingInit == Init /\ scenario \in {"buttons", "intents", "stop all"}

Settling ==
  /\ SettlingInit /\ [][SettlingNext]_<<vars, scenario>>
  /\ WF_vars(MainStep) /\ WF_vars(TimerStep)
  /\ \A s \in Shell : WF_vars(ShellActs(s))
=============================================================================
