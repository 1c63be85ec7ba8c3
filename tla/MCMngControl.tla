---- MODULE MCMngControl ----
EXTENDS MngControl, TLC

\* Only without a service may everything rest.
Resting == ~ticking /\ job = "none" /\ queue = <<>> /\ pc["timer"] = "idle" /\ UNCHANGED vars

MCSpec == Init /\ [][Next \/ Resting]_vars

MCFairSpec ==
  /\ MCSpec
  /\ WF_vars(MainStep) /\ WF_vars(TimerStep) /\ \A s \in Server : WF_vars(Runs(s))
====
