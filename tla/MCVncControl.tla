---------------------------- MODULE MCVncControl ----------------------------
EXTENDS VncControl, TLC

Symmetry == Permutations(Pid) \cup Permutations(Shell)

\* The native server is a child of a root shell: it may outlive the Java process that
\* started it, and run when the service begins.  That is the only fault then.
Survivor == [up |-> TRUE, port |-> DefaultPort, scale |-> DefaultScale, deaf |-> FALSE]

MCInit ==
  /\ JavaInit
  /\ ticking = TRUE
  /\ \E running \in SUBSET Pid :
       /\ \A p, q \in running : p = q
       /\ proc = [p \in Pid |-> IF p \in running THEN Survivor ELSE Gone]
       /\ faults = (IF running = {} THEN 0 ELSE MaxFaults)
  /\ shell = [s \in Shell |-> Idle]
  /\ wanted = FALSE /\ requests = 0

\* Only without a service may everything rest.
Resting == ~ticking /\ MainIsFree /\ pc["timer"] = "idle" /\ UNCHANGED vars

MCSpec == MCInit /\ [][Next \/ Resting]_vars
=============================================================================
