CONSTANTS
  Viewers = {v1, v2}
  Managers = {m1, m2}
  Silent = {m2}
  Limit = 2
  Backlog = 2
  MaxVersion = 2
  MaxEvents = 3
  None = None
SPECIFICATION FairSpec
INVARIANTS TypeOK NoticeIsTrue LeaksAreLosses InstalledUnlessTorn
PROPERTIES FallsByAKill ManagersAreServed
CHECK_DEADLOCK FALSE
