CONSTANTS
  j1 = j1
  j2 = j2
  Order <- MCOrder
  Once <- MCOnce
  DropMissed = {}
  Callers = {"c1"}
  RunIds = {1, 2, 3, 4}
  Initial <- MCInitial
  Outcomes = {"gone"}
  Editors = {"user", "agent"}
  NoRun = 0
  Every = 1
  Timeout = 1
  Backoff = 1
  Expire = 1
  KeepOnce = 1
  GoneMax = 2
  AgentTotal = 1
  EnabledMax = 2
  MaxTime = 1
  MaxEdits = 1
  MaxCrashes = 1
SPECIFICATION FairSpec
INVARIANTS
  TypeOK
  SlotRunsOnce
  AgentTotalBounded
  
PROPERTIES
  OverdueKept
  OverdueServed
CHECK_DEADLOCK FALSE
