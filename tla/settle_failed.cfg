SPECIFICATION Spec
CONSTANTS
  e1 = e1  e2 = e2  pool = pool  bracket = bracket  draft = draft
  Events = {e1, e2}
  Contests = {pool}
  Admins = {a1}
  Tasks = {}
  NoTask = NoTask
  Brackets = {}
  LateCutoff = {}
  Unscorable = {}
  Template = {}
  Editable = {}
  AutoEvents = {e1}
  InitialEvents <- CoversBoth
  InitialContest <- AllActive
  InitialStatus <- BothUnderWay
  InitialPhase <- BothOver
  Overlap = FALSE
  MaxRequests = 2
  MaxFaults = 1
  MaxDrops = 0
  MaxScore = 2
INVARIANTS
  CompletedCountsEveryEvent
CHECK_DEADLOCK FALSE
