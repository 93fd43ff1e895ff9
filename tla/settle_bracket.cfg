SPECIFICATION Spec
CONSTANTS
  e1 = e1  e2 = e2  pool = pool  bracket = bracket  draft = draft
  Events = {e1}
  Contests = {pool, bracket}
  Admins = {a1, a2}
  Tasks = {}
  NoTask = NoTask
  Brackets = {bracket}
  LateCutoff = {bracket}
  Unscorable = {pool}
  Template = {}
  Editable = {}
  AutoEvents = {e1}
  InitialEvents <- CoversFirst
  InitialContest <- AllOpen
  InitialStatus <- BothUnderWay
  InitialPhase <- BothStarted
  Overlap = TRUE
  MaxRequests = 2
  MaxFaults = 1
  MaxDrops = 0
  MaxScore = 2
SYMMETRY AdminSymmetry
INVARIANTS
  OnlyCompletedScored
CHECK_DEADLOCK FALSE
