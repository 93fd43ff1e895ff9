SPECIFICATION Spec
CONSTANTS
  e1 = e1  e2 = e2  pool = pool  bracket = bracket  draft = draft
  Events = {e1, e2}
  Contests = {pool}
  Admins = {a1, a2}
  Tasks = {}
  NoTask = NoTask
  Brackets = {}
  LateCutoff = {}
  Unscorable = {}
  Template = {}
  Editable = {}
  AutoEvents = {e1}
  InitialEvents <- CoversFirst
  InitialContest <- AllDraft
  InitialStatus <- BothScheduled
  InitialPhase <- NothingStarted
  Overlap = TRUE
  MaxRequests = 2
  MaxFaults = 0
  MaxDrops = 0
  MaxScore = 2
INVARIANTS
  NothingStranded
CHECK_DEADLOCK FALSE
