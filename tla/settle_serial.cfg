SPECIFICATION Spec
CONSTANTS
  e1 = e1  e2 = e2  pool = pool  bracket = bracket  draft = draft
  Events = {e1, e2}
  Contests = {pool, bracket}
  Admins = {a1}
  Tasks = {t1}
  NoTask = NoTask
  Brackets = {bracket}
  LateCutoff = {bracket}
  Unscorable = {}
  Template = {pool}
  Editable = {pool}
  AutoEvents = {e1}
  InitialEvents <- CoversFirst
  InitialContest <- AllDraft
  InitialStatus <- FirstReleased
  InitialPhase <- NothingStarted
  Overlap = FALSE
  MaxRequests = 4
  MaxFaults = 0
  MaxDrops = 0
  MaxScore = 2
INVARIANTS
  NothingStranded
PROPERTIES
  PromiseKept
CHECK_DEADLOCK FALSE
