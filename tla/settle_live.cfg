SPECIFICATION FairSpec
CONSTANTS
  e1 = e1  e2 = e2  pool = pool  bracket = bracket  draft = draft
  Events = {e1, e2}
  Contests = {pool}
  Admins = {}
  Tasks = {t1, t2}
  NoTask = NoTask
  Brackets = {}
  LateCutoff = {}
  Unscorable = {}
  Template = {}
  Editable = {}
  AutoEvents = {e1, e2}
  InitialEvents <- CoversBoth
  InitialContest <- AllOpen
  InitialStatus <- FirstUnderWay
  InitialPhase <- FirstOver
  Overlap = TRUE
  MaxRequests = 0
  MaxFaults = 1
  MaxDrops = 1
  MaxScore = 1
INVARIANTS
  OneSweep NothingStranded
PROPERTIES
  FinishedContestCompletes DueEventStarts
CHECK_DEADLOCK FALSE
