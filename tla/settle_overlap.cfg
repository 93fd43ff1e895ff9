SPECIFICATION Spec
CONSTANTS
  e1 = e1  e2 = e2  pool = pool  bracket = bracket  draft = draft
  Events = {e1, e2}
  Contests = {pool, draft}
  Admins = {a1, a2}
  Tasks = {}
  NoTask = NoTask
  Brackets = {}
  LateCutoff = {}
  Unscorable = {}
  Template = {}
  Editable = {}
  AutoEvents = {e1}
  InitialEvents <- CoversBoth
  InitialContest <- EachStatus
  InitialStatus <- BothUnderWay
  InitialPhase <- BothOver
  Overlap = TRUE
  MaxRequests = 3
  MaxFaults = 1
  MaxDrops = 0
  MaxScore = 2
SYMMETRY AdminSymmetry
INVARIANTS
  TypeOK ResultsToldOnce DraftHoldsNoResult OnlyCompletedScored ResultsWaitForEveryEvent
PROPERTIES
  EventMovesAsDeclared ContestMovesForward FinishesStand
CHECK_DEADLOCK FALSE
