SPECIFICATION Spec
CONSTANTS
  e1 = e1  e2 = e2  favourite = favourite  contender = contender
  outsider = outsider  later = later  front = front  back = back
  Callers = {c1, c2}
  Nobody = Nobody
  Kinds = {"TIERED", "BUDGET_PICK", "RANDOM_DRAW", "SQUARES"}
  Squads = {s1, s2}
  MaxEntries = 2
  Events = {e1, e2}
  FirstEvents = {e1}
  Golfers = {favourite, contender, outsider, later}
  EventOf <- FieldOf
  TierOf <- TierFor
  PicksPerTier = 1
  RosterSize = 1
  Price <- PriceFor
  SalaryCap = 1
  Boxes = {b1, b2}
  MaxSquaresPerEntry = 1
  MaxEntriesPerSquad = 2
  PlanCaps = {1, 2}
  FirstCap = 1
  Bands = {2}
  RemoveEvents = FALSE
  MaxRequests = 5
SYMMETRY RoomSymmetry
INVARIANTS
  TypeOK
  DealtToAll
  SubmittedIsComplete
  RostersFit
  LineupsCoverEvents
  BoxesHeld
  ExpansionsRise
PROPERTIES
  CapHonoured
  DrawStands
  NoPickLost
CHECK_DEADLOCK FALSE
