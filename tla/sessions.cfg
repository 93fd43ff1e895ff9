SPECIFICATION Spec
CONSTANTS
  Callers = {c1, c2}
  Nobody = Nobody
  MaxTokens = 3
  MaxLinks = 2
  MaxRequests = 5
SYMMETRY CallerSymmetry
INVARIANTS
  TypeOK
  OneLiveToken
  SignedOutEverywhere
  LinksDieWithThePassword
  LinksWorkOnce
  NoCircleWithoutReset
PROPERTIES
  SignInKept
CHECK_DEADLOCK FALSE
