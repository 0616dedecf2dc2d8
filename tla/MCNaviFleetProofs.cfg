SPECIFICATION SwitchedSpec
CONSTANTS
  h1 = h1
  h2 = h2
  a1 = a1
  a2 = a2
  b1 = b1
  None = None
  HubOf <- MCHubOf
  Routes = {1}
  Hubs = {h1, h2}
  Tokens = {a1, a2, b1}
  Gates = {1}
  Deliveries = {}
  ProofLife = 2
  Skew = 1
  ExchangeLife = 1
  UpdateLimit = 2
  SeenLimit = 3
  RouteLimit = 2
  MaxTime = 3
  MaxRevision = 8
  MaxResets = 0
INVARIANT ReleaseNeverBlocked
CHECK_DEADLOCK FALSE
INVARIANT HomesAreTold
PROPERTY NewestProofWins
PROPERTY AnswerFitsProof
