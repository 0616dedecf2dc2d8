SPECIFICATION PairedSpec
CONSTANTS
  h1 = h1
  h2 = h2
  a1 = a1
  a2 = a2
  b1 = b1
  None = None
  HubOf <- MCHubOf
  Routes = {1}
  Hubs = {h1}
  Tokens = {a1, a2}
  Gates = {g1, g2}
  Deliveries = {1}
  ProofLife = 1
  Skew = 1
  ExchangeLife = 1
  UpdateLimit = 2
  SeenLimit = 2
  RouteLimit = 2
  MaxTime = 1
  MaxRevision = 4
  MaxResets = 1
SYMMETRY GateSymmetry
PROPERTY DeviceIsPinned
PROPERTY SendsForSelectedHome
PROPERTY OnlyLostHomesDropped
CHECK_DEADLOCK FALSE
