CONSTANTS
  Workers = {w1, w2}
  Fingerprints = {f1}
  NoPlan = NoPlan
  N = 2
  MediaItems = {2}
  FallbackItems = {}
  CameraItems = {}
  WhatsApp = TRUE
  Timely = TRUE
  MaxAttempts = 3
  MaxFaults = 1
  MaxCrashes = 1
  MaxDays = 0
SPECIFICATION FairSpec
INVARIANTS ItemsInOrder
PROPERTIES KeepsPromise PlanSettles
CHECK_DEADLOCK FALSE
