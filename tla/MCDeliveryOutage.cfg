CONSTANTS
  Workers = {w1, w2}
  Fingerprints = {f1}
  NoPlan = NoPlan
  N = 1
  MediaItems = {1}
  FallbackItems = {1}
  CameraItems = {1}
  WhatsApp = FALSE
  Timely = TRUE
  MaxAttempts = 2
  MaxFaults = 1
  MaxCrashes = 0
  MaxDays = 0
SPECIFICATION Spec
SYMMETRY TaskSymmetry
INVARIANT OutageStaysRetryable
CHECK_DEADLOCK FALSE
