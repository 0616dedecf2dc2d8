CONSTANTS
  Workers = {w1, w2}
  Fingerprints = {f1, f2}
  NoPlan = NoPlan
  N = 1
  MediaItems = {1}
  FallbackItems = {1}
  CameraItems = {1}
  WhatsApp = FALSE
  Timely = FALSE
  MaxAttempts = 2
  MaxFaults = 1
  MaxCrashes = 1
  MaxDays = 1
SPECIFICATION Spec
SYMMETRY TaskSymmetry
INVARIANTS TypeOK OneLiveHolder DuplicatesAreExcused NoSendAfterRevocation StoredMediaFits RecordIsTrue ConflictNeverDelivers
PROPERTIES OutcomeIsFinal
CHECK_DEADLOCK FALSE
