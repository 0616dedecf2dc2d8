SPECIFICATION FairSpec
CONSTANTS
  Messages = {m1, m2}
  Gates = {g1, g2}
  Lease = 1
  RetryDelay = 1
  Life = 2
  MaxAttempts = 2
  Keep = 3
  Replay = 3
  Capacity = 1
INVARIANT InboxIsSound
PROPERTY ClaimsAreRespected
PROPERTY KeepsPromise
PROPERTY Settles
