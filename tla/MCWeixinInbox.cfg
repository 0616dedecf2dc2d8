SPECIFICATION FairSpec
CONSTANTS
  Accounts = {a}
  None = None
  Configured = a
  Token = 3
  MaxSeq = 2
  MaxLogins = 2
  MaxFailures = 1
  MaxRestarts = 1
  MayUnbind = FALSE
PROPERTY KeepsPromise
PROPERTY Fetched
