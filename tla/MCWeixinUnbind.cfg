SPECIFICATION Spec
CONSTANTS
  Accounts = {a, b}
  None = None
  Configured = a
  Token = 3
  MaxSeq = 1
  MaxLogins = 2
  MaxFailures = 0
  MaxRestarts = 1
  MayUnbind = TRUE
INVARIANT AccountsAreSound
