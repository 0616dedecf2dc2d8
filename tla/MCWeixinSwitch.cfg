SPECIFICATION Spec
CONSTANTS
  Accounts = {a, b}
  None = None
  Configured = None
  Token = 0
  MaxSeq = 1
  MaxLogins = 2
  MaxFailures = 1
  MaxRestarts = 1
  MayUnbind = FALSE
INVARIANT BatchStaysWithItsAccount
