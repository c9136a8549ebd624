SPECIFICATION Spec
CONSTANTS
  Setups <- AnySetup
  Requests <- AnyRequest
  Times <- ClockTimes
  WeakKeys <- Weak
  MAX_AUTH_ATTEMPTS = 3
  MAX_PRINCIPALS = 2
  MIN_NONCE_LEN = 2
  CERT_BLOB_BOUND = 2
INVARIANTS LoadAllOrNothing BudgetAudited
PROPERTIES AuthExact
CHECK_DEADLOCK FALSE
