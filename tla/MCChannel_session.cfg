SPECIFICATION Spec
CONSTANTS
  ClientMsgs <- MCSession
  MaxMsgs = 5
  MaxOut = 2
  MaxRekeys = 1
  MaxEarly = 1
  Streams = {"stdout", "stderr"}
  INITIAL_WINDOW = 3
  CREDIT_BATCH = 1
  MAX_DEFERRED = 2
  CHUNK = 1
  OUT_QUEUE = 2
  STDIN_QUEUE = 1
  MaxWindow = 3
INVARIANTS OutputBeforeExit HalfDuplex
PROPERTIES AuditExact
