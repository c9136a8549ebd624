SPECIFICATION Spec
CONSTANTS
  ClientMsgs <- MCStdin
  MaxMsgs = 7
  MaxOut = 0
  MaxRekeys = 1
  MaxEarly = 1
  Streams = {"stdout"}
  INITIAL_WINDOW = 3
  CREDIT_BATCH = 2
  MAX_DEFERRED = 2
  CHUNK = 1
  OUT_QUEUE = 1
  STDIN_QUEUE = 1
  MaxWindow = 3
INVARIANTS BuffersExact StdinKeepsMoving StdinInOrder
