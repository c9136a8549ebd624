SPECIFICATION FairSpec
CONSTANTS
  ClientMsgs <- MCRekey
  MaxMsgs = 7
  MaxOut = 1
  MaxRekeys = 1
  MaxEarly = 1
  Streams = {"stdout"}
  INITIAL_WINDOW = 3
  CREDIT_BATCH = 1
  MAX_DEFERRED = 2
  CHUNK = 1
  OUT_QUEUE = 1
  STDIN_QUEUE = 1
  MaxWindow = 3
INVARIANTS RepliesNotLost
PROPERTIES ChannelEnds
