SPECIFICATION Spec
CONSTANTS
  Profiles <- AnySession
  MaxInode = 13
  MAX_HANDLES = 2
  MAX_NAMES = 2
  MAX_PACKET = 4
  MAX_DATA = 1
  SYMLOOP_MAX = 3
  KernelLoops = 4
PROPERTIES HandlesExact RefusedOpenHarmless OkMeansDone ListingComplete RenameSafe RealpathCorrect
