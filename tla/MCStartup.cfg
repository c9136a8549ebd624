SPECIFICATION Spec
CONSTANTS
  Profiles <- AnyProfile
  MaxFaults = 2
  MaxTime = 6
  MaxInteger = 13
  INSTANT_MAX = 12
  FAR_FUTURE = 4
  ABORT_GRACE = 1
  STOP_MARGIN = 2
  TimeoutStop = 1
INVARIANTS ReadsOnlyTrusted LogTells
PROPERTIES KeygenSafe KeygenServes StopIsGraceful
CHECK_DEADLOCK FALSE
