SPECIFICATION FairSpec
CONSTANTS
  SeqRange = 10
  MaxPackets = 3
  MaxBytes = 100
  MAX_AUTH_ATTEMPTS = 2
  MAX_DEFERRED = 13
  Burst = 1
  MaxLag = 1
  MaxOutput = 1
  MaxRekeys = 1
  Profiles <- AnyProfile
INVARIANTS KeysExact ConformingClientServed AuthBudget
PROPERTIES RekeyCompletes
