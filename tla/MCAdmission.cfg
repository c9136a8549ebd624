SPECIFICATION Spec
CONSTANTS
  Guards = {g1, g2, g3}
  Addrs <- MCAddrs
  max_connections = 3
  max_half_open = 2
  max_per_source = 1
  accept_rate = 1
  accept_burst = 2
  SWEEP_INTERVAL = 2
  Second = 2
  TickSteps = {1}
  MaxLockWait = 1
  MaxTime = 4
SYMMETRY MCSymmetry
INVARIANTS CountersExact CapsHold
PROPERTIES CapRefusalReadOnly BucketExact
