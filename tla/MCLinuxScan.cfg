SPECIFICATION Spec
CONSTANTS
  Names = {n1, n2}
  Closers = {}
  MaxGen = 1
  SockCap = 2
  MaxNoise = 0
  BatchSize = 1
  Watching = watching
INVARIANTS ViewAccurateWhenQuiet
PROPERTIES SnapshotCoversSteadyDevices
CHECK_DEADLOCK FALSE
