SPECIFICATION Spec
CONSTANTS
  Devs = {d1, d2}
  Closers = {c1}
  MaxGen = 2
  Watching = watching
INVARIANTS KnownIsToldIsThere CloseReleases
PROPERTIES ImplementsWatcher
CHECK_DEADLOCK FALSE
