SPECIFICATION Spec
CONSTANTS
  Devs = {d1}
  Closers = {c1}
  MaxGen = 2
  Watching = watching
PROPERTIES PublishesChangesOnly
CHECK_DEADLOCK FALSE
