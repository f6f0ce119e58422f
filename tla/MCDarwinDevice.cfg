SPECIFICATION FairSpec
CONSTANTS
  Readers = {1, 2}
  Writers = {3, 4}
  Closers = {5, 6}
  NoWrite = 0
  ReportsCap = 1
  MaxReports = 2
  MaxCalls = 2
PROPERTIES ReleasedOnceWhenQuiet ReadsAreRight WritesOnce CallsReturn
CHECK_DEADLOCK FALSE
