SPECIFICATION FairSpec
CONSTANTS
  Readers = {1, 2}
  Writers = {3, 4}
  Closers = {5, 6}
  Nobody = 0
  MaxReports = 1
  MaxCalls = 2
 
PROPERTIES ClosesOwnHandleOnly OneAtATime CallsEnd
CHECK_DEADLOCK FALSE
