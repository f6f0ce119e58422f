SPECIFICATION FairSpec
CONSTANTS
  Readers = {r1, r2}
  Writers = {w1, w2}
  Features = {f1}
  Nobody = Nobody
  MaxReports = 1
  MaxCalls = 2
INVARIANTS NoReportLost
PROPERTIES DescriptorSafe OneAtATime CallsReturn
CHECK_DEADLOCK FALSE
