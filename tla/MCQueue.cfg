SPECIFICATION FairSpec
CONSTANTS
  Senders = {s1, s2}
  Closers = {c1, c2}
  Events = {e1, e2}
  MaxSends = 4
INVARIANTS TypeOK InOrder NoLostWakeup CloseIsFinal
PROPERTIES ImplementsStream CloseReturns AcceptedIsDelivered
