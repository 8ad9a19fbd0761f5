SPECIFICATION FairSpec
CONSTANTS
  Ceremonies = {1, 2}
  Message <- mcMessage
  Publishers = {p1, p2}
  NoClaim = NoClaim
  BatchSize = 1
  MaxAttempts = 2
  MaxCrashes = 1

INVARIANTS
  ArrivesInOrder
  RetiredOnceArrived
  QuarantinedOnceExhausted

PROPERTIES
  EventuallySettled
