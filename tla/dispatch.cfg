SPECIFICATION Spec
CONSTANTS
  Specialties = {"s1", "s2"}
  Seats = 1
  Callers = {c1}
  Triggers = {"mixed", "garbled"}
  None = None
  Requested <- Lists
  Newcomers <- SomeNewcomers
  Descriptors <- SomeDescriptors
  Calls <- SomeCalls
  Envs <- SomeEnvs
  Reaches <- SomeReaches
  Seeded = {"s1"}
  MaxKeys = 3
  MaxArrivals = 2
  MaxChanges = 2
  MaxBoots = 2

INVARIANTS
  ToldAsItWent
  SessionsHandedBack
  SeatsWereFilled
  EachSpecialtyAnswered

PROPERTIES
  WorkEnds

CHECK_DEADLOCK FALSE
