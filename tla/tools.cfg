SPECIFICATION Spec
CONSTANTS
    Backends = {"embedded", "grpc", "fixture"}

INVARIANTS
  ArrivesAsGiven
  AnsweredTruly
  AbsenceSurvives
