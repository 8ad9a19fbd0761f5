SPECIFICATION Spec
CONSTANTS
  NoDefinition = NoDefinition
  NoSession = NoSession
  v1 = v1
  v2 = v2
  Versions = {v1, v2}
  CapabilityLabels = {20, 21}
  Drafts <- AllDrafts
  Offered <- Alternatives
  Mountable <- Directory
  Callers = {c1, c2}
  Sessions = {s1}
  Durable = TRUE
SYMMETRY CallerSymmetry

INVARIANTS
  AnalysisIsRight
  SessionsResolve
  CarriedSessionsGoOn
