SPECIFICATION Spec
CONSTANTS
  States <- mcStates
  InitialState = "draft"
  TerminalStates = {"closed"}
  Steps = {"write"}
  StepState <- mcStepState
  MaxAttempts <- mcMaxAttempts
  Triggers <- mcTriggers
  Transitions <- mcTransitions
  Guards = {"approved", "written", "failed", "settled"}
  GuardCondition <- mcGuardCondition
  lead = lead
  Roles = {lead}
  StepRoles <- mcStepRoles
  TriggerRoles <- mcTriggerRoles
  k1 = k1
  k2 = k2
  k3 = k3
  Keys = {k1, k2, k3}
  LeaseTtl = 1
  NoLease = NoLease
  NoSession = NoSession
  Callers = {c1, c2}
  Offered <- StepCalls
  Contexts <- EmptyContext
  MaxTime = 3
  MaxRevision = 5
SYMMETRY Symmetry

INVARIANTS
  JournalAgreesWithSession
  OutcomesSealedOnce
  TranscriptSound
  StagedWorkIsCurrent

PROPERTIES
  LiveLeaseNotStolen
