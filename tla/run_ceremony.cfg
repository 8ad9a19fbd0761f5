SPECIFICATION Spec
CONSTANTS
  States <- mcStates
  InitialState = "draft"
  TerminalStates = {"closed"}
  Steps = {"write", "edit", "proof"}
  StepState <- mcStepState
  MaxAttempts <- mcMaxAttempts
  Triggers <- mcTriggers
  Transitions <- mcTransitions
  Guards = {"approved", "written"}
  GuardCondition <- mcGuardCondition
  Roles = {"lead"}
  StepRoles <- mcStepRoles
  TriggerRoles <- mcTriggerRoles
  Keys <- mcKeys
  LeaseTtl = 1
  NoLease = NoLease
  NoSession = NoSession
  StepOrder <- mcStepOrder
  TransitionOrder <- mcTransitionOrder
  Drivers = {d1, d2}
  Offered <- ClientRequests
  Contexts <- SomeContexts
  MaxTime = 1
  MaxRevision = 5

INVARIANTS
  RunReportsTruly
  HeardWhatCameBefore

PROPERTIES
  EveryRunEnds
  DrivenSessionIsAtomic
