SPECIFICATION Spec
CONSTANTS
  Callers = {c1, c2}
  Jobs <- MCJobs
  Foreign <- MCForeign
  Parses <- MCParses
  EndOfTime = 9
  PageSize = 1
  MaxPages = 3
  MaxJobs = 2
  MaxTimeouts = 1
SYMMETRY Symmetry

INVARIANTS
  AnsweredByOwn
  RecallIsExact
  RememberedOnce
  ChainIsShortest
