SPECIFICATION Spec
CONSTANTS
  Ceremonies <- MCCeremonies
  Scripts <- MCScripts
  Env <- MCEnv
  Judgements <- MCJudgements
  Threshold = 50
  Replies <- MCReplies
  Trimmed <- MCTrimmed
  Later <- MCLater
  Overlong = {}
  Widths <- MCWidths
  Shape <- MCShape
  Deployments <- MCDeployments
  MaxFields = 8
  MaxRefs = 8
  MaxClaims = 2
  Cap = 4
  MaxBrief = 90

INVARIANTS
  WinnerHonoursContract
  CouncilsSeatRegistered
  NoPartDominates
