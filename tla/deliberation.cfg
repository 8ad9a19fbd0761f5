\* Three agents, up to two rounds of review, one validator and a judge.
CONSTANTS
    AgentCount = 3
    RoundsBound = 2
    Rounds <- MCRounds
    DefaultRounds = 1
    ProposalIds <- MCIds
    Validators = 1
    MaxVerdict = 2
    Threshold = 1
    NoOutcome = NoOutcome
    NoProposal = NoProposal
SPECIFICATION Spec
\* A run ends.
CHECK_DEADLOCK FALSE

INVARIANTS
  JudgedAsItStands
  RecordShowsResult
  DecisionHonest
