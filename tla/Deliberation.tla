---------------------------- MODULE Deliberation ----------------------------
(***************************************************************************)
(* One run of DeliberateUseCase over the Deliberation aggregate, and of    *)
(* RunCouncilDecisionUseCase around it: every agent of a council drafts a  *)
(* proposal, the agents critique and revise each other's in rounds, the    *)
(* validators report on each, the reports are scored and ranked, and the   *)
(* close-out stores, counts, selects and announces.  Any awaited call may  *)
(* fail, and the run then ends where it stands.                            *)
(*                                                                         *)
(* A text is represented by who wrote it and how often it was revised.  A  *)
(* score is counted in whole units: with no judge it is the number of      *)
(* validators that passed (each proposal of a run meets the same ones, so  *)
(* the fraction orders them alike), with a judge it is the verdict.        *)
(* Operators whose name ends in a bug's name are faulty variants of the    *)
(* operator that follows them.                                             *)
(***************************************************************************)
EXTENDS Naturals, FiniteSets

CONSTANTS
    AgentCount,   \* agents resolved for the run, numbered in the council's order
    Rounds,       \* the numbers of rounds a task may ask for
    DefaultRounds,
    ProposalIds,  \* generated ids; they are compared where scores tie
    Validators,   \* how many validators there are besides the judge
    MaxVerdict,   \* the judge's scale
    Threshold,    \* the verdict from which the judge passes a proposal
    NoOutcome,    \* a proposal the validators have not seen
    NoProposal

ASSUME CouncilAssumption == AgentCount \in Nat \ {0}

ASSUME RoundsAssumption == Rounds \subseteq Nat /\ DefaultRounds \in Rounds

ASSUME ProposalIdsAssumption == ProposalIds \subseteq Nat /\ NoProposal \notin ProposalIds

ASSUME ScoringAssumption ==
    Validators \in Nat /\ MaxVerdict \in Nat /\ Threshold \in 0..MaxVerdict

Agents == 0..(AgentCount - 1)

Phases == {"Proposing", "Revising", "Validating", "Scoring", "Completed"}

\* A proposal's text.
Content == [writer: Agents, revisions: Nat]

\* ValidationOutcome: what the validators said, and of which text.
Outcome == [checks: 0..Validators, verdict: 0..MaxVerdict, of: Content]

ASSUME OutcomeAssumption == NoOutcome \notin Outcome

VARIABLES
    request,    \* rounds, whether an output contract is in force, who asked,
                \* and whether the service runs with a judge
    phase,
    seeded,     \* the proposal each agent drafted, NoProposal before it did
    content,    \* the text of each proposal
    outcome,    \* its validation outcome
    rank,       \* its place in the ranking, once there is one
    turn,       \* whose review comes next: rounds behind it, and the agent
    close,      \* how far the close-out got, and how the run ended
    repository, \* the ranking stored under the task id; {} if none is
    counted,    \* deliberations counted by the statistics
    announced,  \* the winner DeliberationCompletedEvent names
    decision    \* what RunCouncilDecision returned

aggregate == <<phase, seeded, content, outcome, rank, turn>>
effects == <<repository, counted, announced, decision>>
vars == <<request, aggregate, close, effects>>

Request == [rounds: Rounds, contract: BOOLEAN, judged: BOOLEAN,
            mode: {"plain", "Strict", "Warn"}]

Decision == [winner: ProposalIds, passed: BOOLEAN]

TypeOK ==
    /\ request \in Request
    /\ phase \in Phases
    /\ seeded \in [Agents -> ProposalIds \cup {NoProposal}]
    /\ content \in [ProposalIds -> Content]
    /\ outcome \in [ProposalIds -> Outcome \cup {NoOutcome}]
    /\ rank \in [ProposalIds -> Nat]
    /\ turn \in [round: Nat, agent: Agents]
    /\ close \in {"running", "saving", "counting", "selecting",
                  "deciding", "warning", "done", "refused", "failed"}
    /\ repository \in SUBSET [ProposalIds -> Nat]
    /\ counted \in Nat
    /\ announced \in ProposalIds \cup {NoProposal}
    /\ decision \in SUBSET Decision

\* The proposals drafted so far.
Proposals == {seeded[i] : i \in Agents} \ {NoProposal}

\* Deliberation::start, for a task put directly or by RunCouncilDecision,
\* which always sets a contract and leaves the rest at its default.
Init ==
    /\ request \in Request
    /\ request.mode # "plain" => request.contract /\ request.rounds = DefaultRounds
    /\ phase = "Proposing"
    /\ seeded = [i \in Agents |-> NoProposal]
    /\ content = [p \in ProposalIds |-> [writer |-> 0, revisions |-> 0]]
    /\ outcome = [p \in ProposalIds |-> NoOutcome]
    /\ rank = [p \in ProposalIds |-> 0]
    /\ turn = [round |-> 0, agent |-> 0]
    /\ close = "running"
    /\ repository = {}
    /\ counted = 0
    /\ announced = NoProposal
    /\ decision = {}

-----------------------------------------------------------------------------
\* The next agent drafts a proposal; its fresh id is not taken.
Draft(i, p) ==
    /\ close = "running"
    /\ phase = "Proposing"
    /\ seeded[i] = NoProposal
    /\ \A j \in Agents : j < i => seeded[j] # NoProposal
    /\ p \notin Proposals
    /\ seeded' = [seeded EXCEPT ![i] = p]
    /\ content' = [content EXCEPT ![p] = [writer |-> i, revisions |-> 0]]
    /\ UNCHANGED <<request, phase, outcome, rank, turn, close, effects>>

\* run_peer_review_rounds returns at once, or has been through all rounds.
ReviewsDone ==
    \/ request.rounds = 0
    \/ AgentCount < 2
    \/ turn.round = request.rounds

\* Agent i reviews the proposal of the agent after it.
PeerOf(i) == (i + 1) % AgentCount

\* ordered_proposal_ids[peer_idx].
ReviewTarget(i) == seeded[PeerOf(i)]

\* Proposal::revise.
Revised(text, i) == [writer |-> i, revisions |-> text.revisions + 1]

\* An agent critiques its peer's proposal and replaces it by its revision.
Review ==
    /\ close = "running"
    /\ phase = "Revising"
    /\ ~ReviewsDone
    /\ content' = [content EXCEPT ![ReviewTarget(turn.agent)] = Revised(@, turn.agent)]
    /\ turn' = IF turn.agent = AgentCount - 1
               THEN [round |-> turn.round + 1, agent |-> 0]
               ELSE [turn EXCEPT !.agent = @ + 1]
    /\ UNCHANGED <<request, phase, seeded, outcome, rank, close, effects>>

\* The validators report on the next proposal, in key order, and the reports
\* are attached to it.  Without a judge there is no verdict.
Validate(p, checks, verdict) ==
    /\ close = "running"
    /\ phase = "Validating"
    /\ p \in Proposals
    /\ outcome[p] = NoOutcome
    /\ \A q \in Proposals : q < p => outcome[q] # NoOutcome
    /\ ~request.judged => verdict = 0
    /\ outcome' = [outcome EXCEPT ![p] =
                     [checks |-> checks, verdict |-> verdict, of |-> content[p]]]
    /\ UNCHANGED <<request, phase, seeded, content, rank, turn, close, effects>>

\* The pipeline is through with the phase it is in.
StageDone ==
    CASE phase = "Proposing"  -> \A i \in Agents : seeded[i] # NoProposal
      [] phase = "Revising"   -> ReviewsDone
      [] phase = "Validating" -> \A p \in Proposals : outcome[p] # NoOutcome
      [] OTHER -> FALSE

NextPhase_SkipsRevising(ph) ==
    CASE ph = "Proposing"  -> "Validating"
      [] ph = "Revising"   -> "Scoring"
      [] ph = "Validating" -> "Revising"

\* DeliberationPhase::next, for the phases advance() is called in.
NextPhase(ph) ==
    CASE ph = "Proposing"  -> "Revising"
      [] ph = "Revising"   -> "Validating"
      [] ph = "Validating" -> "Scoring"

\* Deliberation::advance; observers are told.
Advance ==
    /\ close = "running"
    /\ StageDone
    /\ Proposals # {}
    /\ phase' = NextPhase(phase)
    /\ UNCHANGED <<request, seeded, content, outcome, rank, turn, close, effects>>

-----------------------------------------------------------------------------
\* ScoringPort::score: the judge's verdict where there is one, otherwise how
\* many validators passed.
Score(p) == IF request.judged THEN outcome[p].verdict ELSE outcome[p].checks

\* ValidationOutcome::all_passed, the judge's report included.
AllPassed(p) ==
    /\ outcome[p].checks = Validators
    /\ request.judged => outcome[p].verdict >= Threshold

\* The place of p in a sequence of the proposals sorted by `before`.
Place(before, p) == Cardinality({q \in Proposals : <<q, p>> \in before})

\* The comparison complete() sorts by: higher scores first, ties by id.
ByScore ==
    {pair \in Proposals \X Proposals :
        \/ Score(pair[1]) > Score(pair[2])
        \/ Score(pair[1]) = Score(pair[2]) /\ pair[1] < pair[2]}

\* Deliberation::complete.
Ranking == [p \in ProposalIds |-> IF p \in Proposals THEN Place(ByScore, p) ELSE 0]

\* prioritize_valid_outputs: those that passed, then those that did not, both
\* in the order of the ranking.
ValidFirst(ranking) ==
    {pair \in Proposals \X Proposals :
        \/ AllPassed(pair[1]) /\ ~AllPassed(pair[2])
        \/ /\ AllPassed(pair[1]) = AllPassed(pair[2])
           /\ ranking[pair[1]] < ranking[pair[2]]}

Prioritized_NotAtAll(ranking) == ranking

Prioritized(ranking) ==
    [p \in ProposalIds |-> IF p \in Proposals THEN Place(ValidFirst(ranking), p) ELSE 0]

\* The run completes; under a contract its ranking is reordered.
Complete ==
    /\ close = "running"
    /\ phase = "Scoring"
    /\ rank' = IF request.contract THEN Prioritized(Ranking) ELSE Ranking
    /\ phase' = "Completed"
    /\ close' = "saving"
    /\ UNCHANGED <<request, seeded, content, outcome, turn, effects>>

-----------------------------------------------------------------------------
\* DeliberationRepositoryPort::save, an upsert.  An error may be reported for
\* a save that took effect.
Save ==
    /\ close = "saving"
    /\ repository' = {rank}
    /\ close' \in {"counting", "failed"}
    /\ UNCHANGED <<request, aggregate, counted, announced, decision>>

\* StatisticsPort::record_deliberation.
Count ==
    /\ close = "counting"
    /\ counted' = counted + 1
    /\ close' \in {"selecting", "failed"}
    /\ UNCHANGED <<request, aggregate, repository, announced, decision>>

Eligible_Any(p) == TRUE

\* What pick_winner looks for.
Eligible(p) == request.contract => AllPassed(p)

\* p is the first of the ranking that will do.
IsWinner(p) ==
    /\ p \in Proposals
    /\ Eligible(p)
    /\ \A q \in Proposals : Eligible(q) => rank[p] <= rank[q]

\* pick_winner finds one, and it is announced; or the publish fails, which it
\* may also report for an event that went out.
Announce(p) ==
    /\ close = "selecting"
    /\ IsWinner(p)
    /\ announced' = p
    /\ close' \in {IF request.mode = "plain" THEN "done" ELSE "deciding", "failed"}
    /\ UNCHANGED <<request, aggregate, repository, counted, decision>>

\* NoValidProposal: the run is refused, after it was stored and counted.
Refuse ==
    /\ close = "selecting"
    /\ \A p \in Proposals : ~Eligible(p)
    /\ close' = IF request.mode = "Warn" THEN "warning" ELSE "refused"
    /\ UNCHANGED <<request, aggregate, effects>>

\* RunCouncilDecision hands on the winner of a run that has one.
Decide ==
    /\ close = "deciding"
    /\ decision' = {[winner |-> announced, passed |-> TRUE]}
    /\ close' = "done"
    /\ UNCHANGED <<request, aggregate, repository, counted, announced>>

\* In Warn mode a refused run is read back and its first proposal returned,
\* marked as not having passed.
DecideAnyway ==
    /\ close = "warning"
    /\ \E ranking \in repository, p \in Proposals :
         /\ \A q \in Proposals : ranking[p] <= ranking[q]
         /\ decision' = {[winner |-> p, passed |-> FALSE]}
    /\ close' = "done"
    /\ UNCHANGED <<request, aggregate, repository, counted, announced>>

\* An agent, a validator, the scoring or a port fails, or an id is taken.
Fail ==
    /\ close \in {"running", "saving", "counting", "selecting", "deciding", "warning"}
    /\ close' = "failed"
    /\ UNCHANGED <<request, aggregate, effects>>

Next ==
    \/ \E i \in Agents, p \in ProposalIds : Draft(i, p)
    \/ Review
    \/ \E p \in ProposalIds, checks \in 0..Validators, verdict \in 0..MaxVerdict :
         Validate(p, checks, verdict)
    \/ Advance
    \/ Complete
    \/ Save
    \/ Count
    \/ \E p \in ProposalIds : Announce(p)
    \/ Refuse
    \/ Decide
    \/ DecideAnyway
    \/ Fail

Spec == Init /\ [][Next]_vars
-----------------------------------------------------------------------------
\* How often a run that asks for these rounds revises each proposal.
RevisionsDue == IF AgentCount < 2 THEN 0 ELSE request.rounds

\* When review is over, every proposal was revised once per round, and the text
\* that goes on to the validators is another agent's than its author's
\* (run_peer_review_rounds pairs agents with seeded ids, not with key order).
ReviewedByPeers ==
    phase \in {"Validating", "Scoring", "Completed"} =>
        \A i \in Agents :
            /\ content[seeded[i]].revisions = RevisionsDue
            /\ (content[seeded[i]].writer # i) = (RevisionsDue > 0)

\* What the validators reported on is the text that is ranked and returned: no
\* proposal changes after attach_validations saw it.
JudgedAsItStands ==
    \A p \in Proposals : outcome[p] # NoOutcome => outcome[p].of = content[p]

\* The order the ranking promises: under a contract what passed every validator
\* comes first; then higher scores, then smaller ids.
Better(p, q) ==
    \/ request.contract /\ AllPassed(p) /\ ~AllPassed(q)
    \/ /\ request.contract => AllPassed(p) = AllPassed(q)
       /\ Score(p) > Score(q) \/ (Score(p) = Score(q) /\ p < q)

\* A completed ranking puts each proposal in its own place, in the order
\* promised, after the two sorts of complete and prioritize_valid_outputs.
RankedInOrder ==
    phase = "Completed" =>
        \A p, q \in Proposals : (rank[p] < rank[q]) = Better(p, q)

\* The announced winner passed every validator if there is a contract, and no
\* proposal that was eligible scored higher (pick_winner).
WinnerIsBest ==
    announced # NoProposal =>
        /\ announced \in Proposals
        /\ request.contract => AllPassed(announced)
        /\ \A p \in Proposals :
             (request.contract => AllPassed(p)) => Score(p) <= Score(announced)

\* A run that is announced, and one that is refused, was stored and counted
\* once before; and whoever asks for the stored result is told the winner that
\* was announced, the first of its ranking (get_deliberation_result).
RecordShowsResult ==
    announced # NoProposal \/ close \in {"warning", "refused"} =>
        /\ repository = {rank}
        /\ counted = 1
        /\ announced # NoProposal =>
             \A p \in Proposals \ {announced} : rank[announced] < rank[p]

\* RunCouncilDecision says "passed" of a winner exactly when the winner passed
\* every validator, in both modes (the `passed` field of its output).
DecisionHonest == \A d \in decision : d.winner \in Proposals /\ d.passed = AllPassed(d.winner)
=============================================================================
