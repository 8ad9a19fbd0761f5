------------------------ MODULE Deliberation_proofs ------------------------
(***************************************************************************)
(* Proofs about Deliberation, for any council, any number of rounds and any *)
(* validators.                                                              *)
(***************************************************************************)
EXTENDS Deliberation, FiniteSetTheorems, TLAPS

-----------------------------------------------------------------------------
\* The agent after i is an agent, another one if there are two, and every
\* agent comes after exactly one.
LEMMA PeerFacts ==
    /\ \A i \in Agents : PeerOf(i) = IF i = AgentCount - 1 THEN 0 ELSE i + 1
    /\ \A i \in Agents : PeerOf(i) \in Agents
    /\ \A i, j \in Agents : PeerOf(i) = PeerOf(j) => i = j
    /\ \A i \in Agents : \E k \in Agents : i = PeerOf(k)
    /\ AgentCount >= 2 => \A i \in Agents : PeerOf(i) # i
<1>1. ASSUME NEW i \in Agents
      PROVE  PeerOf(i) = IF i = AgentCount - 1 THEN 0 ELSE i + 1
  <2>1. i \in Nat /\ i < AgentCount /\ AgentCount \in Nat /\ AgentCount > 0
    BY CouncilAssumption DEF Agents
  <2>2. CASE i = AgentCount - 1
    BY <2>1, <2>2 DEF PeerOf
  <2>3. CASE i # AgentCount - 1
    <3>1. i + 1 \in Nat /\ i + 1 < AgentCount
      BY <2>1, <2>3
    <3>2. (i + 1) % AgentCount = i + 1
      BY <3>1, <2>1
    <3> QED BY <3>2, <2>3 DEF PeerOf
  <2> QED BY <2>2, <2>3
<1>2. \A i \in Agents : PeerOf(i) \in Agents
  BY <1>1, CouncilAssumption DEF Agents
<1>3. \A i, j \in Agents : PeerOf(i) = PeerOf(j) => i = j
  BY <1>1, CouncilAssumption DEF Agents
<1>4. ASSUME NEW i \in Agents PROVE \E k \in Agents : i = PeerOf(k)
  <2>1. CASE i = 0
    <3>1. AgentCount - 1 \in Agents
      BY CouncilAssumption DEF Agents
    <3> QED BY <3>1, <2>1, <1>1
  <2>2. CASE i # 0
    <3>1. i - 1 \in Agents /\ i - 1 # AgentCount - 1 /\ (i - 1) + 1 = i
      BY <2>2, CouncilAssumption DEF Agents
    <3> QED BY <3>1, <1>1
  <2> QED BY <2>1, <2>2
<1>5. AgentCount >= 2 => \A i \in Agents : PeerOf(i) # i
  BY <1>1, CouncilAssumption DEF Agents
<1> QED BY <1>1, <1>2, <1>3, <1>4, <1>5

\* A run drafts finitely many proposals.
LEMMA ProposalsFinite ==
    ASSUME TypeOK
    PROVE  IsFiniteSet(Proposals) /\ Proposals \subseteq ProposalIds
<1>1. IsFiniteSet(Agents)
  BY FS_Interval, CouncilAssumption DEF Agents
<1>2. seeded \in Surjection(Agents, {seeded[i] : i \in Agents})
  BY DEF TypeOK, Surjection
<1>3. IsFiniteSet({seeded[i] : i \in Agents})
  BY <1>1, <1>2, FS_Surjection
<1> QED
  BY <1>3, FS_Subset DEF Proposals, TypeOK

\* Sorting: if `before` is a strict total order of the proposals, then those
\* with fewer ahead of them are the ones that come before.
LEMMA PlaceFollowsOrder ==
    ASSUME TypeOK, NEW before,
           \A p \in Proposals : <<p, p>> \notin before,
           \A p, q, r \in Proposals :
               <<p, q>> \in before /\ <<q, r>> \in before => <<p, r>> \in before,
           \A p, q \in Proposals : p # q => <<p, q>> \in before \/ <<q, p>> \in before
    PROVE  /\ \A p \in Proposals : Place(before, p) \in Nat
           /\ \A p, q \in Proposals :
                 (Place(before, p) < Place(before, q)) = (<<p, q>> \in before)
<1> DEFINE Ahead(p) == {q \in Proposals : <<q, p>> \in before}
<1>1. \A p \in Proposals : IsFiniteSet(Ahead(p)) /\ Place(before, p) = Cardinality(Ahead(p))
  BY ProposalsFinite, FS_Subset DEF Place
<1>2. \A p \in Proposals : Place(before, p) \in Nat
  <2> HIDE DEF Ahead
  <2> QED BY <1>1, FS_CardinalityType
<1>3. ASSUME NEW p \in Proposals, NEW q \in Proposals, <<p, q>> \in before
      PROVE  Place(before, p) < Place(before, q)
  <2>1. Ahead(p) \in SUBSET Ahead(q)
    BY <1>3
  <2>2. p \in Ahead(q) /\ p \notin Ahead(p)
    BY <1>3
  <2>3. Cardinality(Ahead(p)) <= Cardinality(Ahead(q)) /\ Cardinality(Ahead(p)) # Cardinality(Ahead(q))
    <3> HIDE DEF Ahead
    <3> QED BY <1>1, <2>1, <2>2, FS_Subset
  <2> HIDE DEF Ahead
  <2> QED BY <2>3, <1>1, <1>2
<1>4. ASSUME NEW p \in Proposals, NEW q \in Proposals, <<p, q>> \notin before
      PROVE  ~(Place(before, p) < Place(before, q))
  <2> HIDE DEF Ahead
  <2>1. CASE p = q
    BY <2>1, <1>2
  <2>2. CASE p # q
    <3>1. <<q, p>> \in before
      BY <1>4, <2>2
    <3>2. Place(before, q) < Place(before, p)
      BY <3>1, <1>3
    <3> QED BY <3>2, <1>2
  <2> QED BY <2>1, <2>2
<1> QED
  <2> HIDE DEF Ahead
  <2> QED BY <1>2, <1>3, <1>4

-----------------------------------------------------------------------------
\* Every agent drafts a proposal of its own, before anyone reviews.
DraftsInv ==
    /\ \A i, j \in Agents : seeded[i] # NoProposal /\ seeded[i] = seeded[j] => i = j
    /\ phase # "Proposing" => \A i \in Agents : seeded[i] # NoProposal

AfterReview == {"Validating", "Scoring", "Completed"}

\* Reviews take their turns in the Revising phase, and all of them.
TurnInv ==
    /\ phase = "Proposing" => turn = [round |-> 0, agent |-> 0]
    /\ turn.round <= RevisionsDue
    /\ turn.round = RevisionsDue => turn.agent = 0
    /\ phase \in AfterReview => turn.round = RevisionsDue

\* How often agent k has revised its peer's proposal.
Edits(k) == turn.round + (IF k < turn.agent THEN 1 ELSE 0)

\* The text of each proposal is its author's, or its one reviewer's.
TextInv ==
    \A k \in Agents :
        seeded[PeerOf(k)] # NoProposal =>
            content[seeded[PeerOf(k)]] =
                [writer |-> IF Edits(k) = 0 THEN PeerOf(k) ELSE k, revisions |-> Edits(k)]

\* Outcomes are given after review, to proposals, for the text they have.
OutcomesInv ==
    /\ \A p \in ProposalIds : outcome[p] # NoOutcome =>
          p \in Proposals /\ phase \in AfterReview /\ outcome[p].of = content[p]
    /\ phase \in {"Scoring", "Completed"} => \A p \in Proposals : outcome[p] # NoOutcome

\* The ranking is the one complete() and the reordering compute.
RankInv ==
    phase = "Completed" =>
        rank = IF request.contract THEN Prioritized(Ranking) ELSE Ranking

\* What each point of the close-out has behind it.
CloseInv ==
    /\ close \notin {"running", "failed"} => phase = "Completed"
    /\ phase = "Completed" => close # "running"
    /\ close \in {"running", "saving", "counting"} => counted = 0
    /\ close \in {"counting", "selecting", "deciding", "warning", "done", "refused"} =>
          repository = {rank}
    /\ close \in {"selecting", "deciding", "warning", "done", "refused"} => counted = 1
    /\ close \in {"running", "saving", "counting", "selecting", "warning", "refused"} =>
          announced = NoProposal
    /\ close = "deciding" => announced # NoProposal /\ request.mode # "plain"
    /\ close = "warning" => \A p \in Proposals : ~Eligible(p)
    /\ announced # NoProposal =>
          phase = "Completed" /\ repository = {rank} /\ counted = 1 /\ IsWinner(announced)
    /\ request.mode # "plain" => request.contract

\* The decision was taken from a winner, or from a run that has none.
DecisionInv ==
    decision # {} =>
        /\ request.contract
        /\ phase = "Completed"
        /\ DecisionHonest

IInv ==
    /\ TypeOK
    /\ DraftsInv
    /\ TurnInv
    /\ TextInv
    /\ OutcomesInv
    /\ RankInv
    /\ CloseInv
    /\ DecisionInv

-----------------------------------------------------------------------------
\* A run starts with nothing drafted and nothing done.
LEMMA InitIInv == Init => IInv
<1> SUFFICES ASSUME Init PROVE IInv
  OBVIOUS
<1>1. 0 \in Agents /\ AgentCount - 1 \in Agents
  BY CouncilAssumption DEF Agents
<1>2. TypeOK
  BY <1>1, RoundsAssumption DEF Init, TypeOK, Content, Phases
<1>3. RevisionsDue \in Nat
  BY <1>2, RoundsAssumption DEF RevisionsDue, TypeOK, Request
<1>4. DraftsInv /\ TextInv /\ OutcomesInv /\ RankInv /\ CloseInv /\ DecisionInv
  BY PeerFacts DEF Init, DraftsInv, TextInv, OutcomesInv, RankInv, CloseInv, DecisionInv
<1>5. TurnInv
  BY <1>3 DEF Init, TurnInv, AfterReview
<1> QED BY <1>2, <1>4, <1>5 DEF IInv

\* Review is over when every revision due was made.
LEMMA ReviewsDoneFacts ==
    ASSUME TypeOK, TurnInv
    PROVE  /\ RevisionsDue \in Nat
           /\ ReviewsDone <=> turn.round = RevisionsDue
           /\ ~ReviewsDone => AgentCount >= 2 /\ turn.round < RevisionsDue
<1>1. RevisionsDue \in Nat /\ request.rounds \in Nat
  BY RoundsAssumption, CouncilAssumption DEF RevisionsDue, TypeOK, Request
<1>2. turn.round \in Nat
  BY DEF TypeOK
<1> QED
  BY <1>1, <1>2, CouncilAssumption DEF ReviewsDone, RevisionsDue, TurnInv

\* A ranking's places are natural numbers.
LEMMA RankingType ==
    ASSUME TypeOK
    PROVE  /\ Ranking \in [ProposalIds -> Nat]
           /\ \A r : Prioritized(r) \in [ProposalIds -> Nat]
<1>1. ASSUME NEW before, NEW p PROVE Place(before, p) \in Nat
  <2> DEFINE Ahead == {q \in Proposals : <<q, p>> \in before}
  <2>1. IsFiniteSet(Ahead)
    BY ProposalsFinite, FS_Subset
  <2>2. Place(before, p) = Cardinality(Ahead)
    BY DEF Place
  <2> HIDE DEF Ahead
  <2> QED BY <2>1, <2>2, FS_CardinalityType
<1> QED BY <1>1 DEF Ranking, Prioritized

AggregateInv == DraftsInv /\ TurnInv /\ TextInv /\ OutcomesInv /\ RankInv

\* What is said of the aggregate stays true while it does not change.
LEMMA AggregateUnchanged ==
    ASSUME UNCHANGED <<request, aggregate>>, AggregateInv
    PROVE  /\ AggregateInv'
           /\ Proposals' = Proposals
           /\ \A p : Eligible(p)' <=> Eligible(p)
           /\ \A p : AllPassed(p)' <=> AllPassed(p)
           /\ \A p : IsWinner(p)' <=> IsWinner(p)
<1>1. UNCHANGED <<request, phase, seeded, content, outcome, rank, turn>>
  BY DEF aggregate
<1>2. Proposals' = Proposals /\ RevisionsDue' = RevisionsDue
  BY <1>1 DEF Proposals, RevisionsDue
<1>3. \A p : AllPassed(p)' <=> AllPassed(p)
  BY <1>1 DEF AllPassed
<1>4. \A p : Eligible(p)' <=> Eligible(p)
  BY <1>1 DEF Eligible, AllPassed
<1>5. \A p : IsWinner(p)' <=> IsWinner(p)
  BY <1>1, <1>2 DEF IsWinner, Eligible, AllPassed
<1>6. DraftsInv' /\ TurnInv' /\ TextInv' /\ OutcomesInv'
  BY <1>1, <1>2 DEF AggregateInv, DraftsInv, TurnInv, TextInv, OutcomesInv, Edits
<1>7. Ranking' = Ranking
  BY <1>1, <1>2 DEF Ranking, Place, ByScore, Score
<1>8. \A r : Prioritized(r)' = Prioritized(r)
  BY <1>1, <1>2 DEF Prioritized, Place, ValidFirst, AllPassed
<1>9. Prioritized(Ranking)' = Prioritized(Ranking)
  BY <1>7, <1>8, <1>1, <1>2 DEF Prioritized, Place, ValidFirst, AllPassed
<1>10. RankInv'
  BY <1>1, <1>7, <1>9 DEF AggregateInv, RankInv
<1> QED BY <1>2, <1>3, <1>4, <1>5, <1>6, <1>10 DEF AggregateInv

\* Drafting adds one proposal, which nobody has touched yet.
LEMMA DraftKeeps ==
    ASSUME IInv, NEW i \in Agents, NEW p \in ProposalIds, Draft(i, p)
    PROVE  IInv'
<1>1. /\ phase = "Proposing" /\ close = "running" /\ seeded[i] = NoProposal /\ p \notin Proposals
      /\ seeded' = [seeded EXCEPT ![i] = p]
      /\ content' = [content EXCEPT ![p] = [writer |-> i, revisions |-> 0]]
      /\ UNCHANGED <<request, phase, outcome, rank, turn, close, repository, counted, announced, decision>>
  BY DEF Draft, effects
<1>2. TypeOK'
  BY <1>1 DEF IInv, TypeOK, Content
<1>3. \A j \in Agents : seeded[j] # NoProposal => seeded[j] # p
  BY <1>1 DEF Proposals
<1>4. DraftsInv'
  BY <1>1, <1>3 DEF IInv, DraftsInv, TypeOK
<1>5. TurnInv'
  BY <1>1 DEF IInv, TurnInv, RevisionsDue
<1>6. TextInv'
  <2> SUFFICES ASSUME NEW k \in Agents, seeded'[PeerOf(k)] # NoProposal
               PROVE  content'[seeded'[PeerOf(k)]] =
                        [writer |-> IF Edits(k)' = 0 THEN PeerOf(k) ELSE k, revisions |-> Edits(k)']
    BY DEF TextInv, PeerOf
  <2>1. Edits(k)' = Edits(k) /\ Edits(k) = 0 /\ PeerOf(k) \in Agents
    BY <1>1, PeerFacts, CouncilAssumption DEF Edits, IInv, TurnInv, Agents
  <2>2. CASE PeerOf(k) = i
    BY <1>1, <2>1, <2>2 DEF IInv, TypeOK
  <2>3. CASE PeerOf(k) # i
    BY <1>1, <1>3, <2>1, <2>3 DEF IInv, TypeOK, TextInv
  <2> QED BY <2>2, <2>3
<1>7. OutcomesInv'
  BY <1>1 DEF IInv, OutcomesInv, AfterReview, TypeOK
<1>8. RankInv' /\ CloseInv' /\ DecisionInv'
  BY <1>1, ProposalIdsAssumption DEF IInv, RankInv, CloseInv, DecisionInv
<1> QED BY <1>2, <1>4, <1>5, <1>6, <1>7, <1>8 DEF IInv

\* A review changes the text of one proposal, that of the reviewer's peer.
LEMMA ReviewKeeps ==
    ASSUME IInv, Review
    PROVE  IInv'
<1> DEFINE a == turn.agent
<1> DEFINE target == seeded[PeerOf(a)]
<1>1. /\ phase = "Revising" /\ close = "running" /\ ~ReviewsDone
      /\ content' = [content EXCEPT ![target] = [writer |-> a, revisions |-> content[target].revisions + 1]]
      /\ turn' = IF a = AgentCount - 1 THEN [round |-> turn.round + 1, agent |-> 0]
                 ELSE [turn EXCEPT !.agent = a + 1]
      /\ UNCHANGED <<request, phase, seeded, outcome, rank, close, repository, counted, announced, decision>>
  BY DEF Review, effects, ReviewTarget, Revised
<1>2. /\ RevisionsDue \in Nat /\ AgentCount >= 2 /\ turn.round < RevisionsDue /\ turn.round \in Nat
      /\ RevisionsDue' = RevisionsDue
  BY <1>1, ReviewsDoneFacts DEF IInv, TypeOK, RevisionsDue
<1>3. a \in Agents /\ PeerOf(a) \in Agents /\ target \in ProposalIds
  BY <1>1, PeerFacts DEF IInv, TypeOK, DraftsInv
<1>4. content[target] \in Content
  BY <1>3 DEF IInv, TypeOK
<1>5. turn' \in [round: Nat, agent: Agents]
  <2>1. 0 \in Agents /\ (a # AgentCount - 1 => a + 1 \in Agents) /\ turn.round + 1 \in Nat
    BY <1>2, <1>3, CouncilAssumption DEF Agents
  <2> HIDE DEF a
  <2>2. turn \in [round: Nat, agent: Agents]
    BY DEF IInv, TypeOK
  <2>3. [turn EXCEPT !.agent = a + 1] = [round |-> turn.round, agent |-> a + 1]
    BY <2>2
  <2> QED BY <1>1, <1>2, <2>1, <2>2, <2>3
<1>6. TypeOK'
  <2>1. content' \in [ProposalIds -> Content]
    BY <1>1, <1>3, <1>4 DEF IInv, TypeOK, Content
  <2> QED BY <1>1, <1>5, <2>1 DEF IInv, TypeOK
<1>7. DraftsInv'
  BY <1>1 DEF IInv, DraftsInv
<1>8. TurnInv'
  BY <1>1, <1>2, <1>3, CouncilAssumption DEF IInv, TurnInv, AfterReview, Agents, TypeOK
<1>9. TextInv'
  <2> SUFFICES ASSUME NEW k \in Agents
               PROVE  content'[seeded[PeerOf(k)]] =
                        [writer |-> IF Edits(k)' = 0 THEN PeerOf(k) ELSE k, revisions |-> Edits(k)']
    BY <1>1 DEF TextInv, PeerOf
  <2>1. /\ content[seeded[PeerOf(k)]] =
             [writer |-> IF Edits(k) = 0 THEN PeerOf(k) ELSE k, revisions |-> Edits(k)]
        /\ PeerOf(k) \in Agents
    BY <1>1, PeerFacts DEF IInv, TextInv, DraftsInv
  <2>2. CASE k = a
    <3>1. Edits(k) = turn.round /\ Edits(k)' = turn.round + 1
      BY <1>1, <1>2, <1>3, <2>2, CouncilAssumption DEF Edits, Agents
    <3>2. content'[target] = [writer |-> a, revisions |-> turn.round + 1]
      BY <1>1, <1>3, <2>1, <2>2, <3>1 DEF IInv, TypeOK
    <3> QED BY <3>1, <3>2, <2>2, <1>2
  <2>3. CASE k # a
    <3>1. Edits(k)' = Edits(k)
      BY <1>1, <1>2, <1>3, <2>3, CouncilAssumption DEF Edits, Agents, IInv, TypeOK
    <3>2. seeded[PeerOf(k)] # target
      BY <1>1, <1>3, <2>1, <2>3, PeerFacts DEF IInv, DraftsInv
    <3> QED BY <1>1, <2>1, <3>1, <3>2 DEF IInv, TypeOK
  <2> QED BY <2>2, <2>3
<1>10. OutcomesInv'
  BY <1>1 DEF IInv, OutcomesInv, AfterReview, Proposals
<1>11. RankInv' /\ CloseInv' /\ DecisionInv'
  BY <1>1, ProposalIdsAssumption DEF IInv, RankInv, CloseInv, DecisionInv
<1> QED BY <1>6, <1>7, <1>8, <1>9, <1>10, <1>11 DEF IInv

\* Validation gives one proposal an outcome for the text it has.
LEMMA ValidateKeeps ==
    ASSUME IInv, NEW p \in ProposalIds, NEW checks \in 0..Validators,
           NEW verdict \in 0..MaxVerdict, Validate(p, checks, verdict)
    PROVE  IInv'
<1> DEFINE o == [checks |-> checks, verdict |-> verdict, of |-> content[p]]
<1>1. /\ phase = "Validating" /\ close = "running" /\ p \in Proposals
      /\ outcome' = [outcome EXCEPT ![p] = o]
      /\ UNCHANGED <<request, phase, seeded, content, rank, turn, close, repository, counted, announced, decision>>
  BY DEF Validate, effects
<1>2. o \in Outcome
  BY DEF IInv, TypeOK, Outcome
<1>3. TypeOK'
  BY <1>1, <1>2 DEF IInv, TypeOK
<1>4. DraftsInv' /\ TurnInv' /\ TextInv'
  BY <1>1 DEF IInv, DraftsInv, TurnInv, TextInv, Edits, RevisionsDue
<1>5. OutcomesInv'
  <2>1. Proposals' = Proposals
    BY <1>1 DEF Proposals
  <2> QED BY <1>1, <2>1 DEF IInv, OutcomesInv, AfterReview, TypeOK
<1>6. RankInv' /\ CloseInv' /\ DecisionInv'
  BY <1>1, ProposalIdsAssumption DEF IInv, RankInv, CloseInv, DecisionInv
<1> QED BY <1>3, <1>4, <1>5, <1>6 DEF IInv

\* A phase ends when its work is done.
LEMMA AdvanceKeeps ==
    ASSUME IInv, Advance
    PROVE  IInv'
<1>1. /\ close = "running" /\ StageDone /\ phase' = NextPhase(phase)
      /\ UNCHANGED <<request, seeded, content, outcome, rank, turn, close, repository, counted, announced, decision>>
  BY DEF Advance, effects
<1>2. /\ phase \in {"Proposing", "Revising", "Validating"}
      /\ phase = "Proposing" => phase' = "Revising" /\ \A i \in Agents : seeded[i] # NoProposal
      /\ phase = "Revising" => phase' = "Validating" /\ ReviewsDone
      /\ phase = "Validating" => phase' = "Scoring" /\ \A p \in Proposals : outcome[p] # NoOutcome
  BY <1>1 DEF StageDone, NextPhase
<1>3. TypeOK'
  BY <1>1, <1>2 DEF IInv, TypeOK, Phases
<1>4. DraftsInv'
  BY <1>1, <1>2 DEF IInv, DraftsInv
<1>5. TurnInv'
  BY <1>1, <1>2, ReviewsDoneFacts DEF IInv, TurnInv, RevisionsDue, AfterReview
<1>6. TextInv'
  BY <1>1 DEF IInv, TextInv, Edits
<1>7. OutcomesInv'
  <2>1. Proposals' = Proposals
    BY <1>1 DEF Proposals
  <2> QED BY <1>1, <1>2, <2>1 DEF IInv, OutcomesInv, AfterReview
<1>8. RankInv' /\ CloseInv' /\ DecisionInv'
  BY <1>1, <1>2, ProposalIdsAssumption DEF IInv, RankInv, CloseInv, DecisionInv
<1> QED BY <1>3, <1>4, <1>5, <1>6, <1>7, <1>8 DEF IInv

\* Completion computes the ranking from what no longer changes.
LEMMA CompleteKeeps ==
    ASSUME IInv, Complete
    PROVE  IInv'
<1>1. /\ phase = "Scoring" /\ close = "running" /\ phase' = "Completed" /\ close' = "saving"
      /\ rank' = IF request.contract THEN Prioritized(Ranking) ELSE Ranking
      /\ UNCHANGED <<request, seeded, content, outcome, turn, repository, counted, announced, decision>>
  BY DEF Complete, effects
<1>2. rank' \in [ProposalIds -> Nat]
  BY <1>1, RankingType DEF IInv
<1>3. TypeOK'
  BY <1>1, <1>2 DEF IInv, TypeOK, Phases
<1>4. Proposals' = Proposals /\ RevisionsDue' = RevisionsDue
  BY <1>1 DEF Proposals, RevisionsDue
<1>5. DraftsInv' /\ TurnInv' /\ TextInv' /\ OutcomesInv'
  BY <1>1, <1>4 DEF IInv, DraftsInv, TurnInv, TextInv, Edits, OutcomesInv, AfterReview
<1>6. Ranking' = Ranking
  BY <1>1, <1>4 DEF Ranking, Place, ByScore, Score
<1>7. Prioritized(Ranking)' = Prioritized(Ranking)
  BY <1>1, <1>4, <1>6 DEF Prioritized, Place, ValidFirst, AllPassed
<1>8. RankInv'
  BY <1>1, <1>6, <1>7 DEF RankInv
<1>9. CloseInv' /\ DecisionInv'
  BY <1>1, ProposalIdsAssumption DEF IInv, CloseInv, DecisionInv, RankInv
<1> QED BY <1>3, <1>5, <1>8, <1>9 DEF IInv

-----------------------------------------------------------------------------
\* In the close-out nothing about the proposals changes any more.
LEMMA CloseOutKeeps ==
    ASSUME IInv, UNCHANGED <<request, aggregate>>, TypeOK', CloseInv', DecisionInv'
    PROVE  IInv'
BY AggregateUnchanged DEF IInv, AggregateInv

\* A decision that was taken stays honest, as nothing it speaks of changes.
LEMMA DecisionStands ==
    ASSUME IInv, UNCHANGED <<request, aggregate, decision>>
    PROVE  DecisionInv'
<1>1. phase' = phase /\ request' = request /\ decision' = decision
  BY DEF aggregate
<1>2. Proposals' = Proposals /\ \A p : AllPassed(p)' <=> AllPassed(p)
  BY AggregateUnchanged DEF IInv, AggregateInv
<1>3. \A p : AllPassed(p)' \in BOOLEAN /\ AllPassed(p) \in BOOLEAN
  BY DEF AllPassed
<1>4. \A p : AllPassed(p)' = AllPassed(p)
  BY <1>2, <1>3
<1> QED BY <1>1, <1>2, <1>4 DEF IInv, DecisionInv, DecisionHonest

\* The steps that store, count, refuse or fail leave request and aggregate as
\* they are, and nothing else that the invariant links to them.
LEMMA SaveKeeps == ASSUME IInv, Save PROVE IInv'
<1>1. /\ close = "saving" /\ repository' = {rank} /\ close' \in {"counting", "failed"}
      /\ UNCHANGED <<request, aggregate, counted, announced, decision>>
      /\ UNCHANGED <<phase, seeded, content, outcome, rank, turn>>
  BY DEF Save, aggregate
<1>2. TypeOK'
  BY <1>1 DEF IInv, TypeOK
<1>3. CloseInv'
  BY <1>1 DEF IInv, CloseInv
<1> QED BY <1>1, <1>2, <1>3, DecisionStands, CloseOutKeeps

\* Counting leaves everything else alone.
LEMMA CountKeeps == ASSUME IInv, Count PROVE IInv'
<1>1. /\ close = "counting" /\ counted' = counted + 1 /\ close' \in {"selecting", "failed"}
      /\ UNCHANGED <<request, aggregate, repository, announced, decision>>
      /\ UNCHANGED <<phase, seeded, content, outcome, rank, turn>>
  BY DEF Count, aggregate
<1>2. TypeOK'
  BY <1>1 DEF IInv, TypeOK
<1>3. CloseInv'
  BY <1>1 DEF IInv, CloseInv
<1> QED BY <1>1, <1>2, <1>3, DecisionStands, CloseOutKeeps

\* What is announced is the winner.
LEMMA AnnounceKeeps ==
    ASSUME IInv, NEW p \in ProposalIds, Announce(p)
    PROVE  IInv'
<1>1. /\ close = "selecting" /\ announced' = p /\ IsWinner(p)
      /\ close' \in {IF request.mode = "plain" THEN "done" ELSE "deciding", "failed"}
      /\ UNCHANGED <<request, aggregate, repository, counted, decision>>
      /\ UNCHANGED <<phase, seeded, content, outcome, rank, turn>>
  BY DEF Announce, aggregate
<1>2. TypeOK'
  BY <1>1 DEF IInv, TypeOK
<1>3. \A q : IsWinner(q)' <=> IsWinner(q)
  BY <1>1, AggregateUnchanged DEF IInv, AggregateInv
<1>4. IsWinner(announced)'
  BY <1>1 DEF IsWinner, Eligible, AllPassed, Proposals
<1>5. p # NoProposal
  BY ProposalIdsAssumption
<1>6. CloseInv'
  BY <1>1, <1>4, <1>5 DEF IInv, CloseInv
<1> QED BY <1>1, <1>2, <1>6, DecisionStands, CloseOutKeeps

\* A run is refused when it has no eligible proposal.
LEMMA RefuseKeeps == ASSUME IInv, Refuse PROVE IInv'
<1>1. /\ close = "selecting" /\ \A p \in Proposals : ~Eligible(p)
      /\ close' = IF request.mode = "Warn" THEN "warning" ELSE "refused"
      /\ UNCHANGED <<request, aggregate, repository, counted, announced, decision>>
      /\ UNCHANGED <<phase, seeded, content, outcome, rank, turn>>
  BY DEF Refuse, aggregate, effects
<1>2. TypeOK'
  BY <1>1 DEF IInv, TypeOK
<1>3. (\A p \in Proposals : ~Eligible(p))'
  BY <1>1, AggregateUnchanged DEF IInv, AggregateInv
<1>4. announced = NoProposal /\ announced' = NoProposal
  BY <1>1 DEF IInv, CloseInv
<1>5. CloseInv'
  BY <1>1, <1>3, <1>4 DEF IInv, CloseInv
<1> QED BY <1>1, <1>2, <1>5, DecisionStands, CloseOutKeeps

\* The winner of a run under a contract passed every validator.
LEMMA DecideKeeps == ASSUME IInv, Decide PROVE IInv'
<1>1. /\ close = "deciding" /\ close' = "done"
      /\ decision' = {[winner |-> announced, passed |-> TRUE]}
      /\ UNCHANGED <<request, aggregate, repository, counted, announced>>
      /\ UNCHANGED <<phase, seeded, content, outcome, rank, turn>>
  BY DEF Decide, aggregate
<1>2. announced # NoProposal /\ request.contract /\ phase = "Completed" /\ IsWinner(announced)
  BY <1>1 DEF IInv, CloseInv
<1>3. announced \in Proposals /\ AllPassed(announced) = TRUE
  BY <1>2 DEF IsWinner, Eligible, AllPassed
<1>4. TypeOK'
  BY <1>1, <1>2 DEF IInv, TypeOK, Decision
<1>5. \A q : IsWinner(q)' <=> IsWinner(q)
  BY <1>1, AggregateUnchanged DEF IInv, AggregateInv
<1>6. IsWinner(announced)'
  BY <1>1, <1>2 DEF IsWinner, Eligible, AllPassed, Proposals
<1>7. CloseInv'
  BY <1>1, <1>2, <1>6 DEF IInv, CloseInv
<1>8. Proposals' = Proposals /\ \A q : (AllPassed(q) = TRUE) => (AllPassed(q)' = TRUE)
  BY <1>1 DEF Proposals, AllPassed
<1>9. DecisionHonest'
  <2> SUFFICES ASSUME NEW d \in decision'
               PROVE  d.winner \in Proposals' /\ d.passed = AllPassed(d.winner)'
    BY DEF DecisionHonest
  <2>1. d.winner = announced /\ d.passed = TRUE
    BY <1>1
  <2> QED BY <1>3, <1>8, <2>1
<1>10. DecisionInv'
  BY <1>1, <1>2, <1>9 DEF DecisionInv
<1> QED BY <1>1, <1>4, <1>7, <1>10, CloseOutKeeps

\* A run under a contract that is refused has no proposal that passed.
LEMMA DecideAnywayKeeps == ASSUME IInv, DecideAnyway PROVE IInv'
<1>1. /\ close = "warning" /\ close' = "done"
      /\ UNCHANGED <<request, aggregate, repository, counted, announced>>
      /\ UNCHANGED <<phase, seeded, content, outcome, rank, turn>>
  BY DEF DecideAnyway, aggregate
<1>2. PICK p \in Proposals : decision' = {[winner |-> p, passed |-> FALSE]}
  BY DEF DecideAnyway
<1>3. /\ \A q \in Proposals : ~Eligible(q)
      /\ phase = "Completed" /\ announced = NoProposal
  BY <1>1 DEF IInv, CloseInv
<1>4. request.contract /\ AllPassed(p) = FALSE
  BY <1>3 DEF Eligible, AllPassed
<1>5. TypeOK'
  <2>1. p \in ProposalIds
    BY ProposalsFinite DEF IInv
  <2> QED BY <1>1, <1>2, <2>1 DEF IInv, TypeOK, Decision
<1>6. CloseInv'
  BY <1>1, <1>3 DEF IInv, CloseInv
<1>7. Proposals' = Proposals /\ \A q : (AllPassed(q) = FALSE) => (AllPassed(q)' = FALSE)
  BY <1>1 DEF Proposals, AllPassed
<1>8. DecisionHonest'
  <2> SUFFICES ASSUME NEW d \in decision'
               PROVE  d.winner \in Proposals' /\ d.passed = AllPassed(d.winner)'
    BY DEF DecisionHonest
  <2>1. d.winner = p /\ d.passed = FALSE
    BY <1>2
  <2> QED BY <1>4, <1>7, <2>1
<1>9. DecisionInv'
  BY <1>1, <1>3, <1>4, <1>8 DEF DecisionInv
<1> QED BY <1>1, <1>5, <1>6, <1>9, CloseOutKeeps

\* A failure stops the run where it is.
LEMMA FailKeeps == ASSUME IInv, Fail PROVE IInv'
<1>1. /\ close' = "failed"
      /\ UNCHANGED <<request, aggregate, repository, counted, announced, decision>>
      /\ UNCHANGED <<phase, seeded, content, outcome, rank, turn>>
  BY DEF Fail, aggregate, effects
<1>2. TypeOK'
  BY <1>1 DEF IInv, TypeOK
<1>3. announced # NoProposal => IsWinner(announced)'
  BY <1>1 DEF IInv, CloseInv, IsWinner, Eligible, AllPassed, Proposals
<1>4. CloseInv'
  BY <1>1, <1>3 DEF IInv, CloseInv
<1> QED BY <1>1, <1>2, <1>4, DecisionStands, CloseOutKeeps

\* The invariant holds in every run of the pipeline.
THEOREM Invariance == Spec => []IInv
<1>1. ASSUME IInv, [Next]_vars PROVE IInv'
  <2>1. CASE \E i \in Agents, p \in ProposalIds : Draft(i, p)
    BY <1>1, <2>1, DraftKeeps
  <2>2. CASE Review
    BY <1>1, <2>2, ReviewKeeps
  <2>3. CASE \E p \in ProposalIds, checks \in 0..Validators, verdict \in 0..MaxVerdict :
               Validate(p, checks, verdict)
    BY <1>1, <2>3, ValidateKeeps
  <2>4. CASE Advance
    BY <1>1, <2>4, AdvanceKeeps
  <2>5. CASE Complete
    BY <1>1, <2>5, CompleteKeeps
  <2>6. CASE Save
    BY <1>1, <2>6, SaveKeeps
  <2>7. CASE Count
    BY <1>1, <2>7, CountKeeps
  <2>8. CASE \E p \in ProposalIds : Announce(p)
    BY <1>1, <2>8, AnnounceKeeps
  <2>9. CASE Refuse
    BY <1>1, <2>9, RefuseKeeps
  <2>10. CASE Decide
    BY <1>1, <2>10, DecideKeeps
  <2>11. CASE DecideAnyway
    BY <1>1, <2>11, DecideAnywayKeeps
  <2>12. CASE Fail
    BY <1>1, <2>12, FailKeeps
  <2>13. CASE UNCHANGED vars
    <3>1. /\ UNCHANGED <<request, aggregate, close, repository, counted, announced, decision>>
          /\ UNCHANGED <<phase, seeded, content, outcome, rank, turn>>
      BY <2>13 DEF vars, effects, aggregate
    <3>2. TypeOK'
      BY <1>1, <3>1 DEF IInv, TypeOK
    <3>3. announced # NoProposal => IsWinner(announced)'
      BY <1>1, <3>1 DEF IInv, CloseInv, IsWinner, Eligible, AllPassed, Proposals
    <3>4. close = "warning" => (\A p \in Proposals : ~Eligible(p))'
      BY <1>1, <3>1, AggregateUnchanged DEF IInv, AggregateInv, CloseInv
    <3>5. CloseInv'
      BY <1>1, <3>1, <3>3, <3>4 DEF IInv, CloseInv
    <3> QED BY <1>1, <3>1, <3>2, <3>5, DecisionStands, CloseOutKeeps
  <2> QED
    BY <1>1, <2>1, <2>2, <2>3, <2>4, <2>5, <2>6, <2>7, <2>8, <2>9, <2>10, <2>11, <2>12, <2>13
    DEF Next
<1> QED BY InitIInv, <1>1, PTL DEF Spec

-----------------------------------------------------------------------------
\* Every variable keeps its type, whatever the size of the council.
THEOREM TypeCorrect == Spec => []TypeOK
<1>1. IInv => TypeOK
  BY DEF IInv
<1> QED BY <1>1, Invariance, PTL

\* When review is over each proposal was revised once per round, and by
\* another agent than its author.
THEOREM ReviewIsByPeers == Spec => []ReviewedByPeers
<1>1. ASSUME IInv PROVE ReviewedByPeers
  <2> SUFFICES ASSUME phase \in AfterReview, NEW i \in Agents
               PROVE  /\ content[seeded[i]].revisions = RevisionsDue
                      /\ (content[seeded[i]].writer # i) = (RevisionsDue > 0)
    BY DEF ReviewedByPeers, AfterReview
  <2>1. PICK k \in Agents : i = PeerOf(k)
    BY PeerFacts
  <2>2. /\ RevisionsDue \in Nat /\ turn.round = RevisionsDue /\ turn.agent = 0
        /\ seeded[i] # NoProposal
    BY <1>1, ReviewsDoneFacts DEF IInv, TurnInv, DraftsInv, AfterReview
  <2>3. Edits(k) = RevisionsDue
    BY <2>2, CouncilAssumption DEF Edits, Agents
  <2>4. content[seeded[i]] =
          [writer |-> IF RevisionsDue = 0 THEN i ELSE k, revisions |-> RevisionsDue]
    BY <1>1, <2>1, <2>2, <2>3 DEF IInv, TextInv
  <2>5. RevisionsDue > 0 => k # i
    BY <2>1, PeerFacts, CouncilAssumption DEF RevisionsDue
  <2> QED BY <2>2, <2>4, <2>5
<1> QED BY <1>1, Invariance, PTL

\* The validators' reports are about the text that is ranked and returned.
THEOREM OutcomesAreCurrent == Spec => []JudgedAsItStands
<1>1. IInv => JudgedAsItStands
  BY ProposalsFinite DEF IInv, OutcomesInv, JudgedAsItStands
<1> QED BY <1>1, Invariance, PTL

-----------------------------------------------------------------------------
\* Once every proposal has an outcome, its score is a number.
LEMMA ScoresAreNumbers ==
    ASSUME IInv, phase = "Completed"
    PROVE  \A p \in Proposals : p \in Nat /\ p \in ProposalIds /\ Score(p) \in Nat
<1> SUFFICES ASSUME NEW p \in Proposals
             PROVE  p \in Nat /\ p \in ProposalIds /\ Score(p) \in Nat
  OBVIOUS
<1>1. p \in ProposalIds /\ p \in Nat
  BY ProposalsFinite, ProposalIdsAssumption DEF IInv
<1>2. outcome[p] \in Outcome
  BY <1>1 DEF IInv, OutcomesInv, TypeOK
<1> QED BY <1>1, <1>2, ScoringAssumption DEF Score, Outcome

\* complete() sorts by score, ties by id.
LEMMA RankingFollowsScore ==
    ASSUME IInv, phase = "Completed"
    PROVE  /\ \A p \in Proposals : Ranking[p] \in Nat
           /\ \A p, q \in Proposals : Ranking[p] < Ranking[q] <=> <<p, q>> \in ByScore
<1> DEFINE B == ByScore
<1>1. \A p, q \in Proposals :
         <<p, q>> \in B <=> Score(p) > Score(q) \/ (Score(p) = Score(q) /\ p < q)
  BY DEF ByScore
<1>2. \A p \in Proposals : p \in Nat /\ p \in ProposalIds /\ Score(p) \in Nat
  BY ScoresAreNumbers
<1>3. TypeOK
  BY DEF IInv
<1> HIDE DEF B
<1>4. \A p \in Proposals : <<p, p>> \notin B
  BY <1>1, <1>2
<1>5. \A p, q, r \in Proposals : <<p, q>> \in B /\ <<q, r>> \in B => <<p, r>> \in B
  BY <1>1, <1>2
<1>6. \A p, q \in Proposals : p # q => <<p, q>> \in B \/ <<q, p>> \in B
  BY <1>1, <1>2
<1>7. /\ \A p \in Proposals : Place(B, p) \in Nat
      /\ \A p, q \in Proposals : (Place(B, p) < Place(B, q)) = (<<p, q>> \in B)
  BY <1>3, <1>4, <1>5, <1>6, PlaceFollowsOrder
<1>8. \A p \in Proposals : Ranking[p] = Place(B, p)
  BY <1>2 DEF Ranking, B
<1> QED BY <1>7, <1>8 DEF B

\* The reordering puts what passed first and keeps the order otherwise.
LEMMA PrioritizedFollowsValidity ==
    ASSUME IInv, phase = "Completed"
    PROVE  \A p, q \in Proposals :
              Prioritized(Ranking)[p] < Prioritized(Ranking)[q] <=>
                  \/ AllPassed(p) /\ ~AllPassed(q)
                  \/ (AllPassed(p) <=> AllPassed(q)) /\ <<p, q>> \in ByScore
<1> DEFINE B == ValidFirst(Ranking)
<1>0. \A p \in Proposals : AllPassed(p) \in BOOLEAN
  BY DEF AllPassed
<1>1. \A p, q \in Proposals :
         <<p, q>> \in B <=>
            \/ AllPassed(p) /\ ~AllPassed(q)
            \/ (AllPassed(p) <=> AllPassed(q)) /\ Ranking[p] < Ranking[q]
  BY <1>0 DEF ValidFirst
<1>2. /\ \A p \in Proposals : Ranking[p] \in Nat
      /\ \A p, q \in Proposals : Ranking[p] < Ranking[q] <=> <<p, q>> \in ByScore
  BY RankingFollowsScore
<1>3. \A p, q \in Proposals : p # q => Ranking[p] # Ranking[q]
  <2>1. \A p, q \in Proposals : p # q => <<p, q>> \in ByScore \/ <<q, p>> \in ByScore
    BY ScoresAreNumbers DEF ByScore
  <2> SUFFICES ASSUME NEW p \in Proposals, NEW q \in Proposals, p # q
               PROVE  Ranking[p] # Ranking[q]
    OBVIOUS
  <2>2. Ranking[p] < Ranking[q] \/ Ranking[q] < Ranking[p]
    BY <1>2, <2>1
  <2>3. Ranking[p] \in Nat /\ Ranking[q] \in Nat
    BY <1>2
  <2> QED BY <2>2, <2>3
<1>4. TypeOK /\ Proposals \subseteq ProposalIds
  BY ProposalsFinite DEF IInv
<1> HIDE DEF B
<1>5. \A p \in Proposals : <<p, p>> \notin B
  BY <1>1, <1>2
<1>6. \A p, q, r \in Proposals : <<p, q>> \in B /\ <<q, r>> \in B => <<p, r>> \in B
  <2> HIDE <1>2
  <2>1. \A p \in Proposals : Ranking[p] \in Nat
    BY <1>2
  <2> QED BY <1>1, <2>1
<1>7. \A p, q \in Proposals : p # q => <<p, q>> \in B \/ <<q, p>> \in B
  <2>1. \A p \in Proposals : Ranking[p] \in Nat
    BY <1>2
  <2> QED BY <1>1, <1>3, <2>1
<1>8. \A p, q \in Proposals : (Place(B, p) < Place(B, q)) = (<<p, q>> \in B)
  BY <1>4, <1>5, <1>6, <1>7, PlaceFollowsOrder
<1>9. \A p \in Proposals : Prioritized(Ranking)[p] = Place(B, p)
  BY <1>4 DEF Prioritized, B
<1> SUFFICES ASSUME NEW p \in Proposals, NEW q \in Proposals
             PROVE  Prioritized(Ranking)[p] < Prioritized(Ranking)[q] <=>
                        \/ AllPassed(p) /\ ~AllPassed(q)
                        \/ (AllPassed(p) <=> AllPassed(q)) /\ <<p, q>> \in ByScore
  OBVIOUS
<1>10. Prioritized(Ranking)[p] < Prioritized(Ranking)[q] <=> <<p, q>> \in B
  BY <1>8, <1>9
<1>11. Ranking[p] < Ranking[q] <=> <<p, q>> \in ByScore
  BY <1>2
<1> QED BY <1>1, <1>10, <1>11

\* A completed ranking is in the order it promises.
LEMMA RankingInOrder == ASSUME IInv PROVE RankedInOrder
<1> SUFFICES ASSUME phase = "Completed", NEW p \in Proposals, NEW q \in Proposals
             PROVE  (rank[p] < rank[q]) = Better(p, q)
  BY DEF RankedInOrder
<1>1. /\ AllPassed(p) \in BOOLEAN /\ AllPassed(q) \in BOOLEAN
      /\ <<p, q>> \in ByScore <=> Score(p) > Score(q) \/ (Score(p) = Score(q) /\ p < q)
  BY DEF AllPassed, ByScore
<1>2. Better(p, q) \in BOOLEAN /\ (rank[p] < rank[q]) \in BOOLEAN
  <2>1. rank[p] \in Nat /\ rank[q] \in Nat
    BY ScoresAreNumbers DEF IInv, TypeOK
  <2> QED BY <2>1 DEF Better
<1>3. CASE request.contract
  <2>1. rank = Prioritized(Ranking)
    BY <1>3 DEF IInv, RankInv
  <2>2. Better(p, q) <=> \/ AllPassed(p) /\ ~AllPassed(q)
                         \/ (AllPassed(p) <=> AllPassed(q)) /\ <<p, q>> \in ByScore
    BY <1>1, <1>3 DEF Better
  <2>3. rank[p] < rank[q] <=> \/ AllPassed(p) /\ ~AllPassed(q)
                              \/ (AllPassed(p) <=> AllPassed(q)) /\ <<p, q>> \in ByScore
    BY <2>1, PrioritizedFollowsValidity
  <2> QED BY <1>2, <2>2, <2>3
<1>4. CASE ~request.contract
  <2>1. rank = Ranking
    BY <1>4 DEF IInv, RankInv
  <2>2. Better(p, q) <=> <<p, q>> \in ByScore
    BY <1>1, <1>4 DEF Better
  <2>3. rank[p] < rank[q] <=> <<p, q>> \in ByScore
    BY <2>1, RankingFollowsScore
  <2> QED BY <1>2, <2>2, <2>3
<1> QED BY <1>3, <1>4

\* Every completed deliberation is ranked as promised, after both sorts.
THEOREM RankingIsSorted == Spec => []RankedInOrder
BY RankingInOrder, Invariance, PTL

\* The announced winner is eligible, and no eligible proposal scored higher.
THEOREM BestIsAnnounced == Spec => []WinnerIsBest
<1>1. ASSUME IInv PROVE WinnerIsBest
  <2> SUFFICES ASSUME announced # NoProposal PROVE WinnerIsBest
    BY DEF WinnerIsBest
  <2>1. phase = "Completed" /\ IsWinner(announced)
    BY <1>1 DEF IInv, CloseInv
  <2>2. announced \in Proposals /\ (request.contract => AllPassed(announced))
    BY <2>1 DEF IsWinner, Eligible
  <2>3. ASSUME NEW p \in Proposals, request.contract => AllPassed(p)
        PROVE  Score(p) <= Score(announced)
    <3>1. rank[announced] <= rank[p] /\ rank[announced] \in Nat /\ rank[p] \in Nat
      BY <1>1, <2>1, <2>2, <2>3, ScoresAreNumbers DEF IsWinner, Eligible, IInv, TypeOK
    <3>2. ~Better(p, announced)
      <4>1. (rank[p] < rank[announced]) = Better(p, announced)
        BY <1>1, <2>1, <2>2, RankingInOrder DEF RankedInOrder
      <4>2. ~(rank[p] < rank[announced])
        BY <3>1
      <4> QED BY <4>1, <4>2
    <3>3. ~(Score(p) > Score(announced))
      BY <2>2, <2>3, <3>2 DEF Better, AllPassed
    <3> QED BY <1>1, <2>1, <2>2, <3>3, ScoresAreNumbers
  <2> QED BY <2>2, <2>3 DEF WinnerIsBest
<1> QED BY <1>1, Invariance, PTL

\* What was announced or refused is on record, and the record shows the winner
\* first.
THEOREM RecordIsComplete == Spec => []RecordShowsResult
<1>1. ASSUME IInv PROVE RecordShowsResult
  <2>1. announced # NoProposal \/ close \in {"warning", "refused"} =>
            repository = {rank} /\ counted = 1
    BY <1>1 DEF IInv, CloseInv
  <2>2. ASSUME announced # NoProposal, NEW p \in Proposals \ {announced}
        PROVE  rank[announced] < rank[p]
    <3>1. phase = "Completed" /\ IsWinner(announced) /\ announced \in Proposals
      BY <1>1, <2>2 DEF IInv, CloseInv, IsWinner
    <3>2. \A r \in Proposals : r \in Nat /\ Score(r) \in Nat /\ rank[r] \in Nat
      BY <1>1, <3>1, ScoresAreNumbers DEF IInv, TypeOK
    <3>3. AllPassed(p) \in BOOLEAN /\ AllPassed(announced) \in BOOLEAN
      BY DEF AllPassed
    <3>4. CASE Eligible(p)
      <4>1. rank[announced] <= rank[p]
        BY <3>1, <3>4 DEF IsWinner
      <4>2. Better(announced, p) \/ Better(p, announced)
        BY <2>2, <3>1, <3>2, <3>3, <3>4 DEF Better, Eligible, IsWinner
      <4>3. rank[announced] < rank[p] \/ rank[p] < rank[announced]
        BY <1>1, <2>2, <3>1, <4>2, RankingInOrder DEF RankedInOrder
      <4> QED BY <2>2, <3>1, <3>2, <4>1, <4>3
    <3>5. CASE ~Eligible(p)
      <4>1. Better(announced, p)
        BY <3>1, <3>5 DEF Better, Eligible, IsWinner
      <4> QED BY <1>1, <2>2, <3>1, <4>1, RankingInOrder DEF RankedInOrder
    <3> QED BY <3>4, <3>5
  <2> QED BY <2>1, <2>2 DEF RecordShowsResult
<1> QED BY <1>1, Invariance, PTL

\* RunCouncilDecision reports `passed` truthfully, in both modes.
THEOREM DecisionIsHonest == Spec => []DecisionHonest
<1>1. IInv => DecisionHonest
  BY DEF IInv, DecisionInv, DecisionHonest
<1> QED BY <1>1, Invariance, PTL
=============================================================================
