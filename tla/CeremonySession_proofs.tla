------------------------ MODULE CeremonySession_proofs ------------------------
(***************************************************************************)
(* CeremonySession implements AtomicSession, for any number of callers and *)
(* any bounds. The argument: StagedWorkIsCurrent holds, so a commit that   *)
(* lands applies an accepted call to the stored session itself, at an      *)
(* instant that has passed; every other step leaves the store alone. The   *)
(* invariants proved of the atomic session then hold of the store.         *)
(***************************************************************************)
EXTENDS CeremonySession, TLAPS

-----------------------------------------------------------------------------
\* What is proved of the atomic session and of the aggregate, about the
\* stored session.
Proofs == INSTANCE AtomicSession_proofs
            WITH instance <- store.instance, journal <- store.journal

\* The aggregate of those proofs is this one: its values,
LEMMA SameValues ==
    /\ Proofs!GuardConditions = GuardConditions
    /\ Proofs!ResultStatus = ResultStatus
    /\ Proofs!Lease = Lease
    /\ Proofs!StepRecord = StepRecord
    /\ Proofs!Instance = Instance
  BY DEF GuardConditions, Proofs!GuardConditions, StepStatus, Proofs!StepStatus,
         ResultStatus, Proofs!ResultStatus, Lease, Proofs!Lease, StepRecord,
         Proofs!StepRecord, Move, Proofs!Move, Instance, Proofs!Instance

\* the calls and the facts they seal,
LEMMA SameCalls == Proofs!Calls = Calls /\ Proofs!Fact = Fact
  BY DEF Calls, Proofs!Calls, OpenCalls, Proofs!OpenCalls, ClientCalls, Proofs!ClientCalls,
         ClaimCalls, Proofs!ClaimCalls, CompleteCalls, Proofs!CompleteCalls, FinishCalls,
         Proofs!FinishCalls, MoveCalls, Proofs!MoveCalls, GuardCalls, Proofs!GuardCalls,
         ResultStatus, Proofs!ResultStatus, StepStatus, Proofs!StepStatus, Fact,
         Proofs!Fact, StepFacts, Proofs!StepFacts, GuardFacts, Proofs!GuardFacts,
         SessionFacts, Proofs!SessionFacts, Session, Proofs!Session

\* the start of a step,
LEMMA SameStart ==
    /\ \A r, key, t : Proofs!WithStarted(r, key, t) = WithStarted(r, key, t)
    /\ \A i, step, key, t : Proofs!StartStep(i, step, key, t) = StartStep(i, step, key, t)
    /\ \A i, step, key, t : Proofs!CanStartStep(i, step, key, t) <=> CanStartStep(i, step, key, t)
  BY DEF NextAttemptForStart, Proofs!NextAttemptForStart, WithStarted, Proofs!WithStarted,
         StartStep, Proofs!StartStep, CanStartStep, Proofs!CanStartStep, IsTerminal,
         Proofs!IsTerminal, CanBeStartedAt, Proofs!CanBeStartedAt, AllowsAttempt,
         Proofs!AllowsAttempt

\* the result of a step,
LEMMA SameResult ==
    /\ \A i, step, status :
         Proofs!ApplyStepResult(i, step, status) = ApplyStepResult(i, step, status)
    /\ \A i, step : Proofs!CanApplyStepResult(i, step) <=> CanApplyStepResult(i, step)
  BY DEF WithResult, Proofs!WithResult, ApplyStepResult, Proofs!ApplyStepResult,
         CanApplyStepResult, Proofs!CanApplyStepResult

\* the transitions,
LEMMA SameMove ==
    /\ \A state, trigger :
         Proofs!TransitionForTrigger(state, trigger) = TransitionForTrigger(state, trigger)
    /\ \A i, trigger : Proofs!MoveOn(i, trigger) = MoveOn(i, trigger)
    /\ \A i, trigger : Proofs!CanMoveOn(i, trigger) <=> CanMoveOn(i, trigger)
  BY DEF TransitionForTrigger, Proofs!TransitionForTrigger, MoveOn, Proofs!MoveOn,
         CanMoveOn, Proofs!CanMoveOn, IsTerminal, Proofs!IsTerminal, GuardsAreSatisfied,
         Proofs!GuardsAreSatisfied, GuardSatisfied, Proofs!GuardSatisfied

\* what a call does and seals,
LEMMA SameWork ==
    /\ \A request, i, t : Proofs!Accepts(request, i, t) <=> Accepts(request, i, t)
    /\ \A request, i, t : Proofs!After(request, i, t) = After(request, i, t)
    /\ \A request, i : Proofs!FactsOf(request, i) = FactsOf(request, i)
  BY DEF Accepts, Proofs!Accepts, CanStartStep, Proofs!CanStartStep, IsTerminal,
         Proofs!IsTerminal, CanBeStartedAt, Proofs!CanBeStartedAt, AllowsAttempt,
         Proofs!AllowsAttempt, NextAttemptForStart, Proofs!NextAttemptForStart,
         CanApplyStepResult, Proofs!CanApplyStepResult, CanMoveOn, Proofs!CanMoveOn,
         GuardsAreSatisfied, Proofs!GuardsAreSatisfied, GuardSatisfied,
         Proofs!GuardSatisfied, TransitionForTrigger, Proofs!TransitionForTrigger,
         CanApproveGuard, Proofs!CanApproveGuard, CanDeferGuard, Proofs!CanDeferGuard,
         IsHumanGuard, Proofs!IsHumanGuard, After, Proofs!After, Opened, Proofs!Opened,
         StartStep, Proofs!StartStep, WithStarted, Proofs!WithStarted, ApplyStepResult,
         Proofs!ApplyStepResult, WithResult, Proofs!WithResult, MoveOn, Proofs!MoveOn,
         ApproveGuard, Proofs!ApproveGuard, DeferGuard, Proofs!DeferGuard, FactsOf,
         Proofs!FactsOf, FactOf, Proofs!FactOf, Session, Proofs!Session, StepStarted,
         Proofs!StepStarted, StepFinished, Proofs!StepFinished, TransitionApplied,
         Proofs!TransitionApplied

\* and what no commit takes back.
LEMMA SameFollows == \A i, j : Proofs!Follows(i, j) = Follows(i, j)
<1>1. \A i : Proofs!Sealed(i) = Sealed(i) /\ Proofs!IsTerminal(i) = IsTerminal(i)
  BY DEF Sealed, Proofs!Sealed, IsTerminal, Proofs!IsTerminal
<1>2. QED
  BY <1>1, SameValues DEF Follows, Proofs!Follows

\* A call is of the shape its kind says.
LEMMA CallKinds ==
    ASSUME NEW request \in Calls
    PROVE  \/ request \in OpenCalls /\ request.kind = "Open"
           \/ request \in ClaimCalls /\ request.kind \in {"StartStep", "RunStep"}
           \/ request \in CompleteCalls /\ request.kind = "CompleteStep"
           \/ request \in FinishCalls /\ request.kind = "FinishStep"
           \/ request \in MoveCalls /\ request.kind = "ApplyTransition"
           \/ request \in GuardCalls /\ request.kind \in {"ApproveGuard", "DeferGuard"}
  BY DEF Calls, ClientCalls, OpenCalls, ClaimCalls, CompleteCalls, FinishCalls, MoveCalls,
         GuardCalls

\* A claimed record is well formed and holds a lease: with_started.
LEMMA WithStartedType ==
    ASSUME NEW r \in StepRecord, NEW key \in Keys, NEW t \in Nat
    PROVE  /\ WithStarted(r, key, t) \in StepRecord
           /\ WithStarted(r, key, t).lease # NoLease
<1>1. [key |-> key, expires |-> t + LeaseTtl] \in Lease
  BY LeaseTtlAssumption DEF Lease
<1>2. NextAttemptForStart(r) \in Nat \ {0}
  BY DEF NextAttemptForStart, StepRecord
<1>3. QED
  BY <1>1, <1>2, NoLeaseAssumption DEF WithStarted, StepRecord, StepStatus

\* start_step changes the step's record and the spent keys.
LEMMA StartStepFields ==
    ASSUME NEW i \in Instance, NEW step \in Steps, NEW key \in Keys, NEW t \in Nat,
           NEW j, j = StartStep(i, step, key, t)
    PROVE  /\ j \in Instance
           /\ j.records[step] = WithStarted(i.records[step], key, t)
           /\ \A s \in Steps \ {step} : j.records[s] = i.records[s]
           /\ j.keys = i.keys \cup {key}
           /\ j.state = i.state /\ j.moves = i.moves /\ j.completed = i.completed
           /\ j.approved = i.approved /\ j.approvals = i.approvals
           /\ j.deferrals = i.deferrals
<1>1. WithStarted(i.records[step], key, t) \in StepRecord
  BY WithStartedType DEF Instance
<1>2. QED
  BY <1>1 DEF StartStep, Instance

\* What with_started and with_result leave in a record.
LEMMA RecordFields ==
    ASSUME NEW r \in StepRecord
    PROVE  /\ \A key \in Keys, t \in Nat :
                LET w == WithStarted(r, key, t) IN
                /\ w.status = "InProgress"
                /\ w.attempt = NextAttemptForStart(r)
                /\ w.lease # NoLease
                /\ w.lease.key = key
           /\ \A status \in ResultStatus :
                LET w == WithResult(r, status) IN
                /\ w.status = status
                /\ w.attempt = r.attempt
                /\ w.lease = NoLease
  BY Proofs!RecordFields, StatesAssumption, StepsAssumption, TransitionsAssumption,
     LeaseTtlAssumption, NoLeaseAssumption, NoSessionAssumption
     DEF Instance, Proofs!Instance, StepRecord, Proofs!StepRecord, StepStatus,
         Proofs!StepStatus, Lease, Proofs!Lease, Move, Proofs!Move, GuardConditions,
         Proofs!GuardConditions, WithStarted, Proofs!WithStarted, WithResult,
         Proofs!WithResult, NextAttemptForStart, Proofs!NextAttemptForStart, ResultStatus,
         Proofs!ResultStatus

\* apply_step_result changes the step's record.
LEMMA ApplyStepResultFields ==
    ASSUME NEW i \in Instance, NEW step \in Steps, NEW status \in ResultStatus,
           NEW j, j = ApplyStepResult(i, step, status)
    PROVE  /\ j \in Instance
           /\ j.records[step] = WithResult(i.records[step], status)
           /\ \A s \in Steps \ {step} : j.records[s] = i.records[s]
           /\ j.keys = i.keys
           /\ j.state = i.state /\ j.moves = i.moves /\ j.completed = i.completed
           /\ j.approved = i.approved /\ j.approvals = i.approvals
           /\ j.deferrals = i.deferrals
  BY Proofs!ApplyStepResultFields, StatesAssumption, StepsAssumption,
     TransitionsAssumption, LeaseTtlAssumption, NoLeaseAssumption, NoSessionAssumption
     DEF Instance, Proofs!Instance, StepRecord, Proofs!StepRecord, StepStatus,
         Proofs!StepStatus, Lease, Proofs!Lease, Move, Proofs!Move, GuardConditions,
         Proofs!GuardConditions, ApplyStepResult, Proofs!ApplyStepResult, WithResult,
         Proofs!WithResult, ResultStatus, Proofs!ResultStatus

\* move_on changes the state, the moves and the completion.
LEMMA MoveOnFields ==
    ASSUME NEW i \in Instance, NEW trigger \in Triggers, CanMoveOn(i, trigger),
           NEW j, j = MoveOn(i, trigger)
    PROVE  LET to == TransitionForTrigger(i.state, trigger).to IN
           /\ j \in Instance
           /\ j.state = to
           /\ j.moves = Append(i.moves, [trigger |-> trigger, from |-> i.state, to |-> to])
           /\ j.completed = (i.completed \/ to \in TerminalStates)
           /\ j.records = i.records /\ j.keys = i.keys
           /\ j.approved = i.approved /\ j.approvals = i.approvals
           /\ j.deferrals = i.deferrals
<1> USE StatesAssumption, StepsAssumption, TransitionsAssumption, LeaseTtlAssumption,
        NoLeaseAssumption, NoSessionAssumption
<1>1. /\ j = Proofs!MoveOn(i, trigger) /\ i \in Proofs!Instance
      /\ Proofs!CanMoveOn(i, trigger)
      /\ Proofs!TransitionForTrigger(i.state, trigger)
           = TransitionForTrigger(i.state, trigger)
  BY SameValues, SameMove
<1>2. QED
  BY <1>1, SameValues, Proofs!MoveOnFields

\* approve_guard changes the context and the list of approvals.
LEMMA ApproveGuardFields ==
    ASSUME NEW i \in Instance, NEW guard \in Guards, NEW j, j = ApproveGuard(i, guard)
    PROVE  /\ j \in Instance
           /\ j.approved = i.approved \cup {guard}
           /\ j.approvals = Append(i.approvals, guard)
           /\ j.deferrals = i.deferrals
           /\ j.records = i.records /\ j.keys = i.keys
           /\ j.state = i.state /\ j.moves = i.moves /\ j.completed = i.completed
  BY Proofs!ApproveGuardFields, StatesAssumption, StepsAssumption, TransitionsAssumption,
     LeaseTtlAssumption, NoLeaseAssumption, NoSessionAssumption
     DEF Instance, Proofs!Instance, StepRecord, Proofs!StepRecord, StepStatus,
         Proofs!StepStatus, Lease, Proofs!Lease, Move, Proofs!Move, GuardConditions,
         Proofs!GuardConditions, ApproveGuard, Proofs!ApproveGuard

\* defer_guard changes the list of deferrals only.
LEMMA DeferGuardFields ==
    ASSUME NEW i \in Instance, NEW guard \in Guards, NEW j, j = DeferGuard(i, guard)
    PROVE  /\ j \in Instance
           /\ j.deferrals = Append(i.deferrals, guard)
           /\ j.approved = i.approved /\ j.approvals = i.approvals
           /\ j.records = i.records /\ j.keys = i.keys
           /\ j.state = i.state /\ j.moves = i.moves /\ j.completed = i.completed
  BY Proofs!DeferGuardFields, StatesAssumption, StepsAssumption, TransitionsAssumption,
     LeaseTtlAssumption, NoLeaseAssumption, NoSessionAssumption
     DEF Instance, Proofs!Instance, StepRecord, Proofs!StepRecord, StepStatus,
         Proofs!StepStatus, Lease, Proofs!Lease, Move, Proofs!Move, GuardConditions,
         Proofs!GuardConditions, DeferGuard, Proofs!DeferGuard

\* An accepted call returns a session and seals well-formed facts.
LEMMA AfterType ==
    ASSUME NEW request \in Calls, NEW i \in Instance \cup {NoSession}, NEW t \in Nat,
           Accepts(request, i, t), NEW j, j = After(request, i, t)
    PROVE  j \in Instance /\ FactsOf(request, j) \in Seq(Fact)
<1> USE StatesAssumption, StepsAssumption, TransitionsAssumption, LeaseTtlAssumption,
        NoLeaseAssumption, NoSessionAssumption
<1>1. /\ j = Proofs!After(request, i, t) /\ i \in Proofs!Instance \cup {NoSession}
      /\ Proofs!Accepts(request, i, t) /\ request \in Proofs!Calls
      /\ Proofs!FactsOf(request, j) = FactsOf(request, j)
  BY SameValues, SameCalls, SameWork
<1>2. QED
  BY <1>1, SameValues, SameCalls, Proofs!AfterType

\* apply_step_result wants the step in progress, in the state it belongs to.
LEMMA ResultFollows ==
    ASSUME NEW i \in Instance, NEW step \in Steps, NEW status \in ResultStatus,
           CanApplyStepResult(i, step), NEW j, j = ApplyStepResult(i, step, status)
    PROVE  Follows(i, j) /\ j.records[step].status = status
<1> USE StatesAssumption, StepsAssumption, TransitionsAssumption, LeaseTtlAssumption,
        NoLeaseAssumption, NoSessionAssumption
<1>1. /\ j = Proofs!ApplyStepResult(i, step, status) /\ i \in Proofs!Instance
      /\ Proofs!CanApplyStepResult(i, step) /\ status \in Proofs!ResultStatus
  BY SameValues, SameResult
<1>2. Proofs!Follows(i, j) /\ j.records[step].status = status
  BY <1>1, SameValues, Proofs!ResultFollows
<1>3. QED
  BY <1>2, SameFollows

\* Every session use case keeps to that.
LEMMA CallFollows ==
    ASSUME NEW request \in Calls, request.kind # "Open", NEW i \in Instance, NEW t \in Nat,
           Accepts(request, i, t), NEW j, j = After(request, i, t)
    PROVE  Follows(i, j)
<1> USE StatesAssumption, StepsAssumption, TransitionsAssumption, LeaseTtlAssumption,
        NoLeaseAssumption, NoSessionAssumption
<1>1. /\ j = Proofs!After(request, i, t) /\ i \in Proofs!Instance
      /\ Proofs!Accepts(request, i, t) /\ request \in Proofs!Calls
  BY SameValues, SameCalls, SameWork
<1>2. Proofs!Follows(i, j)
  BY <1>1, SameValues, Proofs!CallFollows
<1>3. QED
  BY <1>2, SameFollows

-----------------------------------------------------------------------------
\* The operators of the instantiated module are the ones used here.

\* The aggregate accepts the same calls on both sides.
LEMMA SameAccepts ==
    \A request, i, t : Atomic!Accepts(request, i, t) <=> Accepts(request, i, t)
  BY DEF Atomic!Accepts, Accepts, Atomic!CanStartStep, CanStartStep,
         Atomic!IsTerminal, IsTerminal, Atomic!CanBeStartedAt, CanBeStartedAt,
         Atomic!AllowsAttempt, AllowsAttempt,
         Atomic!NextAttemptForStart, NextAttemptForStart,
         Atomic!CanApplyStepResult, CanApplyStepResult, Atomic!CanMoveOn, CanMoveOn,
         Atomic!GuardsAreSatisfied, GuardsAreSatisfied,
         Atomic!GuardSatisfied, GuardSatisfied,
         Atomic!TransitionForTrigger, TransitionForTrigger,
         Atomic!CanApproveGuard, CanApproveGuard, Atomic!CanDeferGuard, CanDeferGuard,
         Atomic!IsHumanGuard, IsHumanGuard

\* An accepted call has the same effect on both sides.
LEMMA SameAfter ==
    \A request, i, t : Atomic!After(request, i, t) = After(request, i, t)
  BY DEF Atomic!After, After, Atomic!Opened, Opened, Atomic!StartStep, StartStep,
         Atomic!WithStarted, WithStarted, Atomic!NextAttemptForStart, NextAttemptForStart,
         Atomic!ApplyStepResult, ApplyStepResult, Atomic!WithResult, WithResult,
         Atomic!MoveOn, MoveOn, Atomic!TransitionForTrigger, TransitionForTrigger,
         Atomic!ApproveGuard, ApproveGuard, Atomic!DeferGuard, DeferGuard

\* An accepted call seals the same facts on both sides.
LEMMA SameFacts ==
    \A request, i : Atomic!FactsOf(request, i) = FactsOf(request, i)
  BY DEF Atomic!FactsOf, FactsOf, Atomic!FactOf, FactOf, Atomic!Session, Session,
         Atomic!StepStarted, StepStarted, Atomic!StepFinished, StepFinished,
         Atomic!TransitionApplied, TransitionApplied, Atomic!IsTerminal, IsTerminal

-----------------------------------------------------------------------------
\* Facts sealed are not unsealed.
LEMMA RangeConcat ==
    ASSUME NEW j \in Seq(Fact), NEW k \in Seq(Fact)
    PROVE  /\ j \o k \in Seq(Fact)
           /\ Range(j) \subseteq Range(j \o k)
           /\ Range(k) \subseteq Range(j \o k)
<1> DEFINE l == j \o k
<1>1. /\ l \in Seq(Fact) /\ Len(j) \in Nat /\ Len(k) \in Nat
      /\ DOMAIN j = 1..Len(j) /\ DOMAIN k = 1..Len(k)
      /\ DOMAIN l = 1..(Len(j) + Len(k))
      /\ \A n \in 1..Len(j) : l[n] = j[n]
  OBVIOUS
<1>2. \A n \in 1..Len(k) : l[Len(j) + n] = k[n]
  OBVIOUS
<1> HIDE DEF l
<1>3. ASSUME NEW n \in DOMAIN j PROVE j[n] \in Range(l)
  <2>1. n \in DOMAIN l /\ l[n] = j[n]
    BY <1>1
  <2>2. QED
    BY <2>1 DEF Range
<1>4. ASSUME NEW n \in DOMAIN k PROVE k[n] \in Range(l)
  <2>1. Len(j) + n \in DOMAIN l /\ l[Len(j) + n] = k[n]
    BY <1>1, <1>2
  <2>2. QED
    BY <2>1 DEF Range
<1>5. QED
  BY <1>1, <1>3, <1>4 DEF Range, l

\* A store that took one more commit.
Advanced ==
    /\ store' \in [revision: Nat, instance: Instance \cup {NoSession}, journal: Seq(Fact)]
    /\ store'.revision = store.revision + 1
    /\ Range(store.journal) \subseteq Range(store'.journal)

\* A commit that lands stores a well-formed session, accepted as it stands.
LEMMA LandEffect ==
    ASSUME TypeOK, StagedWorkIsCurrent, NEW c \in Callers, Land(c)
    PROVE  /\ loaded[c] = store.instance
           /\ Accepts(call[c], store.instance, at[c])
           /\ store'.instance = After(call[c], store.instance, at[c])
           /\ store'.journal = store.journal \o FactsOf(call[c], store'.instance)
           /\ FactsOf(call[c], store'.instance) \in Seq(Fact)
           /\ Advanced
<1> DEFINE j == After(call[c], store.instance, at[c])
<1>1. /\ loaded[c] = store.instance
      /\ Accepts(call[c], store.instance, at[c])
  BY DEF Land, StagedWorkIsCurrent, CallerIsCurrent
<1>2. store' = [revision |-> store.revision + 1, instance |-> j,
                journal |-> store.journal \o FactsOf(call[c], j)]
  BY <1>1 DEF Land
<1>3. call[c] \in Calls /\ at[c] \in Nat /\ store.instance \in Instance \cup {NoSession}
      /\ store.revision \in Nat /\ store.journal \in Seq(Fact)
  BY DEF TypeOK
<1>4. j \in Instance /\ FactsOf(call[c], j) \in Seq(Fact)
  BY <1>1, <1>3, AfterType
<1> HIDE DEF j
<1>5. /\ store.journal \o FactsOf(call[c], j) \in Seq(Fact)
      /\ Range(store.journal) \subseteq Range(store.journal \o FactsOf(call[c], j))
  BY <1>3, <1>4, RangeConcat
<1>6. Advanced
  BY <1>2, <1>3, <1>4, <1>5 DEF Advanced
<1>7. QED
  BY <1>1, <1>2, <1>4, <1>6 DEF j

\* Callers that do not move stay current: a commit of another caller makes
\* what they hold stale, never wrong.
LEMMA OthersStayCurrent ==
    ASSUME TypeOK, NEW d \in Callers, CallerIsCurrent(d),
           store' = store \/ Advanced,
           now' \in Nat, now <= now',
           pc'[d] = pc[d], call'[d] = call[d], expected'[d] = expected[d],
           loaded'[d] = loaded[d], at'[d] = at[d]
    PROVE  CallerIsCurrent(d)'
<1>1. expected[d] \in Nat /\ at[d] \in Nat /\ store.revision \in Nat /\ now \in Nat
  BY DEF TypeOK
<1>2. CASE store' = store
  BY <1>1, <1>2 DEF CallerIsCurrent
<1>3. CASE Advanced
  BY <1>1, <1>3 DEF CallerIsCurrent, Advanced
<1>4. QED
  BY <1>2, <1>3

\* A caller that returned holds nothing.
LEMMA ReturnedIsCurrent ==
    ASSUME NEW c \in Callers, pc'[c] = "idle", call'[c] = OpenWith({}), expected'[c] = 0,
           loaded'[c] = NoSession, at'[c] = 0, store'.revision \in Nat, now' \in Nat
    PROVE  CallerIsCurrent(c)'
<1>1. OpenWith({}).kind = "Open"
  BY DEF OpenWith
<1>2. QED
  BY <1>1 DEF CallerIsCurrent

\* What Return does to the callers' variables.
LEMMA ReturnEffect ==
    ASSUME TypeOK, NEW c \in Callers, Return(c)
    PROVE  /\ pc' \in [Callers -> Phases] /\ call' \in [Callers -> Calls]
           /\ expected' \in [Callers -> Nat] /\ at' \in [Callers -> Nat]
           /\ loaded' \in [Callers -> Instance \cup {NoSession}]
           /\ pc'[c] = "idle" /\ call'[c] = OpenWith({}) /\ expected'[c] = 0
           /\ loaded'[c] = NoSession /\ at'[c] = 0
           /\ \A d \in Callers \ {c} :
                /\ pc'[d] = pc[d] /\ call'[d] = call[d] /\ expected'[d] = expected[d]
                /\ loaded'[d] = loaded[d] /\ at'[d] = at[d]
  BY DEF TypeOK, Return, DropSession, Phases, Calls, OpenCalls, OpenWith

\* One caller steps, with or without a commit: it is enough to look at it.
OnlyCaller(c) ==
    \A d \in Callers \ {c} :
        /\ pc'[d] = pc[d] /\ call'[d] = call[d] /\ expected'[d] = expected[d]
        /\ loaded'[d] = loaded[d] /\ at'[d] = at[d]

\* If the caller that stepped is still current, so is every other caller.
LEMMA CallerKeeps ==
    ASSUME TypeOK, StagedWorkIsCurrent, NEW c \in Callers, OnlyCaller(c),
           store' = store \/ Advanced, now' = now, CallerIsCurrent(c)'
    PROVE  StagedWorkIsCurrent'
<1>1. now' \in Nat /\ now <= now'
  BY DEF TypeOK
<1>2. ASSUME NEW d \in Callers \ {c} PROVE CallerIsCurrent(d)'
  BY <1>1, OthersStayCurrent DEF StagedWorkIsCurrent, OnlyCaller
<1>3. store'.revision = 0 => store'.instance = NoSession
  BY DEF StagedWorkIsCurrent, Advanced, TypeOK
<1>4. QED
  BY <1>2, <1>3 DEF StagedWorkIsCurrent

\* A step that ends a use case: Refuse, Commit, Conflict, Abandon and
\* AppendContribution.
LEMMA ReturnKeeps ==
    ASSUME TypeOK, StagedWorkIsCurrent, NEW c \in Callers, Return(c),
           store' = store \/ Advanced, now' = now, transcript' \in Seq(Steps)
    PROVE  TypeOK' /\ StagedWorkIsCurrent'
<1>1. store'.revision \in Nat /\ now' \in Nat
  BY DEF TypeOK, Advanced
<1>2. CallerIsCurrent(c)'
  BY <1>1, ReturnEffect, ReturnedIsCurrent
<1>3. OnlyCaller(c)
  BY ReturnEffect DEF OnlyCaller
<1>4. StagedWorkIsCurrent'
  BY <1>2, <1>3, CallerKeeps
<1>5. TypeOK'
  BY ReturnEffect DEF TypeOK, Advanced
<1>6. QED
  BY <1>4, <1>5

\* start_ceremony stages a session that is to be the first.
LEMMA StartKeeps ==
    ASSUME TypeOK, StagedWorkIsCurrent, NEW c \in Callers, NEW approved \in SUBSET Guards,
           StartCeremony(c, approved)
    PROVE  TypeOK' /\ StagedWorkIsCurrent'
<1>1. /\ pc'[c] = "staged" /\ at'[c] = now /\ OnlyCaller(c)
      /\ store' = store /\ now' = now /\ call'[c] = OpenWith(approved)
      /\ expected' = expected /\ loaded' = loaded
  BY DEF StartCeremony, TypeOK, OnlyCaller
<1>2. expected[c] = 0 /\ loaded[c] = NoSession
  BY DEF StartCeremony, StagedWorkIsCurrent, CallerIsCurrent
<1>3. OpenWith(approved).kind = "Open" /\ OpenWith(approved) \in Calls
  BY DEF OpenWith, OpenCalls, Calls
<1>4. Accepts(OpenWith(approved), NoSession, now)
  BY <1>3 DEF Accepts
<1>5. CallerIsCurrent(c)'
  BY <1>1, <1>2, <1>3, <1>4 DEF CallerIsCurrent, StagedWorkIsCurrent, TypeOK
<1>6. TypeOK'
  BY <1>3 DEF StartCeremony, TypeOK, Phases
<1>7. QED
  BY <1>1, <1>5, <1>6, CallerKeeps

\* Reading the revision, for a call that may be made.
LEMMA LoadRevisionKeeps ==
    ASSUME TypeOK, StagedWorkIsCurrent, NEW c \in Callers, NEW request \in Calls,
           LoadRevision(c, request), UNCHANGED <<store, now, transcript>>,
           request.kind = "FinishStep" =>
             StepStarted(request.step, request.attempt) \in Range(store.journal)
    PROVE  TypeOK' /\ StagedWorkIsCurrent'
<1>1. /\ pc'[c] = "loading" /\ call'[c] = request /\ expected'[c] = store.revision
      /\ OnlyCaller(c) /\ store' = store /\ now' = now /\ loaded' = loaded /\ at' = at
  BY DEF LoadRevision, TypeOK, OnlyCaller
<1>2. CallerIsCurrent(c)'
  BY <1>1 DEF CallerIsCurrent, StagedWorkIsCurrent, TypeOK
<1>3. TypeOK'
  BY DEF LoadRevision, TypeOK, Phases
<1>4. QED
  BY <1>1, <1>2, <1>3, CallerKeeps

\* Reading the session: if the revision read before still stands, this is
\* the session it names.
LEMMA LoadInstanceKeeps ==
    ASSUME TypeOK, StagedWorkIsCurrent, NEW c \in Callers, LoadInstance(c)
    PROVE  TypeOK' /\ StagedWorkIsCurrent'
<1>1. /\ pc'[c] = "staged" /\ loaded'[c] = store.instance /\ at'[c] = now
      /\ OnlyCaller(c) /\ store' = store /\ now' = now /\ call' = call
      /\ expected' = expected /\ Accepts(call[c], store.instance, now)
  BY DEF LoadInstance, TypeOK, OnlyCaller
<1>2. CallerIsCurrent(c)'
  BY <1>1 DEF CallerIsCurrent, StagedWorkIsCurrent, TypeOK
<1>3. TypeOK'
  BY DEF LoadInstance, TypeOK, Phases
<1>4. QED
  BY <1>1, <1>2, <1>3, CallerKeeps

\* A claim that lands names an attempt it has just sealed.
LEMMA CommitClaimKeeps ==
    ASSUME TypeOK, StagedWorkIsCurrent, NEW c \in Callers, CommitClaim(c)
    PROVE  TypeOK' /\ StagedWorkIsCurrent'
<1> DEFINE step == call[c].step
           attempt == NextAttemptForStart(loaded[c].records[step])
           f == StepStarted(step, attempt)
           request == [kind |-> "FinishStep", step |-> step, status |-> "Completed",
                       attempt |-> attempt]
<1>1. Land(c) /\ call[c].kind = "RunStep"
  BY DEF CommitClaim
<1>2. /\ loaded[c] = store.instance
      /\ Accepts(call[c], store.instance, at[c])
      /\ store'.instance = After(call[c], store.instance, at[c])
      /\ store'.journal = store.journal \o FactsOf(call[c], store'.instance)
      /\ FactsOf(call[c], store'.instance) \in Seq(Fact)
      /\ Advanced
  BY <1>1, LandEffect
<1>3. call[c] \in ClaimCalls
  BY <1>1, CallKinds DEF TypeOK
<1>4. step \in Steps /\ call[c].key \in Keys
  BY <1>3 DEF ClaimCalls
<1>5. store.instance \in Instance /\ at[c] \in Nat
  BY <1>1, <1>2 DEF Accepts, TypeOK
<1>6. loaded[c].records[step] \in StepRecord
  BY <1>2, <1>4, <1>5 DEF Instance
<1>7. store'.instance = StartStep(store.instance, step, call[c].key, at[c])
  BY <1>1, <1>2 DEF After
<1>8. store'.instance.records[step].attempt = attempt
  <2>1. store'.instance.records[step] = WithStarted(store.instance.records[step], call[c].key, at[c])
    BY <1>4, <1>5, <1>7, StartStepFields
  <2>2. QED
    BY <1>2, <1>4, <1>5, <1>6, <2>1, RecordFields
<1>9. FactsOf(call[c], store'.instance) = <<f>>
  BY <1>1, <1>8 DEF FactsOf
<1>10. attempt \in Nat \ {0}
  BY <1>6 DEF NextAttemptForStart, StepRecord
<1>11. request \in FinishCalls
  BY <1>4, <1>10 DEF FinishCalls, ResultStatus, StepStatus
<1> HIDE DEF attempt, step
<1>12. f \in Range(store'.journal)
  <2>1. store.journal \in Seq(Fact)
    BY DEF TypeOK
  <2>2. <<f>> \in Seq(Fact) /\ store'.journal = store.journal \o <<f>>
    BY <1>2, <1>9
  <2>3. f \in Range(<<f>>)
    BY DEF Range
  <2> HIDE DEF f
  <2>4. QED
    BY <2>1, <2>2, <2>3, RangeConcat
<1>13. /\ pc'[c] = "running" /\ call' = [call EXCEPT ![c] = request] /\ expected'[c] = 0
       /\ loaded'[c] = NoSession /\ at'[c] = 0 /\ now' = now /\ transcript' = transcript
       /\ OnlyCaller(c)
  BY <1>1 DEF CommitClaim, DropSession, Land, TypeOK, OnlyCaller, step, attempt
<1>14. /\ request.kind = "FinishStep" /\ request.step = step /\ request.attempt = attempt
       /\ request \in Calls
  BY <1>11 DEF Calls
<1> HIDE DEF request
<1>15. call'[c] = request /\ call' \in [Callers -> Calls]
  BY <1>13, <1>14 DEF TypeOK
<1>16. store'.revision \in Nat /\ now' \in Nat
  BY <1>2, <1>13 DEF Advanced, TypeOK
<1>17. CallerIsCurrent(c)'
  BY <1>12, <1>13, <1>14, <1>15, <1>16 DEF CallerIsCurrent
<1>18. /\ pc' \in [Callers -> Phases] /\ expected' \in [Callers -> Nat]
       /\ loaded' \in [Callers -> Instance \cup {NoSession}] /\ at' \in [Callers -> Nat]
  BY DEF CommitClaim, DropSession, TypeOK, Phases
<1>19. TypeOK'
  BY <1>2, <1>13, <1>15, <1>18 DEF TypeOK, Advanced
<1>20. QED
  BY <1>2, <1>13, <1>17, <1>19, CallerKeeps

\* The handler's answer is about the attempt the claim returned.
LEMMA HandlerKeeps ==
    ASSUME TypeOK, StagedWorkIsCurrent, NEW c \in Callers, NEW status \in ResultStatus,
           HandlerReturns(c, status)
    PROVE  TypeOK' /\ StagedWorkIsCurrent'
<1> DEFINE request == [call[c] EXCEPT !.status = status]
<1>1. /\ call[c].kind = "FinishStep"
      /\ StepStarted(call[c].step, call[c].attempt) \in Range(store.journal)
  BY DEF HandlerReturns, StagedWorkIsCurrent, CallerIsCurrent
<1>2. call[c] \in FinishCalls
  BY <1>1, CallKinds DEF TypeOK
<1>3. /\ request \in FinishCalls /\ request.step = call[c].step
      /\ request.attempt = call[c].attempt
  BY <1>2 DEF FinishCalls
<1>4. request \in Calls
  BY <1>3 DEF Calls
<1>5. LoadRevision(c, request) /\ UNCHANGED <<store, now, transcript>>
  BY DEF HandlerReturns
<1> HIDE DEF request
<1>6. QED
  BY <1>1, <1>3, <1>4, <1>5, LoadRevisionKeeps

\* A successful result that lands leaves the transcript to be written.
LEMMA CommitResultKeeps ==
    ASSUME TypeOK, StagedWorkIsCurrent, NEW c \in Callers, CommitResult(c)
    PROVE  TypeOK' /\ StagedWorkIsCurrent'
<1>1. Land(c) /\ call[c].kind = "FinishStep"
  BY DEF CommitResult
<1>2. Advanced
  BY <1>1, LandEffect
<1>3. /\ pc'[c] = "appending" /\ call' = call /\ expected'[c] = 0
      /\ loaded'[c] = NoSession /\ at'[c] = 0 /\ now' = now /\ transcript' = transcript
      /\ OnlyCaller(c)
  BY <1>1 DEF CommitResult, DropSession, Land, TypeOK, OnlyCaller
<1>4. StepStarted(call[c].step, call[c].attempt) \in Range(store.journal)
  BY <1>1 DEF StagedWorkIsCurrent, CallerIsCurrent
<1>5. store'.revision \in Nat /\ now' \in Nat
  BY <1>2, <1>3 DEF Advanced, TypeOK
<1>6. CallerIsCurrent(c)'
  BY <1>1, <1>2, <1>3, <1>4, <1>5 DEF CallerIsCurrent, Advanced
<1>7. /\ pc' \in [Callers -> Phases] /\ expected' \in [Callers -> Nat]
      /\ loaded' \in [Callers -> Instance \cup {NoSession}] /\ at' \in [Callers -> Nat]
  BY DEF CommitResult, DropSession, TypeOK, Phases
<1>8. TypeOK'
  BY <1>2, <1>3, <1>7 DEF TypeOK, Advanced
<1>9. QED
  BY <1>2, <1>3, <1>6, <1>8, CallerKeeps

\* Every step keeps the types and what callers hold current.
LEMMA CurrentStep ==
    ASSUME TypeOK, StagedWorkIsCurrent, [Next]_vars
    PROVE  TypeOK' /\ StagedWorkIsCurrent'
<1>1. CASE Tick
  <2>1. ASSUME NEW d \in Callers PROVE CallerIsCurrent(d)'
    BY <1>1, OthersStayCurrent DEF Tick, local, TypeOK, StagedWorkIsCurrent
  <2>2. QED
    BY <1>1, <2>1 DEF Tick, local, TypeOK, StagedWorkIsCurrent
<1>2. CASE UNCHANGED vars
  BY <1>2 DEF vars, local, TypeOK, StagedWorkIsCurrent, CallerIsCurrent
<1>3. ASSUME NEW c \in Callers, NEW request \in Offered, Begin(c, request)
      PROVE  TypeOK' /\ StagedWorkIsCurrent'
  <2>1. request \in Calls /\ request \in ClientCalls
    BY BoundsAssumption DEF Calls
  <2>2. request.kind # "FinishStep"
    BY <2>1 DEF ClientCalls, ClaimCalls, CompleteCalls, MoveCalls, GuardCalls
  <2>3. QED
    BY <1>3, <2>1, <2>2, LoadRevisionKeeps DEF Begin
<1>4. ASSUME NEW c \in Callers, Refuse(c) \/ Conflict(c) \/ Abandon(c)
      PROVE  TypeOK' /\ StagedWorkIsCurrent'
  BY <1>4, ReturnKeeps DEF Refuse, Conflict, Abandon, TypeOK
<1>5. ASSUME NEW c \in Callers, Commit(c)
      PROVE  TypeOK' /\ StagedWorkIsCurrent'
  <2>1. Advanced /\ Return(c) /\ now' = now /\ transcript' = transcript
    BY <1>5, LandEffect DEF Commit, Land
  <2>2. QED
    BY <2>1, ReturnKeeps DEF TypeOK
<1>6. ASSUME NEW c \in Callers, AppendContribution(c)
      PROVE  TypeOK' /\ StagedWorkIsCurrent'
  <2>1. call[c].kind = "FinishStep"
    BY <1>6 DEF AppendContribution, StagedWorkIsCurrent, CallerIsCurrent
  <2>2. call[c] \in FinishCalls
    BY <2>1, CallKinds DEF TypeOK
  <2>3. call[c].step \in Steps
    BY <2>2 DEF FinishCalls
  <2>4. transcript' \in Seq(Steps)
    BY <1>6, <2>3 DEF AppendContribution, TypeOK
  <2>5. QED
    BY <1>6, <2>4, ReturnKeeps DEF AppendContribution
<1>7. ASSUME NEW c \in Callers, \E approved \in Contexts : StartCeremony(c, approved)
      PROVE  TypeOK' /\ StagedWorkIsCurrent'
  BY <1>7, StartKeeps, BoundsAssumption
<1>8. QED
  BY <1>1, <1>2, <1>3, <1>4, <1>5, <1>6, <1>7, LoadInstanceKeeps, CommitClaimKeeps,
     CommitResultKeeps, HandlerKeeps DEF Next

(***************************************************************************)
(* The store, the callers' copies and the transcript are well formed.      *)
(***************************************************************************)
THEOREM SessionTypeCorrect == Spec => []TypeOK
<1>1. Init => TypeOK /\ StagedWorkIsCurrent
  BY DEF Init, TypeOK, StagedWorkIsCurrent, CallerIsCurrent, Phases, Calls, OpenCalls, OpenWith
<1>2. QED
  BY <1>1, CurrentStep, PTL DEF Spec

(***************************************************************************)
(* A caller whose expected revision still stands holds the stored session  *)
(* and a call that session accepts: reading the revision before the        *)
(* session is enough.                                                      *)
(***************************************************************************)
THEOREM StagedWorkStaysCurrent == Spec => []StagedWorkIsCurrent
<1>1. Init => TypeOK /\ StagedWorkIsCurrent
  BY DEF Init, TypeOK, StagedWorkIsCurrent, CallerIsCurrent, Phases, Calls, OpenCalls, OpenWith
<1>2. QED
  BY <1>1, CurrentStep, PTL DEF Spec

-----------------------------------------------------------------------------
\* A commit that lands performs the call on the atomic session.
LEMMA LandPerforms ==
    ASSUME TypeOK, StagedWorkIsCurrent, NEW c \in Callers, Land(c)
    PROVE  Atomic!Perform(call[c], at[c])
<1>1. /\ Accepts(call[c], store.instance, at[c])
      /\ store'.instance = After(call[c], store.instance, at[c])
      /\ store'.journal = store.journal \o FactsOf(call[c], store'.instance)
  BY LandEffect
<1>2. now' = now
  BY DEF Land
<1>3. QED
  BY <1>1, <1>2, SameAccepts, SameAfter, SameFacts DEF Atomic!Perform

\* Which action of the atomic session it is.
LEMMA LandRefines ==
    ASSUME TypeOK, StagedWorkIsCurrent, NEW c \in Callers, Land(c)
    PROVE  Atomic!Next
<1>1. Atomic!Perform(call[c], at[c])
  BY LandPerforms
<1>2. call[c] \in Calls /\ at[c] \in 0..now
  BY DEF TypeOK, StagedWorkIsCurrent, CallerIsCurrent
<1>3. CASE call[c] \in OpenCalls
  BY <1>1, <1>2, <1>3 DEF Atomic!OpenSession, Atomic!Next, OpenCalls, Atomic!OpenCalls
<1>4. CASE call[c] \in ClaimCalls
  BY <1>1, <1>2, <1>4 DEF Atomic!ClaimStep, Atomic!Next, ClaimCalls, Atomic!ClaimCalls
<1>5. CASE call[c] \in CompleteCalls
  <2>1. call[c] \in Atomic!CompleteCalls
    BY <1>5 DEF CompleteCalls, Atomic!CompleteCalls, ResultStatus, Atomic!ResultStatus,
                StepStatus, Atomic!StepStatus
  <2>2. QED
    BY <1>1, <1>2, <2>1 DEF Atomic!CompleteStep, Atomic!Next
<1>6. CASE call[c] \in FinishCalls
  <2> DEFINE f == StepStarted(call[c].step, call[c].attempt)
  <2>1. /\ f \in Range(store.journal)
        /\ f.type = "StepStarted" /\ f.about = call[c].step /\ f.number = call[c].attempt
    BY <1>6 DEF FinishCalls, StagedWorkIsCurrent, CallerIsCurrent, StepStarted, FactOf
  <2>2. /\ call[c] = [kind |-> "FinishStep", step |-> call[c].step,
                      status |-> call[c].status, attempt |-> call[c].attempt]
        /\ call[c].status \in Atomic!ResultStatus
    BY <1>6 DEF FinishCalls, ResultStatus, Atomic!ResultStatus, StepStatus, Atomic!StepStatus
  <2> HIDE DEF f
  <2>3. Atomic!FinishStep
    BY <1>1, <1>2, <2>1, <2>2 DEF Atomic!FinishStep, Atomic!Range, Range
  <2>4. QED
    BY <2>3 DEF Atomic!Next
<1>7. CASE call[c] \in MoveCalls
  BY <1>1, <1>2, <1>7 DEF Atomic!ApplyTransition, Atomic!Next, MoveCalls, Atomic!MoveCalls
<1>8. CASE call[c] \in GuardCalls
  BY <1>1, <1>2, <1>8 DEF Atomic!DecideGuard, Atomic!Next, GuardCalls, Atomic!GuardCalls
<1>9. QED
  BY <1>2, <1>3, <1>4, <1>5, <1>6, <1>7, <1>8, CallKinds

\* Every step is a step of the atomic session or leaves it alone.
LEMMA RefinementStep ==
    ASSUME TypeOK, StagedWorkIsCurrent, [Next]_vars
    PROVE  [Atomic!Next]_(Atomic!vars)
<1>1. CASE Tick
  BY <1>1 DEF Tick, Atomic!Tick, Atomic!Next
<1>2. ASSUME NEW c \in Callers, Commit(c) \/ CommitClaim(c) \/ CommitResult(c)
      PROVE  Atomic!Next
  BY <1>2, LandRefines DEF Commit, CommitClaim, CommitResult
<1>3. ASSUME store' = store /\ now' = now
      PROVE  UNCHANGED Atomic!vars
  BY <1>3 DEF Atomic!vars
<1>4. ASSUME NEW c \in Callers,
             \/ \E approved \in Contexts : StartCeremony(c, approved)
             \/ \E request \in Offered : Begin(c, request)
             \/ LoadInstance(c) \/ Refuse(c) \/ Conflict(c)
             \/ \E status \in ResultStatus : HandlerReturns(c, status)
             \/ AppendContribution(c) \/ Abandon(c)
      PROVE  store' = store /\ now' = now
  BY <1>4 DEF StartCeremony, Begin, LoadInstance, Refuse, Conflict, HandlerReturns,
              AppendContribution, Abandon
<1>5. CASE UNCHANGED vars
  BY <1>3, <1>5 DEF vars
<1>6. QED
  BY <1>1, <1>2, <1>3, <1>4, <1>5 DEF Next

(***************************************************************************)
(* Loading in two reads, working on a copy and committing against the      *)
(* revision read first implements sessions on which calls are atomic, for  *)
(* any number of callers, calls, crashes and conflicts.                    *)
(***************************************************************************)
THEOREM SessionIsAtomic == Spec => ImplementsAtomicSession
<1>1. Init => Atomic!Init
  BY DEF Init, Atomic!Init
<1>2. QED
  BY <1>1, RefinementStep, SessionTypeCorrect, StagedWorkStaysCurrent, PTL
     DEF Spec, ImplementsAtomicSession, Atomic!Spec

-----------------------------------------------------------------------------
\* The specification the theorems of the atomic session are about is the one implemented.
LEMMA SameSpec == Atomic!Spec => Proofs!Spec
  BY PTL DEF Atomic!Spec, Proofs!Spec, Atomic!Init, Proofs!Init, Atomic!Next, Proofs!Next,
             Atomic!vars, Proofs!vars, Atomic!Tick, Proofs!Tick,
             Atomic!OpenSession, Proofs!OpenSession, Atomic!ClaimStep, Proofs!ClaimStep,
             Atomic!CompleteStep, Proofs!CompleteStep,
             Atomic!FinishStep, Proofs!FinishStep,
             Atomic!ApplyTransition, Proofs!ApplyTransition,
             Atomic!DecideGuard, Proofs!DecideGuard, Atomic!Perform, Proofs!Perform,
             Atomic!Accepts, Proofs!Accepts, Atomic!After, Proofs!After,
             Atomic!FactsOf, Proofs!FactsOf, Atomic!Opened, Proofs!Opened,
             Atomic!CanStartStep, Proofs!CanStartStep,
             Atomic!CanBeStartedAt, Proofs!CanBeStartedAt,
             Atomic!NextAttemptForStart, Proofs!NextAttemptForStart,
             Atomic!AllowsAttempt, Proofs!AllowsAttempt,
             Atomic!StartStep, Proofs!StartStep, Atomic!WithStarted, Proofs!WithStarted,
             Atomic!CanApplyStepResult, Proofs!CanApplyStepResult,
             Atomic!WithResult, Proofs!WithResult,
             Atomic!ApplyStepResult, Proofs!ApplyStepResult,
             Atomic!IsTerminal, Proofs!IsTerminal,
             Atomic!IsHumanGuard, Proofs!IsHumanGuard,
             Atomic!CanApproveGuard, Proofs!CanApproveGuard,
             Atomic!ApproveGuard, Proofs!ApproveGuard,
             Atomic!CanDeferGuard, Proofs!CanDeferGuard,
             Atomic!DeferGuard, Proofs!DeferGuard,
             Atomic!GuardSatisfied, Proofs!GuardSatisfied,
             Atomic!GuardsAreSatisfied, Proofs!GuardsAreSatisfied,
             Atomic!TransitionForTrigger, Proofs!TransitionForTrigger,
             Atomic!CanMoveOn, Proofs!CanMoveOn, Atomic!MoveOn, Proofs!MoveOn,
             Atomic!FactOf, Proofs!FactOf, Atomic!StepStarted, Proofs!StepStarted,
             Atomic!StepFinished, Proofs!StepFinished,
             Atomic!TransitionApplied, Proofs!TransitionApplied,
             Atomic!Session, Proofs!Session, Atomic!OpenCalls, Proofs!OpenCalls,
             Atomic!ClaimCalls, Proofs!ClaimCalls,
             Atomic!CompleteCalls, Proofs!CompleteCalls,
             Atomic!MoveCalls, Proofs!MoveCalls, Atomic!GuardCalls, Proofs!GuardCalls,
             Atomic!ResultStatus, Proofs!ResultStatus,
             Atomic!StepStatus, Proofs!StepStatus, Atomic!Range, Proofs!Range

\* All of them at once: the constants satisfy the assumptions they need.
LEMMA AtomicInvariants ==
    Spec => [](/\ Proofs!JournalAgreesWithSession
               /\ Proofs!OutcomesSealedOnce
               /\ Proofs!EndingFollowsClaim
               /\ Proofs!StateAccountedFor
               /\ Proofs!ClosedOnceCompleted
               /\ Proofs!NoDeferralAfterApproval
               /\ Proofs!ClaimsWithinPolicy)
  BY SessionIsAtomic, SameSpec, StatesAssumption, StepsAssumption, TransitionsAssumption,
     LeaseTtlAssumption, NoLeaseAssumption, NoSessionAssumption,
     Proofs!JournalAlwaysAgrees,
     Proofs!OutcomesAreSealedOnce,
     Proofs!EndingsFollowClaims,
     Proofs!StateIsAccountedFor,
     Proofs!FinishedIsClosed,
     Proofs!ApprovalsAreFinal,
     Proofs!ClaimsStayWithinPolicy, PTL
     DEF ImplementsAtomicSession, GuardConditions, Proofs!GuardConditions, Lease, Proofs!Lease,
         Instance, Proofs!Instance, StepRecord, Proofs!StepRecord, Move, Proofs!Move,
         StepStatus, Proofs!StepStatus

(***************************************************************************)
(* Under any interleaving of callers, crashes and conflicts, the journal   *)
(* and the stored session tell the same story.                             *)
(***************************************************************************)
THEOREM StoredJournalAgrees == Spec => []JournalAgreesWithSession
<1>1. Proofs!JournalAgreesWithSession <=> JournalAgreesWithSession
  BY DEF JournalAgreesWithSession, Proofs!JournalAgreesWithSession,
         Atomic!JournalAgreesWithSession, Proofs!StartsAgree, Atomic!StartsAgree,
         Proofs!CompletionsAgree, Atomic!CompletionsAgree, Proofs!MovesAgree,
         Atomic!MovesAgree, Proofs!EndingAgrees, Atomic!EndingAgrees,
         Proofs!DecisionsAgree, Atomic!DecisionsAgree, Proofs!Numbers, Atomic!Numbers,
         Proofs!Session, Atomic!Session, Proofs!IsTerminal, Atomic!IsTerminal,
         Proofs!Range, Atomic!Range
<1>2. QED
  BY <1>1, AtomicInvariants, PTL

(***************************************************************************)
(* Two callers never both open the session, complete a step, make the same *)
(* move or finish the session.                                             *)
(***************************************************************************)
THEOREM StoredOutcomesAreSealedOnce == Spec => []OutcomesSealedOnce
<1>1. Proofs!OutcomesSealedOnce <=> OutcomesSealedOnce
  BY DEF OutcomesSealedOnce, Proofs!OutcomesSealedOnce, Atomic!OutcomesSealedOnce,
         Proofs!SameOutcome, Atomic!SameOutcome
<1>2. QED
  BY <1>1, AtomicInvariants, PTL

(***************************************************************************)
(* An ending is sealed after the claim of the attempt it names, also when  *)
(* the worker that reports it lost its lease long ago.                     *)
(***************************************************************************)
THEOREM StoredEndingsFollowClaims == Spec => []EndingFollowsClaim
<1>1. Proofs!EndingFollowsClaim <=> EndingFollowsClaim
  BY DEF EndingFollowsClaim, Proofs!EndingFollowsClaim, Atomic!EndingFollowsClaim,
         Proofs!StepStarted, Atomic!StepStarted, Proofs!FactOf, Atomic!FactOf
<1>2. QED
  BY <1>1, AtomicInvariants, PTL

(***************************************************************************)
(* The recorded moves account for the state the stored session is in.      *)
(***************************************************************************)
THEOREM StoredStateIsAccountedFor == Spec => []StateAccountedFor
<1>1. Proofs!StateAccountedFor <=> StateAccountedFor
  BY DEF StateAccountedFor, Proofs!StateAccountedFor, Atomic!StateAccountedFor
<1>2. QED
  BY <1>1, AtomicInvariants, PTL

(***************************************************************************)
(* Nothing is sealed after the ending, whoever was still working on it.    *)
(***************************************************************************)
THEOREM StoredFinishedIsClosed == Spec => []ClosedOnceCompleted
<1>1. Proofs!ClosedOnceCompleted <=> ClosedOnceCompleted
  BY DEF ClosedOnceCompleted, Proofs!ClosedOnceCompleted, Atomic!ClosedOnceCompleted
<1>2. QED
  BY <1>1, AtomicInvariants, PTL

(***************************************************************************)
(* When an approval and a deferral of a guard race, the deferral is sealed *)
(* first or not at all.                                                    *)
(***************************************************************************)
THEOREM StoredApprovalsAreFinal == Spec => []NoDeferralAfterApproval
<1>1. Proofs!NoDeferralAfterApproval <=> NoDeferralAfterApproval
  BY DEF NoDeferralAfterApproval, Proofs!NoDeferralAfterApproval,
         Atomic!NoDeferralAfterApproval
<1>2. QED
  BY <1>1, AtomicInvariants, PTL

(***************************************************************************)
(* No race of claims takes a step beyond its retry policy, or leaves it in *)
(* progress without a lease.                                               *)
(***************************************************************************)
THEOREM StoredClaimsWithinPolicy == Spec => []ClaimsWithinPolicy
<1>1. Proofs!ClaimsWithinPolicy <=> ClaimsWithinPolicy
  BY DEF ClaimsWithinPolicy, Proofs!ClaimsWithinPolicy, Atomic!ClaimsWithinPolicy
<1>2. QED
  BY <1>1, AtomicInvariants, PTL

-----------------------------------------------------------------------------
\* A commit that lands does not replace a claim whose lease still runs: the
\* claimant saw the lease at an instant that is not later than now.
LEMMA LandKeepsLeases ==
    ASSUME TypeOK, StagedWorkIsCurrent, NEW c \in Callers, Land(c), NEW s \in Steps
    PROVE  KeepsLiveLease(s)
<1> DEFINE i == store.instance
           j == store'.instance
           r == i.records[s]
<1> SUFFICES ASSUME i # NoSession, r.status = "InProgress", now < r.lease.expires
             PROVE  j.records[s] = r \/ j.records[s].status \in ResultStatus
  BY DEF KeepsLiveLease
<1>1. Accepts(call[c], i, at[c]) /\ j = After(call[c], i, at[c])
  BY LandEffect
<1>2. /\ i \in Instance /\ call[c] \in Calls /\ at[c] \in Nat /\ now \in Nat
      /\ at[c] <= now
  BY DEF TypeOK, StagedWorkIsCurrent, CallerIsCurrent
<1>3. r \in StepRecord
  BY <1>2 DEF Instance
<1>4. CASE call[c].kind = "Open"
  BY <1>1, <1>4 DEF Accepts
<1>5. CASE call[c] \in ClaimCalls /\ call[c].kind \in {"StartStep", "RunStep"}
  <2>1. call[c].step \in Steps /\ call[c].key \in Keys
    BY <1>5 DEF ClaimCalls
  <2>2. CanBeStartedAt(i.records[call[c].step], at[c])
    BY <1>1, <1>5 DEF Accepts, CanStartStep
  <2>3. j = StartStep(i, call[c].step, call[c].key, at[c])
    BY <1>1, <1>5 DEF After
  <2>4. s # call[c].step
    <3> SUFFICES ASSUME s = call[c].step PROVE FALSE
      OBVIOUS
    <3>1. r.lease # NoLease /\ at[c] >= r.lease.expires
      BY <2>2 DEF CanBeStartedAt
    <3>2. r.lease.expires \in Nat
      BY <1>3, <3>1 DEF StepRecord, Lease
    <3>3. QED
      BY <1>2, <3>1, <3>2
  <2>5. QED
    BY <1>2, <2>1, <2>3, <2>4, StartStepFields, SMTT(30)
<1>6. CASE \/ call[c] \in CompleteCalls /\ call[c].kind = "CompleteStep"
           \/ call[c] \in FinishCalls /\ call[c].kind = "FinishStep"
  <2>1. call[c].step \in Steps /\ call[c].status \in ResultStatus
    BY <1>6 DEF CompleteCalls, FinishCalls
  <2>2. j = ApplyStepResult(i, call[c].step, call[c].status)
    BY <1>1, <1>6 DEF After
  <2>3. CASE s = call[c].step
    <3>1. j.records[s] = WithResult(r, call[c].status)
      BY <1>2, <2>1, <2>2, <2>3, ApplyStepResultFields
    <3>2. QED
      BY <1>3, <2>1, <3>1, RecordFields
  <2>4. CASE s # call[c].step
    BY <1>2, <2>1, <2>2, <2>4, ApplyStepResultFields
  <2>5. QED
    BY <2>3, <2>4
<1>7. CASE call[c] \in MoveCalls /\ call[c].kind = "ApplyTransition"
  <2>1. call[c].trigger \in Triggers
    BY <1>7 DEF MoveCalls
  <2>2. CanMoveOn(i, call[c].trigger) /\ j = MoveOn(i, call[c].trigger)
    BY <1>1, <1>7 DEF Accepts, After
  <2>3. QED
    BY <1>2, <2>1, <2>2, MoveOnFields
<1>8. CASE call[c] \in GuardCalls /\ call[c].kind \in {"ApproveGuard", "DeferGuard"}
  <2>1. call[c].guard \in Guards
    BY <1>8 DEF GuardCalls
  <2>2. j = ApproveGuard(i, call[c].guard) \/ j = DeferGuard(i, call[c].guard)
    BY <1>1, <1>8 DEF After
  <2>3. QED
    BY <1>2, <2>1, <2>2, ApproveGuardFields, DeferGuardFields
<1>9. QED
  BY <1>2, <1>4, <1>5, <1>6, <1>7, <1>8, CallKinds

(***************************************************************************)
(* A live lease is never stolen: while the clock has not reached its end,  *)
(* only a result takes a claimed step out of the claim, although claimants *)
(* read the clock before they commit.                                      *)
(***************************************************************************)
THEOREM LiveLeasesAreNotStolen == Spec => LiveLeaseNotStolen
<1>1. TypeOK /\ StagedWorkIsCurrent /\ [Next]_vars
        => [\A s \in Steps : KeepsLiveLease(s)]_store
  <2> SUFFICES ASSUME TypeOK, StagedWorkIsCurrent, [Next]_vars, store' # store
               PROVE  \A s \in Steps : KeepsLiveLease(s)
    OBVIOUS
  <2>1. PICK c \in Callers : Commit(c) \/ CommitClaim(c) \/ CommitResult(c)
    BY DEF Next, vars, Tick, StartCeremony, Begin, LoadInstance, Refuse, Conflict,
           HandlerReturns, AppendContribution, Abandon
  <2>2. Land(c)
    BY <2>1 DEF Commit, CommitClaim, CommitResult
  <2>3. QED
    BY <2>2, LandKeepsLeases
<1>2. QED
  BY <1>1, SessionTypeCorrect, StagedWorkStaysCurrent, PTL DEF Spec, LiveLeaseNotStolen

-----------------------------------------------------------------------------
(***************************************************************************)
(* The transcript. It is written after the commit, so the invariant speaks *)
(* of the contributions that are still to be written: each is of a step    *)
(* the stored session has completed, not in the transcript yet, and no two *)
(* callers have the same one to write.                                     *)
(***************************************************************************)
CompletedStep(s) ==
    store.instance # NoSession /\ store.instance.records[s].status = "Completed"

ContributionsPending ==
    /\ \A c \in Callers : pc[c] = "appending" =>
         /\ CompletedStep(call[c].step)
         /\ \A p \in DOMAIN transcript : transcript[p] # call[c].step
    /\ \A c, d \in Callers :
         pc[c] = "appending" /\ pc[d] = "appending" /\ call[c].step = call[d].step => c = d

\* A commit that lands takes no completed step back.
LEMMA LandKeepsCompleted ==
    ASSUME TypeOK, StagedWorkIsCurrent, NEW c \in Callers, Land(c), NEW s \in Steps,
           CompletedStep(s)
    PROVE  CompletedStep(s)'
<1>1. /\ Accepts(call[c], store.instance, at[c])
      /\ store'.instance = After(call[c], store.instance, at[c])
  BY LandEffect
<1>2. store.instance \in Instance /\ call[c] \in Calls /\ at[c] \in Nat
  BY DEF TypeOK, CompletedStep
<1>3. call[c].kind # "Open"
  BY <1>1 DEF Accepts, CompletedStep
<1>4. Follows(store.instance, store'.instance)
  BY <1>1, <1>2, <1>3, CallFollows
<1>5. QED
  BY <1>4, NoSessionAssumption DEF Follows, CompletedStep

\* Nothing new to write, and no completed step taken back.
LEMMA TranscriptKeeps ==
    ASSUME TypeOK, TranscriptSound, ContributionsPending,
           \A s \in Steps : CompletedStep(s) => CompletedStep(s)',
           transcript' = transcript, TypeOK',
           \A c \in Callers : pc'[c] = "appending" => pc[c] = "appending" /\ call'[c] = call[c],
           \A c \in Callers : pc[c] = "appending" => call[c].kind = "FinishStep"
    PROVE  TranscriptSound' /\ ContributionsPending'
<1>1. \A p \in DOMAIN transcript : transcript[p] \in Steps
  BY DEF TypeOK
<1>2. ASSUME NEW c \in Callers, pc[c] = "appending" PROVE call[c].step \in Steps
  <2>1. call[c] \in FinishCalls
    BY <1>2, CallKinds DEF TypeOK
  <2>2. QED
    BY <2>1 DEF FinishCalls
<1>3. TranscriptSound'
  <2>1. \A p \in DOMAIN transcript : CompletedStep(transcript[p])
    BY DEF TranscriptSound, CompletedStep
  <2>2. \A p \in DOMAIN transcript : CompletedStep(transcript[p])'
    BY <1>1, <2>1
  <2>3. QED
    BY <2>2 DEF TranscriptSound, CompletedStep
<1>4. ContributionsPending'
  BY <1>2 DEF ContributionsPending
<1>5. QED
  BY <1>3, <1>4

\* A successful result that lands is of a step that was in progress.
LEMMA ResultPends ==
    ASSUME TypeOK, StagedWorkIsCurrent, TranscriptSound, ContributionsPending, TypeOK',
           NEW c \in Callers, CommitResult(c)
    PROVE  TranscriptSound' /\ ContributionsPending'
<1> DEFINE step == call[c].step
<1>1. Land(c) /\ call[c].kind = "FinishStep" /\ call[c].status = "Completed"
  BY DEF CommitResult
<1>2. /\ Accepts(call[c], store.instance, at[c])
      /\ store'.instance = After(call[c], store.instance, at[c])
  BY <1>1, LandEffect
<1>3. call[c] \in FinishCalls
  BY <1>1, CallKinds DEF TypeOK
<1>4. step \in Steps /\ "Completed" \in ResultStatus
  BY <1>3 DEF FinishCalls, ResultStatus, StepStatus
<1>5. store.instance \in Instance /\ CanApplyStepResult(store.instance, step)
  BY <1>1, <1>2 DEF Accepts, TypeOK
<1>6. store'.instance = ApplyStepResult(store.instance, step, "Completed")
  BY <1>1, <1>2 DEF After
<1>7. /\ Follows(store.instance, store'.instance)
      /\ store'.instance.records[step].status = "Completed"
  BY <1>4, <1>5, <1>6, ResultFollows
<1>8. CompletedStep(step)' /\ ~CompletedStep(step)
  <2>1. store'.instance.records[call[c].step].status = "Completed"
    BY <1>7
  <2>2. call'[c] = call[c]
    BY DEF CommitResult
  <2>3. store'.instance # NoSession
    BY <1>7, NoSessionAssumption DEF Follows
  <2>4. QED
    BY <1>5, <2>1, <2>2, <2>3 DEF CompletedStep, CanApplyStepResult
<1>9. \A s \in Steps : CompletedStep(s) => CompletedStep(s)'
  BY <1>1, LandKeepsCompleted
<1>10. /\ transcript' = transcript /\ call' = call /\ pc'[c] = "appending"
       /\ \A d \in Callers \ {c} : pc'[d] = pc[d]
  BY <1>1 DEF CommitResult, Land, TypeOK
<1>11. \A p \in DOMAIN transcript :
         transcript[p] \in Steps /\ CompletedStep(transcript[p])
  BY DEF TypeOK, TranscriptSound, CompletedStep
<1>12. TranscriptSound'
  <2>1. \A p \in DOMAIN transcript : CompletedStep(transcript[p])'
    BY <1>9, <1>10, <1>11
  <2>2. QED
    BY <1>10, <2>1 DEF TranscriptSound, CompletedStep
<1>13. ASSUME NEW d \in Callers, pc[d] = "appending"
       PROVE  /\ call[d].step \in Steps /\ CompletedStep(call[d].step)
              /\ \A p \in DOMAIN transcript : transcript[p] # call[d].step
  <2>1. call[d].kind = "FinishStep"
    BY <1>13 DEF StagedWorkIsCurrent, CallerIsCurrent
  <2>2. call[d] \in FinishCalls
    BY <2>1, CallKinds DEF TypeOK
  <2>3. call[d].step \in Steps
    BY <2>2 DEF FinishCalls
  <2>4. QED
    BY <1>13, <2>3 DEF ContributionsPending
<1>14. ASSUME NEW d \in Callers, pc'[d] = "appending"
       PROVE  /\ CompletedStep(call[d].step)'
              /\ \A p \in DOMAIN transcript : transcript[p] # call[d].step
  <2>1. CASE d = c
    BY <1>8, <1>10, <1>11, <2>1
  <2>2. CASE d # c
    BY <1>9, <1>10, <1>13, <1>14, <2>2
  <2>3. QED
    BY <2>1, <2>2
<1>15. ASSUME NEW d \in Callers \ {c}, pc[d] = "appending" PROVE call[d].step # step
  BY <1>8, <1>13, <1>15
<1>16. ContributionsPending'
  BY <1>10, <1>14, <1>15 DEF ContributionsPending
<1>17. QED
  BY <1>12, <1>16

\* Writing a contribution: nobody else has the same one to write.
LEMMA ContributionWritten ==
    ASSUME TypeOK, StagedWorkIsCurrent, TranscriptSound, ContributionsPending,
           NEW c \in Callers, AppendContribution(c)
    PROVE  TranscriptSound' /\ ContributionsPending'
<1> DEFINE step == call[c].step
           n == Len(transcript)
<1>1. /\ pc[c] = "appending" /\ store' = store /\ transcript' = Append(transcript, step)
      /\ pc'[c] = "idle"
      /\ \A d \in Callers \ {c} : pc'[d] = pc[d] /\ call'[d] = call[d]
  BY ReturnEffect DEF AppendContribution
<1>2. call[c] \in FinishCalls
  BY <1>1, CallKinds DEF TypeOK, StagedWorkIsCurrent, CallerIsCurrent
<1>3. step \in Steps /\ transcript \in Seq(Steps)
  BY <1>2 DEF FinishCalls, TypeOK
<1>4. /\ CompletedStep(step)
      /\ \A p \in DOMAIN transcript : transcript[p] # step
      /\ \A d \in Callers \ {c} : pc[d] = "appending" => call[d].step # step
  BY <1>1 DEF ContributionsPending
<1> HIDE DEF step
<1>5. /\ n \in Nat /\ DOMAIN transcript = 1..n /\ DOMAIN transcript' = 1..(n + 1)
      /\ transcript'[n + 1] = step
      /\ \A p \in 1..n : transcript'[p] = transcript[p]
  BY <1>1, <1>3
<1> HIDE DEF n
<1>6. \A p \in 1..(n + 1) : p \in 1..n \/ p = n + 1
  BY <1>5
<1>7. TranscriptSound'
  <2>1. \A p \in 1..(n + 1) :
          /\ store.instance # NoSession
          /\ store.instance.records[transcript'[p]].status = "Completed"
    BY <1>4, <1>5, <1>6 DEF TranscriptSound, CompletedStep
  <2>2. ASSUME NEW p \in 1..(n + 1), NEW q \in 1..(n + 1), transcript'[p] = transcript'[q]
        PROVE  p = q
    BY <1>4, <1>5, <1>6, <2>2 DEF TranscriptSound
  <2>3. QED
    BY <1>1, <1>5, <2>1, <2>2 DEF TranscriptSound
<1>8. ContributionsPending'
  <2>1. ASSUME NEW d \in Callers, pc'[d] = "appending"
        PROVE  /\ d # c /\ pc[d] = "appending" /\ call'[d] = call[d]
               /\ CompletedStep(call[d].step)
               /\ \A p \in 1..(n + 1) : transcript'[p] # call[d].step
    BY <1>1, <1>4, <1>5, <1>6, <2>1 DEF ContributionsPending
  <2>2. ASSUME NEW d \in Callers, pc'[d] = "appending" PROVE CompletedStep(call[d].step)'
    BY <1>1, <2>1, <2>2 DEF CompletedStep
  <2>3. QED
    BY <1>5, <2>1, <2>2 DEF ContributionsPending
<1>9. QED
  BY <1>7, <1>8

\* Every step keeps the transcript sound.
LEMMA TranscriptStep ==
    ASSUME TypeOK, StagedWorkIsCurrent, TranscriptSound, ContributionsPending, TypeOK',
           [Next]_vars
    PROVE  TranscriptSound' /\ ContributionsPending'
<1>1. \A c \in Callers : pc[c] = "appending" => call[c].kind = "FinishStep"
  BY DEF StagedWorkIsCurrent, CallerIsCurrent
<1>2. ASSUME store' = store PROVE \A s \in Steps : CompletedStep(s) => CompletedStep(s)'
  BY <1>2 DEF CompletedStep
<1>3. CASE Tick \/ UNCHANGED vars
  <2>1. store' = store /\ transcript' = transcript /\ pc' = pc /\ call' = call
    BY <1>3 DEF Tick, vars, local
  <2>2. QED
    BY <1>1, <1>2, <2>1, TranscriptKeeps
<1>4. ASSUME NEW c \in Callers, \/ \E approved \in Contexts : StartCeremony(c, approved)
                                \/ \E request \in Offered : Begin(c, request)
                                \/ LoadInstance(c)
                                \/ \E status \in ResultStatus : HandlerReturns(c, status)
      PROVE  TranscriptSound' /\ ContributionsPending'
  <2>1. /\ store' = store /\ transcript' = transcript /\ pc'[c] # "appending"
        /\ \A d \in Callers \ {c} : pc'[d] = pc[d] /\ call'[d] = call[d]
    BY <1>4 DEF StartCeremony, Begin, LoadInstance, HandlerReturns, LoadRevision, TypeOK
  <2>2. QED
    BY <1>1, <1>2, <2>1, TranscriptKeeps
<1>5. ASSUME NEW c \in Callers, Refuse(c) \/ Conflict(c) \/ Abandon(c)
      PROVE  TranscriptSound' /\ ContributionsPending'
  <2>1. /\ store' = store /\ transcript' = transcript /\ pc'[c] # "appending"
        /\ \A d \in Callers \ {c} : pc'[d] = pc[d] /\ call'[d] = call[d]
    BY <1>5, ReturnEffect DEF Refuse, Conflict, Abandon
  <2>2. QED
    BY <1>1, <1>2, <2>1, TranscriptKeeps
<1>6. ASSUME NEW c \in Callers, Commit(c) \/ CommitClaim(c)
      PROVE  TranscriptSound' /\ ContributionsPending'
  <2>1. Land(c) /\ transcript' = transcript
    BY <1>6 DEF Commit, CommitClaim, Land
  <2>2. /\ pc'[c] # "appending"
        /\ \A d \in Callers \ {c} : pc'[d] = pc[d] /\ call'[d] = call[d]
    BY <1>6, ReturnEffect DEF Commit, CommitClaim, TypeOK
  <2>3. \A s \in Steps : CompletedStep(s) => CompletedStep(s)'
    BY <2>1, LandKeepsCompleted
  <2>4. QED
    BY <1>1, <2>1, <2>2, <2>3, TranscriptKeeps
<1>7. QED
  BY <1>3, <1>4, <1>5, <1>6, ResultPends, ContributionWritten DEF Next

(***************************************************************************)
(* The transcript holds a contribution of a step at most once and only of  *)
(* steps the stored session has completed, whoever crashes between commit  *)
(* and contribution and however late a replaced attempt reports.           *)
(***************************************************************************)
THEOREM TranscriptStaysSound == Spec => []TranscriptSound
<1>1. Init => TranscriptSound /\ ContributionsPending
  BY DEF Init, TranscriptSound, ContributionsPending
<1>2. QED
  BY <1>1, TranscriptStep, SessionTypeCorrect, StagedWorkStaysCurrent, PTL DEF Spec

(***************************************************************************)
(* Under any interleaving of callers, crashes and conflicts, no commit     *)
(* takes back a move, a completed step, an attempt, a spent key or an      *)
(* approval, none is made on a finished session, and none goes untold.     *)
(***************************************************************************)
THEOREM StoredNothingIsTakenBack == Spec => [][Atomic!NothingTakenBack]_<<store.instance, store.journal>>
<1>1. Proofs!NothingTakenBack <=> Atomic!NothingTakenBack
  BY DEF Atomic!NothingTakenBack, Proofs!NothingTakenBack, Atomic!Follows, Proofs!Follows,
         Atomic!Sealed, Proofs!Sealed, Atomic!IsTerminal, Proofs!IsTerminal,
         Atomic!Instance, Proofs!Instance, Atomic!StepRecord, Proofs!StepRecord,
         Atomic!StepStatus, Proofs!StepStatus, Atomic!Lease, Proofs!Lease,
         Atomic!Move, Proofs!Move
<1>2. Spec => [][Proofs!NothingTakenBack]_<<store.instance, store.journal>>
  BY SessionIsAtomic, SameSpec, StatesAssumption, StepsAssumption, TransitionsAssumption,
     LeaseTtlAssumption, NoLeaseAssumption, NoSessionAssumption, Proofs!NothingIsTakenBack, PTL
     DEF ImplementsAtomicSession, GuardConditions, Proofs!GuardConditions, Lease, Proofs!Lease,
         Instance, Proofs!Instance, StepRecord, Proofs!StepRecord, Move, Proofs!Move,
         StepStatus, Proofs!StepStatus
<1>3. QED
  BY <1>1, <1>2, PTL
=============================================================================
