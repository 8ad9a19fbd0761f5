------------------------- MODULE RunCeremony_proofs -------------------------
(***************************************************************************)
(* What a run of a whole ceremony reports is true of the session, for any  *)
(* definition, any number of drivers and any clients. The argument: only   *)
(* the driver that opened the session works on it, and whenever it commits *)
(* on the session it carries, that session is the stored one. What is      *)
(* stored changes only by steps that never leave a terminal state, never   *)
(* take a completed step back and never forget a move; so what the driver  *)
(* once knew of the session stays true, whatever clients do to it. Drivers *)
(* and clients write to one transcript after their commits: a step has one *)
(* successful report, so at any time at most one of them owes it.          *)
(***************************************************************************)
EXTENDS RunCeremony, FiniteSetTheorems, WellFoundedInduction, TLAPS

-----------------------------------------------------------------------------
\* What is proved of the atomic session and of the aggregate, about the
\* driven session.
Proofs == INSTANCE AtomicSession_proofs
            WITH instance <- store.instance, journal <- store.journal

\* The aggregate of those proofs is this one: its values,
LEMMA SameValues ==
    /\ Proofs!GuardConditions = GuardConditions
    /\ Proofs!ResultStatus = ResultStatus
    /\ Proofs!Lease = Lease
    /\ Proofs!StepRecord = StepRecord
    /\ Proofs!Instance = Instance
  BY DEF GuardConditions, Proofs!GuardConditions, StepStatus, Proofs!StepStatus,
         ResultStatus, Proofs!ResultStatus, Lease, Proofs!Lease, StepRecord,
         Proofs!StepRecord, Move, Proofs!Move, Instance, Proofs!Instance

\* the calls and the facts they seal,
LEMMA SameCalls == Proofs!Calls = Calls /\ Proofs!Fact = Fact
  BY DEF Calls, Proofs!Calls, OpenCalls, Proofs!OpenCalls, ClientCalls, Proofs!ClientCalls,
         ClaimCalls, Proofs!ClaimCalls, CompleteCalls, Proofs!CompleteCalls, FinishCalls,
         Proofs!FinishCalls, MoveCalls, Proofs!MoveCalls, GuardCalls, Proofs!GuardCalls,
         ResultStatus, Proofs!ResultStatus, StepStatus, Proofs!StepStatus, Fact,
         Proofs!Fact, StepFacts, Proofs!StepFacts, GuardFacts, Proofs!GuardFacts,
         SessionFacts, Proofs!SessionFacts, Session, Proofs!Session

\* the start of a step,
LEMMA SameStart ==
    /\ \A r, key, t : Proofs!WithStarted(r, key, t) = WithStarted(r, key, t)
    /\ \A i, step, key, t : Proofs!StartStep(i, step, key, t) = StartStep(i, step, key, t)
    /\ \A i, step, key, t : Proofs!CanStartStep(i, step, key, t) <=> CanStartStep(i, step, key, t)
  BY DEF NextAttemptForStart, Proofs!NextAttemptForStart, WithStarted, Proofs!WithStarted,
         StartStep, Proofs!StartStep, CanStartStep, Proofs!CanStartStep, IsTerminal,
         Proofs!IsTerminal, CanBeStartedAt, Proofs!CanBeStartedAt, AllowsAttempt,
         Proofs!AllowsAttempt

\* the result of a step,
LEMMA SameResult ==
    /\ \A i, step, status :
         Proofs!ApplyStepResult(i, step, status) = ApplyStepResult(i, step, status)
    /\ \A i, step : Proofs!CanApplyStepResult(i, step) <=> CanApplyStepResult(i, step)
  BY DEF WithResult, Proofs!WithResult, ApplyStepResult, Proofs!ApplyStepResult,
         CanApplyStepResult, Proofs!CanApplyStepResult

\* the transitions,
LEMMA SameMove ==
    /\ \A state, trigger :
         Proofs!TransitionForTrigger(state, trigger) = TransitionForTrigger(state, trigger)
    /\ \A i, trigger : Proofs!MoveOn(i, trigger) = MoveOn(i, trigger)
    /\ \A i, trigger : Proofs!CanMoveOn(i, trigger) <=> CanMoveOn(i, trigger)
  BY DEF TransitionForTrigger, Proofs!TransitionForTrigger, MoveOn, Proofs!MoveOn,
         CanMoveOn, Proofs!CanMoveOn, IsTerminal, Proofs!IsTerminal, GuardsAreSatisfied,
         Proofs!GuardsAreSatisfied, GuardSatisfied, Proofs!GuardSatisfied

\* what a call does and seals,
LEMMA SameWork ==
    /\ \A request, i, t : Proofs!Accepts(request, i, t) <=> Accepts(request, i, t)
    /\ \A request, i, t : Proofs!After(request, i, t) = After(request, i, t)
    /\ \A request, i : Proofs!FactsOf(request, i) = FactsOf(request, i)
  BY DEF Accepts, Proofs!Accepts, CanStartStep, Proofs!CanStartStep, IsTerminal,
         Proofs!IsTerminal, CanBeStartedAt, Proofs!CanBeStartedAt, AllowsAttempt,
         Proofs!AllowsAttempt, NextAttemptForStart, Proofs!NextAttemptForStart,
         CanApplyStepResult, Proofs!CanApplyStepResult, CanMoveOn, Proofs!CanMoveOn,
         GuardsAreSatisfied, Proofs!GuardsAreSatisfied, GuardSatisfied,
         Proofs!GuardSatisfied, TransitionForTrigger, Proofs!TransitionForTrigger,
         CanApproveGuard, Proofs!CanApproveGuard, CanDeferGuard, Proofs!CanDeferGuard,
         IsHumanGuard, Proofs!IsHumanGuard, After, Proofs!After, Opened, Proofs!Opened,
         StartStep, Proofs!StartStep, WithStarted, Proofs!WithStarted, ApplyStepResult,
         Proofs!ApplyStepResult, WithResult, Proofs!WithResult, MoveOn, Proofs!MoveOn,
         ApproveGuard, Proofs!ApproveGuard, DeferGuard, Proofs!DeferGuard, FactsOf,
         Proofs!FactsOf, FactOf, Proofs!FactOf, Session, Proofs!Session, StepStarted,
         Proofs!StepStarted, StepFinished, Proofs!StepFinished, TransitionApplied,
         Proofs!TransitionApplied

\* and what no commit takes back.
LEMMA SameFollows == \A i, j : Proofs!Follows(i, j) = Follows(i, j)
<1>1. \A i : Proofs!Sealed(i) = Sealed(i) /\ Proofs!IsTerminal(i) = IsTerminal(i)
  BY DEF Sealed, Proofs!Sealed, IsTerminal, Proofs!IsTerminal
<1>2. QED
  BY <1>1, SameValues DEF Follows, Proofs!Follows

\* A new session is well formed: CeremonyInstance::open.
LEMMA OpenedType == \A approved \in SUBSET Guards : Opened(approved) \in Instance
  BY StatesAssumption DEF Opened, Instance, StepRecord, StepStatus

\* start_step refuses a completed step, and changes neither state nor moves.
LEMMA StartFollows ==
    ASSUME NEW i \in Instance, NEW step \in Steps, NEW key \in Keys, NEW t \in Nat,
           CanStartStep(i, step, key, t), NEW j, j = StartStep(i, step, key, t)
    PROVE  Follows(i, j)
<1> USE StatesAssumption, StepsAssumption, TransitionsAssumption, LeaseTtlAssumption,
        NoLeaseAssumption, NoSessionAssumption
<1>1. /\ j = Proofs!StartStep(i, step, key, t) /\ i \in Proofs!Instance
      /\ Proofs!CanStartStep(i, step, key, t)
  BY SameValues, SameStart
<1>2. Proofs!Follows(i, j)
  BY <1>1, SameValues, Proofs!StartFollows
<1>3. QED
  BY <1>2, SameFollows

\* apply_step_result wants the step in progress, in the state it belongs to.
LEMMA ResultFollows ==
    ASSUME NEW i \in Instance, NEW step \in Steps, NEW status \in ResultStatus,
           CanApplyStepResult(i, step), NEW j, j = ApplyStepResult(i, step, status)
    PROVE  Follows(i, j) /\ j.records[step].status = status
<1> USE StatesAssumption, StepsAssumption, TransitionsAssumption, LeaseTtlAssumption,
        NoLeaseAssumption, NoSessionAssumption
<1>1. /\ j = Proofs!ApplyStepResult(i, step, status) /\ i \in Proofs!Instance
      /\ Proofs!CanApplyStepResult(i, step) /\ status \in Proofs!ResultStatus
  BY SameValues, SameResult
<1>2. Proofs!Follows(i, j) /\ j.records[step].status = status
  BY <1>1, SameValues, Proofs!ResultFollows
<1>3. QED
  BY <1>2, SameFollows

\* move_on adds one move and completes the session exactly at a terminal state.
LEMMA MoveFollows ==
    ASSUME NEW i \in Instance, NEW trigger \in Triggers, CanMoveOn(i, trigger),
           NEW j, j = MoveOn(i, trigger)
    PROVE  Follows(i, j) /\ Len(j.moves) = Len(i.moves) + 1
<1> USE StatesAssumption, StepsAssumption, TransitionsAssumption, LeaseTtlAssumption,
        NoLeaseAssumption, NoSessionAssumption
<1>1. /\ j = Proofs!MoveOn(i, trigger) /\ i \in Proofs!Instance
      /\ Proofs!CanMoveOn(i, trigger)
  BY SameValues, SameMove
<1>2. Proofs!Follows(i, j) /\ Len(j.moves) = Len(i.moves) + 1
  BY <1>1, SameValues, Proofs!MoveFollows
<1>3. QED
  BY <1>2, SameFollows

\* An accepted call returns a session and seals well-formed facts.
LEMMA AfterType ==
    ASSUME NEW request \in Calls, NEW i \in Instance \cup {NoSession}, NEW t \in Nat,
           Accepts(request, i, t), NEW j, j = After(request, i, t)
    PROVE  j \in Instance /\ FactsOf(request, j) \in Seq(Fact)
<1> USE StatesAssumption, StepsAssumption, TransitionsAssumption, LeaseTtlAssumption,
        NoLeaseAssumption, NoSessionAssumption
<1>1. /\ j = Proofs!After(request, i, t) /\ i \in Proofs!Instance \cup {NoSession}
      /\ Proofs!Accepts(request, i, t) /\ request \in Proofs!Calls
      /\ Proofs!FactsOf(request, j) = FactsOf(request, j)
  BY SameValues, SameCalls, SameWork
<1>2. QED
  BY <1>1, SameValues, SameCalls, Proofs!AfterType

\* Every session use case keeps to that.
LEMMA CallFollows ==
    ASSUME NEW request \in Calls, request.kind # "Open", NEW i \in Instance, NEW t \in Nat,
           Accepts(request, i, t), NEW j, j = After(request, i, t)
    PROVE  Follows(i, j)
<1> USE StatesAssumption, StepsAssumption, TransitionsAssumption, LeaseTtlAssumption,
        NoLeaseAssumption, NoSessionAssumption
<1>1. /\ j = Proofs!After(request, i, t) /\ i \in Proofs!Instance
      /\ Proofs!Accepts(request, i, t) /\ request \in Proofs!Calls
  BY SameValues, SameCalls, SameWork
<1>2. Proofs!Follows(i, j)
  BY <1>1, SameValues, Proofs!CallFollows
<1>3. QED
  BY <1>2, SameFollows

-----------------------------------------------------------------------------
\* The inductive invariant.

Outcomes ==
    {"running", "AlreadyExists", "Failed", "StepFailed", "NoTransition", "IterationLimit",
     "Completed"}

Entry == [step: Steps, attempt: Nat \ {0}, status: ResultStatus]

Traces == Seq(Entry)

\* A driver between the opening of the session and the end of its run.
Working == {"stepping", "running", "reporting", "recording"}

\* A driver with a step of its own in hand.
InStep == {"running", "reporting", "recording"}

Held ==
    [pc: {"checking", "opening", "ended"} \cup Working, outcome: Outcomes,
     revision: Nat, session: Instance \cup {NoSession}, round: Nat, state: States,
     todo: SUBSET DOMAIN StepOrder, attempt: Nat, status: StepStatus, heard: Seq(Steps), trace: Traces]

\* The store: a session from the first commit on.
StoreOK(st) ==
    /\ st \in [revision: Nat, instance: Instance \cup {NoSession}, journal: Seq(Fact)]
    /\ st.revision = 0 <=> st.instance = NoSession
    /\ st.instance # NoSession => Sealed(st.instance)

\* Where a driver is, and what it can know of the store from that.
Placed(r, st) ==
    /\ r.revision <= st.revision
    /\ r.pc \in {"checking", "opening"} => r.revision = 0
    /\ r.pc \in Working => r.revision # 0
    /\ r.pc # "ended" => r.outcome = "running"
    /\ r.revision = 0 => r.trace = <<>> /\ r.outcome \notin {"Completed", "IterationLimit"}

\* The session in hand is an earlier one or the stored one, never another.
InHand(r, st) ==
    r.revision # 0 =>
      /\ r.session \in Instance
      /\ Len(r.session.moves) <= Len(st.instance.moves)
      /\ r.revision = st.revision => r.session = st.instance

\* Every round but the first was entered by a move.
RoundsMoved(r, st) ==
    /\ r.pc \in Working => r.round <= Len(r.session.moves) + 1
    /\ r.outcome = "IterationLimit" => Len(st.instance.moves) > Cardinality(States)

\* A run that reported success did so on the stored session.
EndedOnStored(r, st) ==
    r.outcome = "Completed" => r.session = st.instance /\ IsTerminal(r.session)

FactOfTrace(e) == StepFinished(e.step, e.attempt, e.status)

\* The claim a driver works on, what it is about to trace and what it traced
\* are in the journal.
TracedSealed(r, st) ==
    /\ r.pc \in {"running", "reporting"} =>
         StepStarted(StepAt(r.todo), r.attempt) \in Range(st.journal)
    /\ \A p \in DOMAIN r.trace : FactOfTrace(r.trace[p]) \in Range(st.journal)
    /\ r.pc = "recording" =>
         StepFinished(StepAt(r.todo), r.attempt, r.status) \in Range(st.journal)

\* The step in hand: claimed under an attempt, answered with a result.
StepInHand(r, st) ==
    /\ r.pc \in InStep => r.todo # {} /\ r.attempt # 0
    /\ r.pc \in {"reporting", "recording"} => r.status \in ResultStatus
    /\ r.pc = "recording" =>
         /\ r.status = "Completed" => st.instance.records[StepAt(r.todo)].status = "Completed"
         /\ \A p \in DOMAIN r.trace : r.trace[p].step # StepAt(r.todo)

\* No step is named twice.
Distinct(tr) == \A m, n \in DOMAIN tr : tr[m] = tr[n] => m = n

\* All that was run is named, in the order it was run.
Carries(tr, trace) ==
    /\ \A p \in DOMAIN trace : \E m \in DOMAIN tr : tr[m] = trace[p].step
    /\ \A p, q \in DOMAIN trace, m, n \in DOMAIN tr :
         p < q /\ tr[m] = trace[p].step /\ tr[n] = trace[q].step => m < n

\* Only steps the session has completed are named.
AllCompleted(tr, st) ==
    \A m \in DOMAIN tr : /\ st.instance # NoSession
                         /\ st.instance.records[tr[m]].status = "Completed"

\* Different steps, all completed, and in the transcript in that order.
TraceSound(trace, st, tr) ==
    /\ Carries(tr, trace)
    /\ \A p \in DOMAIN trace :
         /\ trace[p].status = "Completed"
         /\ st.instance.records[trace[p].step].status = "Completed"
    /\ \A p, q \in DOMAIN trace : trace[p].step = trace[q].step => p = q

\* While a driver works, its trace is sound, and its handler was given it.
TraceCompleted(r, st, tr) ==
    r.pc \in Working =>
      /\ TraceSound(r.trace, st, tr)
      /\ r.pc = "running" =>
           Distinct(r.heard) /\ Carries(r.heard, r.trace) /\ AllCompleted(r.heard, st)

DriverOK(r, st, tr) ==
    /\ r \in Held
    /\ Placed(r, st)
    /\ InHand(r, st)
    /\ RoundsMoved(r, st)
    /\ EndedOnStored(r, st)
    /\ TracedSealed(r, st)
    /\ StepInHand(r, st)
    /\ TraceCompleted(r, st, tr)

\* One driver opened the session; the others never get past opening.
OneOpener == \A c, d \in Drivers : run[c].revision # 0 /\ run[d].revision # 0 => c = d

Worker == [pc: {"running", "appending"}, step: Steps, key: Keys, attempt: Nat \ {0}]

\* A client at work claimed its step; once it reported a success the step is
\* completed, not in the transcript yet, and nobody else is to append it.
WorkersOK(ws, st, tr) ==
    /\ ws \subseteq Worker
    /\ ws # {} => st.instance # NoSession
    /\ \A w \in ws : StepStarted(w.step, w.attempt) \in Range(st.journal)
    /\ \A w \in ws : w.pc = "appending" =>
         /\ st.instance.records[w.step].status = "Completed"
         /\ \A m \in DOMAIN tr : tr[m] # w.step
         /\ \A v \in ws : v.pc = "appending" /\ v.step = w.step => v = w

\* A driver that is about to append has the step to itself as well.
Owes(r) == r.pc = "recording" /\ r.status = "Completed"

RecorderOK(r, tr, ws) ==
    Owes(r) =>
      /\ \A m \in DOMAIN tr : tr[m] # StepAt(r.todo)
      /\ \A w \in ws : w.pc = "appending" => w.step # StepAt(r.todo)

TranscriptOK(tr, st) == tr \in Seq(Steps) /\ Distinct(tr) /\ AllCompleted(tr, st)

IInv ==
    /\ StoreOK(store)
    /\ now \in Nat
    /\ TranscriptOK(transcript, store)
    /\ WorkersOK(workers, store, transcript)
    /\ \A c \in Drivers : RecorderOK(run[c], transcript, workers)
    /\ run \in [Drivers -> Held]
    /\ \A c \in Drivers : DriverOK(run[c], store, transcript)
    /\ OneOpener

-----------------------------------------------------------------------------
\* What a commit leaves as it was.

\* The step to look at next is the first of those left, and a declared one.
LEMMA StepIsDeclared ==
    ASSUME NEW todo \in SUBSET DOMAIN StepOrder, todo # {}
    PROVE  FirstOf(todo) \in todo /\ StepAt(todo) \in Steps
<1>1. todo \subseteq Nat
  BY OrderAssumption
<1>2. IsWellFoundedOn(OpToRel(<, Nat), Nat)
  BY NatLessThanWellFounded
<1>3. PICK p \in todo : \A q \in todo : ~(<<q, p>> \in OpToRel(<, Nat))
  BY <1>1, <1>2, WFMin, Zenon
<1>4. \A q \in todo : p <= q
  <2>1. \A q \in todo : ~(q < p)
    BY <1>1, <1>3 DEF OpToRel
  <2>2. QED
    BY <1>1, <2>1
<1>5. FirstOf(todo) \in todo
  BY <1>4 DEF FirstOf
<1>6. QED
  BY <1>5, OrderAssumption DEF StepAt

\* Sealing facts removes none from the journal, and adds the ones sealed.
LEMMA JournalGrows ==
    ASSUME NEW j \in Seq(Fact), NEW facts \in Seq(Fact)
    PROVE  /\ j \o facts \in Seq(Fact)
           /\ Range(j) \subseteq Range(j \o facts)
           /\ Range(facts) \subseteq Range(j \o facts)
<1> DEFINE k == j \o facts
<1>1. /\ k \in Seq(Fact) /\ Len(j) \in Nat /\ Len(facts) \in Nat
      /\ Len(k) = Len(j) + Len(facts)
      /\ DOMAIN j = 1..Len(j) /\ DOMAIN facts = 1..Len(facts) /\ DOMAIN k = 1..Len(k)
  OBVIOUS
<1>2. /\ \A n \in 1..Len(j) : k[n] = j[n]
      /\ \A n \in 1..Len(facts) : k[Len(j) + n] = facts[n]
  OBVIOUS
<1> HIDE DEF k
<1>3. ASSUME NEW n \in DOMAIN j PROVE j[n] \in Range(k)
  <2>1. n \in 1..Len(j) /\ n \in DOMAIN k
    BY <1>1
  <2>2. QED
    BY <1>2, <2>1 DEF Range
<1>4. ASSUME NEW n \in DOMAIN facts PROVE facts[n] \in Range(k)
  <2>1. n \in 1..Len(facts) /\ Len(j) + n \in DOMAIN k
    BY <1>1
  <2>2. QED
    BY <1>2, <2>1 DEF Range
<1>5. QED
  BY <1>1, <1>3, <1>4 DEF Range, k

\* The store after a commit.
Committed(st, next, facts) ==
    [revision |-> st.revision + 1, instance |-> next, journal |-> st.journal \o facts]

\* What is known of the store after it.
Landed(st, st2, next, facts) ==
    /\ StoreOK(st2)
    /\ st2.revision = st.revision + 1 /\ st2.instance = next
    /\ st.revision \in Nat
    /\ Range(st.journal) \subseteq Range(st2.journal)
    /\ Range(facts) \subseteq Range(st2.journal)

\* A commit that follows the stored session keeps the store well formed.
LEMMA CommitKeepsStore ==
    ASSUME NEW st, StoreOK(st), NEW next, Follows(st.instance, next),
           NEW facts \in Seq(Fact)
    PROVE  Landed(st, Committed(st, next, facts), next, facts)
<1>1. st.revision \in Nat /\ st.journal \in Seq(Fact)
  BY DEF StoreOK
<1>2. next \in Instance /\ st.instance \in Instance
  BY DEF Follows
<1>3. next # NoSession /\ st.instance # NoSession
  BY <1>2, NoSessionAssumption
<1>4. Sealed(next)
  BY <1>3 DEF StoreOK, Follows
<1>5. /\ st.journal \o facts \in Seq(Fact)
      /\ Range(st.journal) \subseteq Range(st.journal \o facts)
      /\ Range(facts) \subseteq Range(st.journal \o facts)
  BY <1>1, JournalGrows
<1>6. QED
  BY <1>1, <1>2, <1>3, <1>4, <1>5 DEF StoreOK, Committed, Landed

\* What a transcript names stays completed when somebody commits.
LEMMA CommitKeepsCompleted ==
    ASSUME NEW st, NEW st2, Follows(st.instance, st2.instance),
           NEW tr \in Seq(Steps), AllCompleted(tr, st)
    PROVE  AllCompleted(tr, st2)
<1>1. st2.instance # NoSession
  BY NoSessionAssumption DEF Follows
<1>2. \A s \in Steps : st.instance.records[s].status = "Completed"
                         => st2.instance.records[s].status = "Completed"
  BY DEF Follows
<1>3. \A m \in DOMAIN tr : tr[m] \in Steps
  OBVIOUS
<1>4. QED
  BY <1>1, <1>2, <1>3 DEF AllCompleted

\* And so do the transcript and what clients still owe it.
LEMMA CommitKeepsShared ==
    ASSUME NEW st, NEW next, NEW facts, NEW st2, Landed(st, st2, next, facts),
           Follows(st.instance, next), NEW tr, TranscriptOK(tr, st), NEW ws, WorkersOK(ws, st, tr)
    PROVE  TranscriptOK(tr, st2) /\ WorkersOK(ws, st2, tr)
<1>1. /\ st2.instance = next /\ Range(st.journal) \subseteq Range(st2.journal)
      /\ next # NoSession
  BY NoSessionAssumption DEF Landed, Follows
<1>2. TranscriptOK(tr, st2)
  BY <1>1, CommitKeepsCompleted DEF TranscriptOK
<1>3. \A s \in Steps : st.instance.records[s].status = "Completed"
                         => next.records[s].status = "Completed"
  BY DEF Follows
<1>4. \A w \in ws : w.step \in Steps
  BY DEF WorkersOK, Worker
<1>5. WorkersOK(ws, st2, tr)
  BY <1>1, <1>3, <1>4 DEF WorkersOK
<1>6. QED
  BY <1>2, <1>5

\* What any driver knows of the session stays true when somebody commits.
LEMMA CommitKeepsDriver ==
    ASSUME NEW st, StoreOK(st), NEW next, Follows(st.instance, next),
           NEW facts \in Seq(Fact), NEW st2, st2 = Committed(st, next, facts),
           NEW r, NEW tr, DriverOK(r, st, tr)
    PROVE  DriverOK(r, st2, tr)
<1>1. /\ StoreOK(st2)
      /\ st2.revision = st.revision + 1 /\ st2.instance = next
      /\ st.revision \in Nat
      /\ Range(st.journal) \subseteq Range(st2.journal)
      /\ Range(facts) \subseteq Range(st2.journal)
  <2>1. Landed(st, Committed(st, next, facts), next, facts)
    BY CommitKeepsStore
  <2>2. QED
    BY <2>1 DEF Landed
<1>2. /\ r \in Held /\ r.revision \in Nat /\ r.todo \in SUBSET DOMAIN StepOrder /\ r.trace \in Traces
  BY DEF DriverOK, Held
<1>3. \A p \in DOMAIN r.trace : r.trace[p].step \in Steps
  <2>1. \A p \in DOMAIN r.trace : r.trace[p] \in Entry
    BY <1>2 DEF Traces
  <2>2. QED
    BY <2>1 DEF Entry
<1>4. /\ ~IsTerminal(st.instance)
      /\ Len(st.instance.moves) \in Nat /\ Len(next.moves) \in Nat
      /\ Len(st.instance.moves) <= Len(next.moves)
      /\ \A s \in Steps : st.instance.records[s].status = "Completed"
                            => next.records[s].status = "Completed"
  BY DEF Follows, Instance
<1>5. Placed(r, st2)
  BY <1>1, <1>2 DEF DriverOK, Placed
<1>6. InHand(r, st2)
  <2>1. SUFFICES ASSUME r.revision # 0 PROVE InHand(r, st2)
    BY DEF InHand
  <2>2. r.session \in Instance /\ Len(r.session.moves) <= Len(st.instance.moves)
    BY <2>1 DEF DriverOK, InHand
  <2>3. Len(r.session.moves) \in Nat
    BY <2>2 DEF Instance
  <2>4. r.revision # st2.revision
    BY <1>1, <1>2 DEF DriverOK, Placed
  <2>5. QED
    BY <1>1, <1>4, <2>2, <2>3, <2>4 DEF InHand
<1>7. RoundsMoved(r, st2)
  <2>1. Cardinality(States) \in Nat
    BY OrderAssumption, FS_CardinalityType
  <2>2. QED
    BY <1>1, <1>4, <2>1 DEF DriverOK, RoundsMoved
<1>8. EndedOnStored(r, st2)
  BY <1>4 DEF DriverOK, EndedOnStored
<1>9. TracedSealed(r, st2)
  BY <1>1 DEF DriverOK, TracedSealed
<1>10. StepInHand(r, st2)
  <2>1. r.todo # {} => StepAt(r.todo) \in Steps
    BY <1>2, StepIsDeclared
  <2>2. QED
    BY <1>1, <1>4, <2>1 DEF DriverOK, StepInHand, InStep
<1>11. TraceCompleted(r, st2, tr)
  <2>1. SUFFICES ASSUME r.pc \in Working PROVE TraceCompleted(r, st2, tr)
    BY DEF TraceCompleted
  <2>2. TraceSound(r.trace, st2, tr)
    BY <1>1, <1>3, <1>4, <2>1 DEF DriverOK, TraceCompleted, TraceSound
  <2>3. ASSUME r.pc = "running" PROVE AllCompleted(r.heard, st2)
    <3>1. r.heard \in Seq(Steps) /\ AllCompleted(r.heard, st)
      BY <1>2, <2>1, <2>3 DEF DriverOK, TraceCompleted, Held
    <3>2. QED
      BY <1>1, <3>1, CommitKeepsCompleted
  <2>4. QED
    BY <2>1, <2>2, <2>3 DEF DriverOK, TraceCompleted
<1>12. QED
  BY <1>2, <1>5, <1>6, <1>7, <1>8, <1>9, <1>10, <1>11 DEF DriverOK

\* A driver that did not open the session knows nothing of it.
LEMMA BystanderKeeps ==
    ASSUME NEW st, NEW tr, NEW r, DriverOK(r, st, tr), r.revision = 0,
           NEW st2, st2.revision \in Nat, NEW tr2
    PROVE  DriverOK(r, st2, tr2)
<1>1. /\ r \in Held /\ r.trace = <<>>
      /\ r.pc \notin Working
      /\ r.outcome \notin {"Completed", "IterationLimit"}
  BY DEF DriverOK, Placed
<1>2. r.pc \notin InStep
  BY <1>1 DEF Working, InStep
<1>3. Placed(r, st2)
  BY DEF DriverOK, Placed
<1>4. TracedSealed(r, st2)
  BY <1>1, <1>2 DEF TracedSealed, InStep
<1>5. InHand(r, st2)
  BY DEF InHand
<1>6. RoundsMoved(r, st2) /\ EndedOnStored(r, st2) /\ TraceCompleted(r, st2, tr2)
  BY <1>1 DEF RoundsMoved, EndedOnStored, TraceCompleted
<1>7. StepInHand(r, st2)
  BY <1>2 DEF StepInHand, InStep
<1>8. QED
  BY <1>1, <1>3, <1>4, <1>5, <1>6, <1>7 DEF DriverOK

\* Ending a run in any other way than the two that claim something.
LEMMA EndKeeps ==
    ASSUME NEW st, NEW tr, NEW r, DriverOK(r, st, tr),
           NEW outcome \in Outcomes \ {"Completed", "IterationLimit"}
    PROVE  DriverOK([r EXCEPT !.pc = "ended", !.outcome = outcome], st, tr)
<1> DEFINE e == [r EXCEPT !.pc = "ended", !.outcome = outcome]
<1>1. r \in Held
  BY DEF DriverOK
<1>2. /\ e \in Held
      /\ e.pc = "ended" /\ e.outcome = outcome
      /\ e.revision = r.revision /\ e.session = r.session /\ e.trace = r.trace
  BY <1>1 DEF Held
<1> HIDE DEF e
<1>3. Placed(e, st)
  BY <1>2 DEF DriverOK, Placed, Working
<1>4. InHand(e, st)
  BY <1>2 DEF DriverOK, InHand
<1>5. TracedSealed(e, st)
  BY <1>2 DEF DriverOK, TracedSealed
<1>6. RoundsMoved(e, st) /\ EndedOnStored(e, st) /\ TraceCompleted(e, st, tr)
  BY <1>2 DEF RoundsMoved, EndedOnStored, TraceCompleted, Working
<1>7. StepInHand(e, st)
  BY <1>2 DEF StepInHand, InStep
<1>8. QED
  BY <1>2, <1>3, <1>4, <1>5, <1>6, <1>7 DEF DriverOK, e
-----------------------------------------------------------------------------
\* What a driver does to what it holds. First the pigeonhole arguments.

\* Different completed steps, and one more: their number is a spendable key.
LEMMA KeyIsOffered ==
    ASSUME NEW trace \in Traces,
           \A p, q \in DOMAIN trace : trace[p].step = trace[q].step => p = q,
           NEW step \in Steps, \A p \in DOMAIN trace : trace[p].step # step
    PROVE  <<step, Len(trace) + 1>> \in Keys
<1> DEFINE n == Len(trace)
           f == [p \in 1..(n + 1) |-> IF p = n + 1 THEN step ELSE trace[p].step]
<1>1. n \in Nat /\ DOMAIN trace = 1..n /\ \A p \in 1..n : trace[p] \in Entry
  BY DEF Traces
<1>2. \A p \in 1..n : trace[p].step \in Steps
  BY <1>1 DEF Entry
<1>3. IsFiniteSet(1..(n + 1)) /\ Cardinality(1..(n + 1)) = n + 1
  <2>1. n + 1 \in Int /\ 1 \in Int /\ ~(1 > n + 1) /\ n + 1 - 1 + 1 = n + 1
    BY <1>1
  <2>2. QED
    BY <2>1, FS_Interval
<1>4. f \in [1..(n + 1) -> Steps]
  BY <1>1, <1>2
<1>5. IsFiniteSet(Steps) /\ Cardinality(Steps) \in Nat
  BY OrderAssumption, FS_CardinalityType
<1>6. ~(Cardinality(Steps) < n + 1)
  <2>1. SUFFICES ASSUME Cardinality(Steps) < n + 1 PROVE FALSE
    OBVIOUS
  <2>2. PICK x, y \in 1..(n + 1) : x # y /\ f[x] = f[y]
    <3> DEFINE places == 1..(n + 1)
    <3>1. Cardinality(Steps) < Cardinality(places)
      BY <1>3, <2>1
    <3>2. IsFiniteSet(places) /\ f \in [places -> Steps]
      BY <1>3, <1>4
    <3> HIDE DEF f, n, places
    <3>3. \E x, y \in places : x # y /\ f[x] = f[y]
      BY <1>5, <3>1, <3>2, FS_PigeonHole
    <3>4. QED
      BY <3>3 DEF places
  <2>3. QED
    BY <1>1, <2>2
<1>7. n + 1 \in 1..Cardinality(Steps)
  BY <1>1, <1>5, <1>6
<1>8. QED
  BY <1>7, CallersAssumption

\* More moves than there are states visit some state twice.
LEMMA MovesLoop ==
    ASSUME NEW i \in Instance, Len(i.moves) > Cardinality(States)
    PROVE  \E p, q \in DOMAIN i.moves : p # q /\ i.moves[p].to = i.moves[q].to
<1> DEFINE n == Len(i.moves)
           f == [p \in 1..n |-> i.moves[p].to]
<1>1. n \in Nat /\ DOMAIN i.moves = 1..n /\ \A p \in 1..n : i.moves[p] \in Move
  BY DEF Instance
<1>2. f \in [1..n -> States]
  BY <1>1 DEF Move
<1>3. IsFiniteSet(States) /\ Cardinality(States) \in Nat
  BY OrderAssumption, FS_CardinalityType
<1>4. IsFiniteSet(1..n) /\ Cardinality(1..n) = n
  <2>1. n \in Int /\ 1 \in Int /\ ~(1 > n) /\ n - 1 + 1 = n
    BY <1>1, <1>3
  <2>2. QED
    BY <2>1, FS_Interval
<1>5. \E x, y \in 1..n : x # y /\ f[x] = f[y]
  <2>1. Cardinality(States) < Cardinality(1..n)
    BY <1>1, <1>3, <1>4
  <2> HIDE DEF f, n
  <2>2. QED
    BY <1>2, <1>3, <1>4, <2>1, FS_PigeonHole
<1>6. QED
  BY <1>1, <1>5

\* The bound on the rounds exceeds the number of states.
LEMMA RoundsSuffice ==
    /\ Cardinality(States) \in Nat /\ MaxIterations \in Nat
    /\ MaxIterations > Cardinality(States)
<1>1. Cardinality(States) \in Nat /\ Cardinality(Transitions) \in Nat
  BY OrderAssumption, FS_CardinalityType
<1>2. QED
  BY <1>1 DEF MaxIterations

-----------------------------------------------------------------------------
\* The steps of a driver, one lemma each.

\* What enters a round: what EnterRound leaves the driver holding.
Entered(r, i, revision, round) ==
    IF round > MaxIterations
    THEN [r EXCEPT !.pc = "ended", !.outcome = "IterationLimit"]
    ELSE IF IsTerminal(i)
    THEN [r EXCEPT !.pc = "ended", !.outcome = "Completed", !.session = i,
                   !.revision = revision]
    ELSE [r EXCEPT !.pc = "stepping", !.round = round, !.session = i,
                   !.revision = revision, !.state = i.state, !.todo = StepsForState(i.state)]

\* The top of the loop, on the session just committed.
LEMMA EnterKeeps ==
    ASSUME NEW st, StoreOK(st), NEW r \in Held, NEW tr,
           NEW i \in Instance, st.instance = i, NEW round \in Nat,
           round <= Len(i.moves) + 1,
           r.outcome = "running",
           Carries(tr, r.trace),
           \A p \in DOMAIN r.trace :
             /\ r.trace[p].status = "Completed"
             /\ i.records[r.trace[p].step].status = "Completed"
             /\ FactOfTrace(r.trace[p]) \in Range(st.journal),
           \A p, q \in DOMAIN r.trace : r.trace[p].step = r.trace[q].step => p = q,
           round > MaxIterations => /\ r.revision # 0
                                    /\ r.revision < st.revision
                                    /\ r.session \in Instance
                                    /\ Len(r.session.moves) <= Len(i.moves),
           NEW r2, r2 = Entered(r, i, st.revision, round)
    PROVE  DriverOK(r2, st, tr) /\ r2.revision # 0
<1>0. /\ st.revision \in Nat /\ st.revision # 0 /\ Len(i.moves) \in Nat /\ i.state \in States
      /\ r.revision \in Nat
  BY NoSessionAssumption DEF StoreOK, Instance, Held
<1>1. CASE round > MaxIterations
  <2>1. r2 = [r EXCEPT !.pc = "ended", !.outcome = "IterationLimit"]
    BY <1>1 DEF Entered
  <2>2. /\ r2 \in Held /\ r2.pc = "ended" /\ r2.outcome = "IterationLimit"
        /\ r2.revision = r.revision /\ r2.session = r.session /\ r2.trace = r.trace
    BY <2>1 DEF Held, Outcomes
  <2>3. Len(st.instance.moves) > Cardinality(States)
    BY <1>0, <1>1, RoundsSuffice
  <2>4. Placed(r2, st)
    BY <1>0, <1>1, <2>2 DEF Placed, Working
  <2>5. InHand(r2, st)
    BY <1>0, <1>1, <2>2 DEF InHand
  <2>6. RoundsMoved(r2, st) /\ EndedOnStored(r2, st) /\ TraceCompleted(r2, st, tr)
    BY <2>2, <2>3 DEF RoundsMoved, EndedOnStored, TraceCompleted, Working
  <2>7. TracedSealed(r2, st) /\ StepInHand(r2, st)
    BY <2>2 DEF TracedSealed, StepInHand, InStep
  <2>8. QED
    BY <1>1, <2>2, <2>4, <2>5, <2>6, <2>7 DEF DriverOK
<1>2. CASE ~(round > MaxIterations) /\ IsTerminal(i)
  <2>1. r2 = [r EXCEPT !.pc = "ended", !.outcome = "Completed", !.session = i,
                       !.revision = st.revision]
    BY <1>2 DEF Entered
  <2>2. /\ r2 \in Held /\ r2.pc = "ended" /\ r2.outcome = "Completed"
        /\ r2.revision = st.revision /\ r2.session = i /\ r2.trace = r.trace
    BY <1>0, <2>1 DEF Held, Outcomes
  <2>3. Placed(r2, st)
    BY <1>0, <2>2 DEF Placed, Working
  <2>4. InHand(r2, st)
    BY <1>0, <2>2 DEF InHand
  <2>5. RoundsMoved(r2, st) /\ EndedOnStored(r2, st) /\ TraceCompleted(r2, st, tr)
    BY <1>2, <2>2 DEF RoundsMoved, EndedOnStored, TraceCompleted, Working
  <2>6. TracedSealed(r2, st) /\ StepInHand(r2, st)
    BY <2>2 DEF TracedSealed, StepInHand, InStep
  <2>7. QED
    BY <1>0, <2>2, <2>3, <2>4, <2>5, <2>6 DEF DriverOK
<1>3. CASE ~(round > MaxIterations) /\ ~IsTerminal(i)
  <2>1. r2 = [r EXCEPT !.pc = "stepping", !.round = round, !.session = i,
                       !.revision = st.revision, !.state = i.state,
                       !.todo = StepsForState(i.state)]
    BY <1>3 DEF Entered
  <2>2. StepsForState(i.state) \in SUBSET DOMAIN StepOrder
    BY DEF StepsForState
  <2>3. /\ r2 \in Held /\ r2.pc = "stepping" /\ r2.outcome = "running" /\ r2.round = round
        /\ r2.revision = st.revision /\ r2.session = i /\ r2.trace = r.trace
    BY <1>0, <2>1, <2>2 DEF Held, Working
  <2>4. Placed(r2, st)
    BY <1>0, <2>3 DEF Placed, Working
  <2>5. InHand(r2, st)
    BY <1>0, <2>3 DEF InHand
  <2>6. RoundsMoved(r2, st) /\ EndedOnStored(r2, st)
    BY <2>3 DEF RoundsMoved, EndedOnStored
  <2>7. TraceCompleted(r2, st, tr)
    <3>1. TraceSound(r.trace, st, tr)
      BY DEF TraceSound
    <3>2. QED
      BY <2>3, <3>1 DEF TraceCompleted
  <2>8. TracedSealed(r2, st) /\ StepInHand(r2, st)
    BY <2>3 DEF TracedSealed, StepInHand, InStep
  <2>9. QED
    BY <1>0, <2>3, <2>4, <2>5, <2>6, <2>7, <2>8 DEF DriverOK
<1>4. QED
  BY <1>1, <1>2, <1>3

\* A step that already succeeded is passed over.
LEMMA SkipKeeps ==
    ASSUME NEW st, NEW tr, NEW r, DriverOK(r, st, tr), r.pc = "stepping",
           NEW todo \in SUBSET r.todo, NEW r2, r2 = [r EXCEPT !.todo = todo]
    PROVE  DriverOK(r2, st, tr) /\ r2.revision = r.revision
<1>1. r \in Held
  BY DEF DriverOK
<1>2. /\ r2 \in Held /\ r2.pc = r.pc /\ r2.outcome = r.outcome /\ r2.round = r.round
      /\ r2.revision = r.revision /\ r2.session = r.session /\ r2.trace = r.trace
  BY <1>1 DEF Held
<1>3. Placed(r2, st) /\ InHand(r2, st) /\ RoundsMoved(r2, st) /\ EndedOnStored(r2, st)
  BY <1>2 DEF DriverOK, Placed, InHand, RoundsMoved, EndedOnStored
<1>4. TracedSealed(r2, st) /\ StepInHand(r2, st)
  BY <1>2 DEF DriverOK, TracedSealed, StepInHand, InStep
<1>5. TraceCompleted(r2, st, tr)
  BY <1>2 DEF DriverOK, TraceCompleted
<1>6. QED
  BY <1>2, <1>3, <1>4, <1>5 DEF DriverOK

\* Before the claim: the session in hand is the stored one, the step is not
\* one the run completed, and its key is one the driver may spend.
LEMMA ClaimIsCurrent ==
    ASSUME NEW st, StoreOK(st), NEW tr, NEW r, DriverOK(r, st, tr), r.pc = "stepping",
           r.todo # {}, r.revision = st.revision,
           r.session.records[StepAt(r.todo)].status # "Completed"
    PROVE  /\ r.session = st.instance /\ st.instance \in Instance
           /\ StepAt(r.todo) \in Steps
           /\ <<StepAt(r.todo), Len(r.trace) + 1>> \in Keys
<1>1. r \in Held /\ r.todo \in SUBSET DOMAIN StepOrder /\ r.trace \in Traces
  BY DEF DriverOK, Held
<1>2. r.revision # 0
  BY DEF DriverOK, Placed, Working
<1>3. r.session = st.instance /\ st.instance \in Instance
  BY <1>2 DEF DriverOK, InHand
<1>4. StepAt(r.todo) \in Steps
  BY <1>1, StepIsDeclared
<1>5. /\ \A p \in DOMAIN r.trace : st.instance.records[r.trace[p].step].status = "Completed"
      /\ \A p, q \in DOMAIN r.trace : r.trace[p].step = r.trace[q].step => p = q
  BY DEF DriverOK, TraceCompleted, TraceSound, Working
<1>6. \A p \in DOMAIN r.trace : r.trace[p].step # StepAt(r.todo)
  BY <1>3, <1>5
<1>7. <<StepAt(r.todo), Len(r.trace) + 1>> \in Keys
  BY <1>1, <1>4, <1>5, <1>6, KeyIsOffered
<1>8. QED
  BY <1>3, <1>4, <1>7

\* The claim: the driver carries the session it committed.
LEMMA ClaimKeeps ==
    ASSUME NEW st, StoreOK(st), NEW tr, TranscriptOK(tr, st), NEW r, DriverOK(r, st, tr),
           r.pc = "stepping", r.todo # {}, r.revision # 0,
           NEW next, next = st.instance, Len(r.session.moves) <= Len(next.moves),
           NEW attempt \in Nat \ {0},
           StepStarted(StepAt(r.todo), attempt) \in Range(st.journal), NEW r2,
           r2 = [r EXCEPT !.pc = "running", !.session = next, !.revision = st.revision,
                          !.heard = tr, !.attempt = attempt]
    PROVE  DriverOK(r2, st, tr) /\ r2.revision # 0
<1>0. tr \in Seq(Steps)
  BY DEF TranscriptOK
<1>1. r \in Held /\ r.revision <= st.revision /\ r.revision \in Nat /\ st.revision \in Nat
  BY DEF DriverOK, Placed, Held, StoreOK
<1>2. st.revision # 0 /\ next \in Instance
  BY <1>1 DEF StoreOK
<1>3. /\ r2 \in Held /\ r2.pc = "running" /\ r2.outcome = r.outcome /\ r2.round = r.round
      /\ r2.revision = st.revision /\ r2.session = next /\ r2.trace = r.trace
      /\ r2.heard = tr /\ r2.attempt = attempt /\ r2.todo = r.todo
  BY <1>0, <1>1, <1>2 DEF Held, Working
<1>4. Len(next.moves) \in Nat /\ Len(r.session.moves) \in Nat /\ r.round \in Nat
  BY <1>1, <1>2, SMTT(30) DEF DriverOK, InHand, Instance, Held
<1>5. Placed(r2, st)
  BY <1>1, <1>2, <1>3 DEF DriverOK, Placed, Working
<1>6. InHand(r2, st)
  BY <1>2, <1>3, <1>4 DEF InHand
<1>7. RoundsMoved(r2, st)
  BY <1>3, <1>4 DEF DriverOK, RoundsMoved, Working
<1>8. EndedOnStored(r2, st)
  BY <1>3 DEF DriverOK, EndedOnStored, Placed
<1>9. TracedSealed(r2, st)
  BY <1>3 DEF DriverOK, TracedSealed
<1>10. StepInHand(r2, st)
  BY <1>3 DEF StepInHand
<1>11. TraceCompleted(r2, st, tr)
  <2>1. TraceSound(r.trace, st, tr)
    BY DEF DriverOK, TraceCompleted, Working
  <2>2. Distinct(tr) /\ Carries(tr, r.trace) /\ AllCompleted(tr, st)
    BY <2>1 DEF TranscriptOK, TraceSound
  <2>3. QED
    BY <1>3, <2>1, <2>2 DEF TraceCompleted
<1>12. QED
  BY <1>2, <1>3, <1>5, <1>6, <1>7, <1>8, <1>9, <1>10, <1>11 DEF DriverOK

\* What a driver holds after its handler's answer, and after it traced one.
Answered(r, status) == [r EXCEPT !.pc = "reporting", !.status = status]

EntryOf(r) == [step |-> StepAt(r.todo), attempt |-> r.attempt, status |-> r.status]

Recorded(r, todo) ==
    [r EXCEPT !.pc = "stepping", !.todo = todo, !.trace = Append(r.trace, EntryOf(r))]

StepFailed(r) ==
    [r EXCEPT !.pc = "ended", !.outcome = "StepFailed",
              !.trace = Append(r.trace, EntryOf(r))]

\* The handler's answer.
LEMMA AnswerKeeps ==
    ASSUME NEW st, NEW tr, NEW r, DriverOK(r, st, tr), r.pc = "running",
           NEW status \in ResultStatus
    PROVE  DriverOK(Answered(r, status), st, tr) /\ Answered(r, status).revision = r.revision
<1> DEFINE r2 == Answered(r, status)
<1>1. r \in Held /\ status \in StepStatus
  BY DEF DriverOK, ResultStatus
<1>2. /\ r2 \in Held /\ r2.pc = "reporting" /\ r2.outcome = r.outcome /\ r2.round = r.round
      /\ r2.revision = r.revision /\ r2.session = r.session /\ r2.trace = r.trace
      /\ r2.attempt = r.attempt /\ r2.status = status /\ r2.todo = r.todo
  BY <1>1 DEF Held, Working, Answered
<1> HIDE DEF r2
<1>3. Placed(r2, st)
  BY <1>2 DEF DriverOK, Placed, Working
<1>4. InHand(r2, st) /\ RoundsMoved(r2, st) /\ EndedOnStored(r2, st)
  BY <1>2 DEF DriverOK, InHand, RoundsMoved, EndedOnStored, Working
<1>5. TracedSealed(r2, st) /\ StepInHand(r2, st)
  BY <1>2 DEF DriverOK, TracedSealed, StepInHand, InStep
<1>6. TraceCompleted(r2, st, tr)
  BY <1>2 DEF DriverOK, TraceCompleted, Working
<1>7. QED
  BY <1>2, <1>3, <1>4, <1>5, <1>6 DEF DriverOK, r2

\* The report: the driver carries the session it committed the result on.
\* The step was in progress, so it is not one the run completed before.
LEMMA ReportKeeps ==
    ASSUME NEW st, StoreOK(st), NEW tr, NEW r, DriverOK(r, st, tr), r.pc = "reporting",
           NEW next, next = st.instance, Len(r.session.moves) <= Len(next.moves),
           next.records[StepAt(r.todo)].status = r.status,
           StepFinished(StepAt(r.todo), r.attempt, r.status) \in Range(st.journal),
           \A p \in DOMAIN r.trace : r.trace[p].step # StepAt(r.todo),
           NEW r2, r2 = [r EXCEPT !.pc = "recording", !.session = next,
                                  !.revision = st.revision]
    PROVE  DriverOK(r2, st, tr) /\ r2.revision # 0
<1>1. /\ r \in Held /\ r.revision <= st.revision /\ r.revision \in Nat /\ st.revision \in Nat
      /\ r.revision # 0
  BY DEF DriverOK, Placed, Held, StoreOK, Working
<1>2. st.revision # 0 /\ next \in Instance
  BY <1>1 DEF StoreOK
<1>3. /\ r2 \in Held /\ r2.pc = "recording" /\ r2.outcome = r.outcome /\ r2.round = r.round
      /\ r2.revision = st.revision /\ r2.session = next /\ r2.trace = r.trace
      /\ r2.attempt = r.attempt /\ r2.status = r.status /\ r2.todo = r.todo
  BY <1>1, <1>2 DEF Held, Working
<1>4. Len(next.moves) \in Nat /\ Len(r.session.moves) \in Nat /\ r.round \in Nat
  BY <1>1, <1>2 DEF DriverOK, InHand, Instance, Held
<1>5. Placed(r2, st)
  BY <1>1, <1>2, <1>3 DEF DriverOK, Placed, Working
<1>6. InHand(r2, st)
  BY <1>2, <1>3, <1>4 DEF InHand
<1>7. RoundsMoved(r2, st)
  BY <1>3, <1>4 DEF DriverOK, RoundsMoved, Working
<1>8. EndedOnStored(r2, st)
  BY <1>3 DEF DriverOK, EndedOnStored, Placed
<1>9. TracedSealed(r2, st)
  BY <1>3 DEF DriverOK, TracedSealed
<1>10. StepInHand(r2, st)
  BY <1>3 DEF DriverOK, StepInHand, InStep
<1>11. TraceCompleted(r2, st, tr)
  BY <1>3 DEF DriverOK, TraceCompleted, Working
<1>12. QED
  BY <1>2, <1>3, <1>5, <1>6, <1>7, <1>8, <1>9, <1>10, <1>11 DEF DriverOK

\* The trace with one more entry.
Lengthened(trace, e, longer) ==
    /\ longer \in Traces
    /\ DOMAIN trace = 1..Len(trace) /\ Len(trace) \in Nat
    /\ DOMAIN longer = 1..(Len(trace) + 1)
    /\ longer[Len(trace) + 1] = e
    /\ \A p \in DOMAIN trace : longer[p] = trace[p]

\* Tracing a step lengthens the trace.
LEMMA TraceAppend ==
    ASSUME NEW trace \in Traces, NEW e \in Entry
    PROVE  Lengthened(trace, e, Append(trace, e))
<1> DEFINE longer == Append(trace, e)
<1>1. /\ longer \in Traces
      /\ Len(trace) \in Nat /\ DOMAIN trace = 1..Len(trace)
      /\ DOMAIN longer = 1..(Len(trace) + 1)
      /\ longer[Len(trace) + 1] = e
      /\ \A p \in 1..Len(trace) : longer[p] = trace[p]
  BY DEF Traces
<1> HIDE DEF longer
<1>2. QED
  BY <1>1 DEF longer, Lengthened

\* A transcript with one more step, one it did not name.
LEMMA TranscriptAppend ==
    ASSUME NEW tr \in Seq(Steps), NEW step \in Steps
    PROVE  /\ Append(tr, step) \in Seq(Steps) /\ Len(tr) \in Nat
           /\ DOMAIN tr = 1..Len(tr)
           /\ DOMAIN Append(tr, step) = 1..(Len(tr) + 1)
           /\ Append(tr, step)[Len(tr) + 1] = step
           /\ \A m \in DOMAIN tr : Append(tr, step)[m] = tr[m]
  OBVIOUS

\* It still names no step twice, and only completed ones.
LEMMA TranscriptGrows ==
    ASSUME NEW st, st.instance # NoSession, NEW tr, TranscriptOK(tr, st), NEW step \in Steps,
           st.instance.records[step].status = "Completed", \A m \in DOMAIN tr : tr[m] # step
    PROVE  TranscriptOK(Append(tr, step), st)
<1> DEFINE tr2 == Append(tr, step)
<1>1. /\ tr2 \in Seq(Steps) /\ Len(tr) \in Nat /\ DOMAIN tr = 1..Len(tr)
      /\ DOMAIN tr2 = 1..(Len(tr) + 1) /\ tr2[Len(tr) + 1] = step
      /\ \A m \in DOMAIN tr : tr2[m] = tr[m]
  BY TranscriptAppend DEF TranscriptOK
<1> HIDE DEF tr2
<1>2. \A m \in DOMAIN tr2 : m \in DOMAIN tr \/ m = Len(tr) + 1
  BY <1>1
<1>3. Distinct(tr2)
  <2>1. Distinct(tr)
    BY DEF TranscriptOK
  <2>2. SUFFICES ASSUME NEW m \in DOMAIN tr2, NEW n \in DOMAIN tr2, tr2[m] = tr2[n] PROVE m = n
    BY DEF Distinct
  <2>3. CASE m \in DOMAIN tr /\ n \in DOMAIN tr
    BY <1>1, <2>1, <2>2, <2>3 DEF Distinct
  <2>4. CASE m \in DOMAIN tr /\ n = Len(tr) + 1
    BY <1>1, <2>2, <2>4
  <2>5. CASE m = Len(tr) + 1 /\ n \in DOMAIN tr
    BY <1>1, <2>2, <2>5
  <2>6. QED
    BY <1>2, <2>3, <2>4, <2>5
<1>4. AllCompleted(tr2, st)
  BY <1>1, <1>2 DEF TranscriptOK, AllCompleted
<1>5. QED
  BY <1>1, <1>3, <1>4 DEF TranscriptOK, tr2

\* What was run stays in it, in order, whoever the new step is from.
LEMMA OthersAppend ==
    ASSUME NEW tr \in Seq(Steps), NEW trace, Carries(tr, trace), NEW step \in Steps,
           \A m \in DOMAIN tr : tr[m] # step
    PROVE  Carries(Append(tr, step), trace)
<1> DEFINE tr2 == Append(tr, step)
<1>1. /\ Len(tr) \in Nat /\ DOMAIN tr = 1..Len(tr)
      /\ DOMAIN tr2 = 1..(Len(tr) + 1) /\ tr2[Len(tr) + 1] = step
      /\ \A m \in DOMAIN tr : tr2[m] = tr[m]
  BY TranscriptAppend
<1> HIDE DEF tr2
<1>2. \A p \in DOMAIN trace : trace[p].step # step
  BY DEF Carries
<1>3. \A m \in DOMAIN tr2 : tr2[m] # step => m \in DOMAIN tr
  BY <1>1
<1>4. ASSUME NEW p \in DOMAIN trace PROVE \E m \in DOMAIN tr2 : tr2[m] = trace[p].step
  <2>1. PICK m \in DOMAIN tr : tr[m] = trace[p].step
    BY DEF Carries
  <2>2. m \in DOMAIN tr2 /\ tr2[m] = trace[p].step
    BY <1>1, <2>1
  <2>3. QED
    BY <2>2
<1>5. ASSUME NEW p \in DOMAIN trace, NEW q \in DOMAIN trace,
             NEW m \in DOMAIN tr2, NEW n \in DOMAIN tr2,
             p < q, tr2[m] = trace[p].step, tr2[n] = trace[q].step
      PROVE  m < n
  <2>1. m \in DOMAIN tr /\ n \in DOMAIN tr
    BY <1>2, <1>3, <1>5
  <2>2. tr[m] = trace[p].step /\ tr[n] = trace[q].step
    BY <1>1, <1>5, <2>1
  <2>3. QED
    BY <1>5, <2>1, <2>2 DEF Carries
<1>6. QED
  BY <1>4, <1>5 DEF Carries, tr2

\* The step just run comes last in both.
LEMMA OwnAppend ==
    ASSUME NEW tr \in Seq(Steps), NEW trace \in Traces, Carries(tr, trace), NEW e \in Entry,
           \A m \in DOMAIN tr : tr[m] # e.step
    PROVE  Carries(Append(tr, e.step), Append(trace, e))
<1> DEFINE step == e.step
           tr2 == Append(tr, step)
           longer == Append(trace, e)
<1>1. step \in Steps
  BY DEF Entry
<1> HIDE DEF step
<1>2. /\ Len(tr) \in Nat /\ DOMAIN tr = 1..Len(tr)
      /\ DOMAIN tr2 = 1..(Len(tr) + 1) /\ tr2[Len(tr) + 1] = step
      /\ \A m \in DOMAIN tr : tr2[m] = tr[m]
  BY <1>1, TranscriptAppend
<1>3. Carries(tr2, trace)
  BY <1>1, OthersAppend DEF step
<1>4. /\ DOMAIN trace = 1..Len(trace) /\ Len(trace) \in Nat
      /\ DOMAIN longer = 1..(Len(trace) + 1)
      /\ longer[Len(trace) + 1] = e
      /\ \A p \in DOMAIN trace : longer[p] = trace[p]
  BY TraceAppend DEF Lengthened
<1>5. \A m \in DOMAIN tr : tr[m] # step
  BY DEF step
<1>6. e.step = step
  BY DEF step
<1> HIDE DEF tr2, longer
<1>7. \A p \in DOMAIN longer : p \in DOMAIN trace \/ p = Len(trace) + 1
  BY <1>4
<1>8. \A p \in DOMAIN trace : longer[p].step = trace[p].step /\ trace[p].step # step
  BY <1>4, <1>5 DEF Carries
<1>9. ASSUME NEW p \in DOMAIN longer PROVE \E m \in DOMAIN tr2 : tr2[m] = longer[p].step
  <2>1. CASE p \in DOMAIN trace
    BY <1>3, <1>8, <2>1 DEF Carries
  <2>2. CASE p = Len(trace) + 1
    <3>1. Len(tr) + 1 \in DOMAIN tr2 /\ tr2[Len(tr) + 1] = longer[p].step
      BY <1>2, <1>4, <1>6, <2>2
    <3>2. QED
      BY <3>1
  <2>3. QED
    BY <1>7, <2>1, <2>2
<1>10. ASSUME NEW p \in DOMAIN longer, NEW q \in DOMAIN longer,
              NEW m \in DOMAIN tr2, NEW n \in DOMAIN tr2,
              p < q, tr2[m] = longer[p].step, tr2[n] = longer[q].step
       PROVE  m < n
  <2>1. p \in DOMAIN trace
    BY <1>4, <1>10
  <2>2. CASE q \in DOMAIN trace
    BY <1>3, <1>8, <1>10, <2>1, <2>2 DEF Carries
  <2>3. CASE q = Len(trace) + 1
    <3>1. tr2[n] = step /\ tr2[m] # step
      BY <1>4, <1>6, <1>8, <1>10, <2>1, <2>3
    <3>2. n = Len(tr) + 1 /\ m \in DOMAIN tr
      BY <1>2, <1>5, <3>1
    <3>3. QED
      BY <1>2, <3>2
  <2>4. QED
    BY <1>7, <2>2, <2>3
<1>11. QED
  BY <1>9, <1>10 DEF Carries, tr2, longer, step

\* The entry made for the step in hand is well formed, and in the journal.
LEMMA EntryInHand ==
    ASSUME NEW st, NEW tr, NEW r, DriverOK(r, st, tr), r.pc = "recording",
           NEW e, e = EntryOf(r)
    PROVE  /\ r \in Held /\ r.trace \in Traces /\ e \in Entry
           /\ r.revision # 0 /\ r.todo # {} /\ StepAt(r.todo) \in Steps
           /\ \A p \in DOMAIN Append(r.trace, e) :
                FactOfTrace(Append(r.trace, e)[p]) \in Range(st.journal)
<1>1. r \in Held /\ r.trace \in Traces /\ r.todo \in SUBSET DOMAIN StepOrder /\ r.attempt \in Nat
  BY DEF DriverOK, Held
<1>2. r.todo # {} /\ r.attempt # 0 /\ r.status \in ResultStatus
  BY DEF DriverOK, StepInHand, InStep
<1>3. StepAt(r.todo) \in Steps
  BY <1>1, <1>2, StepIsDeclared
<1>4. e \in Entry
  BY <1>1, <1>2, <1>3 DEF Entry, EntryOf
<1>5. r.revision # 0
  BY DEF DriverOK, Placed, Working
<1>6. FactOfTrace(e) \in Range(st.journal)
  BY DEF DriverOK, TracedSealed, FactOfTrace, EntryOf
<1>7. \A p \in DOMAIN r.trace : FactOfTrace(r.trace[p]) \in Range(st.journal)
  BY DEF DriverOK, TracedSealed
<1> DEFINE longer == Append(r.trace, e)
<1>8. /\ DOMAIN r.trace = 1..Len(r.trace) /\ Len(r.trace) \in Nat
      /\ DOMAIN longer = 1..(Len(r.trace) + 1)
      /\ longer[Len(r.trace) + 1] = e
      /\ \A p \in DOMAIN r.trace : longer[p] = r.trace[p]
  BY <1>1, <1>4, TraceAppend DEF Lengthened
<1> HIDE DEF longer
<1>9. ASSUME NEW p \in DOMAIN longer PROVE FactOfTrace(longer[p]) \in Range(st.journal)
  <2>1. p = Len(r.trace) + 1 \/ p \in DOMAIN r.trace
    BY <1>8
  <2>2. CASE p = Len(r.trace) + 1
    BY <1>6, <1>8, <2>2
  <2>3. CASE p \in DOMAIN r.trace
    <3>1. longer[p] = r.trace[p]
      BY <1>8, <2>3
    <3>2. QED
      BY <1>7, <2>3, <3>1
  <2>4. QED
    BY <2>1, <2>2, <2>3
<1>10. QED
  BY <1>1, <1>2, <1>3, <1>4, <1>5, <1>9 DEF longer

\* A success: one more step traced and in the transcript.
LEMMA RecordKeeps ==
    ASSUME NEW st, NEW tr, NEW r, DriverOK(r, st, tr), r.pc = "recording",
           r.status = "Completed", NEW todo \in SUBSET r.todo,
           tr \in Seq(Steps), \A m \in DOMAIN tr : tr[m] # StepAt(r.todo)
    PROVE  /\ DriverOK(Recorded(r, todo), st, Append(tr, StepAt(r.todo)))
           /\ Recorded(r, todo).revision = r.revision
<1> DEFINE e == EntryOf(r)
           r2 == Recorded(r, todo)
           longer == Append(r.trace, e)
           tr2 == Append(tr, StepAt(r.todo))
<1>1. /\ r \in Held /\ r.trace \in Traces /\ e \in Entry /\ r.revision # 0
      /\ \A p \in DOMAIN longer : FactOfTrace(longer[p]) \in Range(st.journal)
  BY EntryInHand
<1>2. e.step = StepAt(r.todo) /\ e.status = "Completed"
  BY DEF EntryOf
<1>3. /\ longer \in Traces
      /\ DOMAIN r.trace = 1..Len(r.trace) /\ Len(r.trace) \in Nat
      /\ DOMAIN longer = 1..(Len(r.trace) + 1)
      /\ longer[Len(r.trace) + 1] = e
      /\ \A p \in DOMAIN r.trace : longer[p] = r.trace[p]
  <2>1. Lengthened(r.trace, e, longer)
    BY <1>1, TraceAppend
  <2> HIDE DEF longer
  <2>2. QED
    BY <2>1 DEF Lengthened
<1>4. r2 = [r EXCEPT !.pc = "stepping", !.todo = todo, !.trace = longer]
  BY DEF Recorded
<1> HIDE DEF longer, r2, e
<1>5. /\ r2 \in Held /\ r2.pc = "stepping" /\ r2.outcome = r.outcome /\ r2.round = r.round
      /\ r2.revision = r.revision /\ r2.session = r.session /\ r2.trace = longer
  BY <1>1, <1>3, <1>4 DEF Held, Working
<1>6. Placed(r2, st)
  BY <1>1, <1>5 DEF DriverOK, Placed, Working
<1>7. InHand(r2, st) /\ RoundsMoved(r2, st) /\ EndedOnStored(r2, st)
  BY <1>5 DEF DriverOK, InHand, RoundsMoved, EndedOnStored, Working
<1>8. TracedSealed(r2, st) /\ StepInHand(r2, st)
  BY <1>1, <1>5 DEF TracedSealed, StepInHand, InStep
<1>9. TraceCompleted(r2, st, tr2)
  <2>1. /\ Carries(tr, r.trace)
        /\ \A p \in DOMAIN r.trace :
             /\ r.trace[p].status = "Completed"
             /\ st.instance.records[r.trace[p].step].status = "Completed"
        /\ \A p, q \in DOMAIN r.trace : r.trace[p].step = r.trace[q].step => p = q
    BY DEF DriverOK, TraceCompleted, TraceSound, Working
  <2>2. /\ st.instance.records[e.step].status = "Completed"
        /\ \A p \in DOMAIN r.trace : r.trace[p].step # e.step
    BY <1>2 DEF DriverOK, StepInHand
  <2>3. Carries(tr2, longer)
    BY <1>1, <1>2, <2>1, OwnAppend DEF longer
  <2>4. \A p \in DOMAIN longer : p \in DOMAIN r.trace \/ p = Len(r.trace) + 1
    BY <1>3
  <2>5. \A p \in DOMAIN longer :
          /\ longer[p].status = "Completed"
          /\ st.instance.records[longer[p].step].status = "Completed"
    BY <1>2, <1>3, <2>1, <2>2, <2>4
  <2>6. \A p, q \in DOMAIN longer : longer[p].step = longer[q].step => p = q
    <3>1. SUFFICES ASSUME NEW p \in DOMAIN longer, NEW q \in DOMAIN longer,
                          longer[p].step = longer[q].step
                   PROVE  p = q
      OBVIOUS
    <3>2. CASE p \in DOMAIN r.trace /\ q \in DOMAIN r.trace
      <4>1. longer[p] = r.trace[p] /\ longer[q] = r.trace[q]
        BY <1>3, <3>2
      <4>2. QED
        BY <2>1, <3>1, <3>2, <4>1
    <3>3. CASE p \in DOMAIN r.trace /\ q = Len(r.trace) + 1
      <4>1. longer[p] = r.trace[p] /\ longer[q] = e
        BY <1>3, <3>3
      <4>2. QED
        BY <2>2, <3>1, <3>3, <4>1
    <3>4. CASE q \in DOMAIN r.trace /\ p = Len(r.trace) + 1
      <4>1. longer[q] = r.trace[q] /\ longer[p] = e
        BY <1>3, <3>4
      <4>2. QED
        BY <2>2, <3>1, <3>4, <4>1
    <3>5. QED
      BY <2>4, <3>2, <3>3, <3>4
  <2> HIDE DEF tr2
  <2>7. TraceSound(longer, st, tr2)
    BY <2>3, <2>5, <2>6 DEF TraceSound
  <2>8. QED
    BY <1>5, <2>7 DEF TraceCompleted
<1>10. QED
  BY <1>5, <1>6, <1>7, <1>8, <1>9 DEF DriverOK, r2

\* Any other result: traced as well, and the run ends.
LEMMA FailureKeeps ==
    ASSUME NEW st, NEW tr, NEW r, DriverOK(r, st, tr), r.pc = "recording"
    PROVE  DriverOK(StepFailed(r), st, tr) /\ StepFailed(r).revision = r.revision
<1> DEFINE e == EntryOf(r)
           r2 == StepFailed(r)
           longer == Append(r.trace, e)
<1>1. /\ r \in Held /\ r.trace \in Traces /\ e \in Entry /\ r.revision # 0
      /\ \A p \in DOMAIN longer : FactOfTrace(longer[p]) \in Range(st.journal)
  BY EntryInHand
<1>2. longer \in Traces
  BY <1>1, TraceAppend DEF Lengthened
<1>3. r2 = [r EXCEPT !.pc = "ended", !.outcome = "StepFailed", !.trace = longer]
  BY DEF StepFailed
<1> HIDE DEF longer, r2, e
<1>4. /\ r2 \in Held /\ r2.pc = "ended" /\ r2.outcome = "StepFailed"
      /\ r2.revision = r.revision /\ r2.session = r.session /\ r2.trace = longer
  BY <1>1, <1>2, <1>3 DEF Held, Outcomes
<1>5. Placed(r2, st)
  BY <1>1, <1>4 DEF DriverOK, Placed, Working
<1>6. InHand(r2, st)
  BY <1>4 DEF DriverOK, InHand
<1>7. RoundsMoved(r2, st) /\ EndedOnStored(r2, st) /\ TraceCompleted(r2, st, tr)
  BY <1>4 DEF RoundsMoved, EndedOnStored, TraceCompleted, Working
<1>8. TracedSealed(r2, st) /\ StepInHand(r2, st)
  BY <1>1, <1>4 DEF TracedSealed, StepInHand, InStep
<1>9. QED
  BY <1>4, <1>5, <1>6, <1>7, <1>8 DEF DriverOK, r2

\* What the other clients still owe is not in the longer transcript either.
LEMMA WorkersLeft ==
    ASSUME NEW st, NEW tr \in Seq(Steps), NEW ws, WorkersOK(ws, st, tr), NEW step \in Steps,
           NEW ws2 \in SUBSET ws, \A w \in ws2 : w.pc = "appending" => w.step # step
    PROVE  WorkersOK(ws2, st, Append(tr, step))
<1> DEFINE tr2 == Append(tr, step)
<1>1. /\ Len(tr) \in Nat /\ DOMAIN tr = 1..Len(tr)
      /\ DOMAIN tr2 = 1..(Len(tr) + 1) /\ tr2[Len(tr) + 1] = step
      /\ \A m \in DOMAIN tr : tr2[m] = tr[m]
  BY TranscriptAppend
<1> HIDE DEF tr2
<1>2. \A m \in DOMAIN tr2 : m \in DOMAIN tr \/ m = Len(tr) + 1
  BY <1>1
<1>3. ASSUME NEW w \in ws2, w.pc = "appending", NEW m \in DOMAIN tr2 PROVE tr2[m] # w.step
  BY <1>1, <1>2, <1>3 DEF WorkersOK
<1>4. QED
  BY <1>3 DEF WorkersOK, tr2

\* What a client appends disturbs no driver.
LEMMA AppendKeepsDriver ==
    ASSUME NEW st, NEW tr \in Seq(Steps), NEW r, DriverOK(r, st, tr), NEW step \in Steps,
           \A m \in DOMAIN tr : tr[m] # step
    PROVE  DriverOK(r, st, Append(tr, step))
<1> DEFINE tr2 == Append(tr, step)
<1>1. ASSUME r.pc \in Working PROVE Carries(tr2, r.trace)
  BY <1>1, OthersAppend DEF DriverOK, TraceCompleted, TraceSound
<1> HIDE DEF tr2
<1>2. TraceCompleted(r, st, tr2)
  BY <1>1 DEF DriverOK, TraceCompleted, TraceSound
<1>3. QED
  BY <1>2 DEF DriverOK, tr2

-----------------------------------------------------------------------------
\* The invariant holds initially and every step keeps it.

\* Nothing is stored and nobody holds anything.
LEMMA InitIInv == Init => IInv
<1> SUFFICES ASSUME Init PROVE IInv
  OBVIOUS
<1>1. StoreOK(store)
  BY DEF Init, StoreOK
<1>2. Fresh \in Held
  <2>1. InitialState \in States /\ <<>> \in Seq(Steps) /\ <<>> \in Traces
    BY StatesAssumption DEF Traces
  <2>2. QED
    BY <2>1 DEF Fresh, Held, Outcomes, StepStatus, Working
<1>3. /\ Fresh.pc = "checking" /\ Fresh.outcome = "running" /\ Fresh.revision = 0
      /\ Fresh.trace = <<>>
  BY DEF Fresh
<1>4. store.revision \in Nat
  BY DEF Init
<1>5. DriverOK(Fresh, store, transcript)
  <2>1. Placed(Fresh, store) /\ InHand(Fresh, store) /\ EndedOnStored(Fresh, store)
    BY <1>3, <1>4 DEF Placed, InHand, EndedOnStored, Working
  <2>2. /\ RoundsMoved(Fresh, store) /\ TraceCompleted(Fresh, store, transcript)
        /\ TracedSealed(Fresh, store) /\ StepInHand(Fresh, store)
    BY <1>3 DEF RoundsMoved, TraceCompleted, TracedSealed, StepInHand, InStep, Working
  <2>3. QED
    BY <1>2, <2>1, <2>2 DEF DriverOK
<1> HIDE DEF Fresh
<1>6. run = [c \in Drivers |-> Fresh] /\ transcript = <<>> /\ workers = {} /\ now = 0
  BY DEF Init
<1>7. OneOpener
  BY <1>3, <1>6 DEF OneOpener
<1>8. TranscriptOK(transcript, store) /\ WorkersOK(workers, store, transcript)
  BY <1>6 DEF TranscriptOK, Distinct, AllCompleted, WorkersOK
<1>9. RecorderOK(Fresh, transcript, workers)
  BY <1>3 DEF RecorderOK, Owes
<1>10. QED
  BY <1>1, <1>2, <1>5, <1>6, <1>7, <1>8, <1>9 DEF IInv

\* A step of one driver: what it must show for itself and for the others.
LEMMA OneDriver ==
    ASSUME IInv, NEW c \in Drivers, NEW r, run' = [run EXCEPT ![c] = r],
           now' = now, StoreOK(store)', TranscriptOK(transcript', store'),
           WorkersOK(workers', store', transcript'),
           DriverOK(r, store', transcript'), RecorderOK(r, transcript', workers'),
           \A d \in Drivers \ {c} : /\ DriverOK(run[d], store', transcript')
                                   /\ RecorderOK(run[d], transcript', workers'),
           r.revision # 0 => \A d \in Drivers \ {c} : run[d].revision = 0
    PROVE  IInv'
<1>1. run \in [Drivers -> Held] /\ now \in Nat /\ OneOpener
  BY DEF IInv
<1>2. r \in Held
  BY DEF DriverOK
<1>3. /\ run' \in [Drivers -> Held] /\ run'[c] = r
      /\ \A d \in Drivers \ {c} : run'[d] = run[d]
  BY <1>1, <1>2
<1>4. \A d \in Drivers : /\ DriverOK(run'[d], store', transcript')
                        /\ RecorderOK(run'[d], transcript', workers')
  BY <1>3
<1>5. OneOpener'
  <2>1. SUFFICES ASSUME NEW a \in Drivers, NEW b \in Drivers,
                        run'[a].revision # 0, run'[b].revision # 0
                 PROVE  a = b
    BY DEF OneOpener
  <2>2. QED
    BY <1>1, <1>3, <2>1 DEF OneOpener
<1>6. QED
  BY <1>1, <1>3, <1>4, <1>5 DEF IInv

\* A driver that did not open the session owes the transcript nothing.
LEMMA BystanderOwesNothing ==
    ASSUME NEW st, NEW tr, NEW r, DriverOK(r, st, tr), r.revision = 0, NEW tr2, NEW ws2
    PROVE  RecorderOK(r, tr2, ws2)
  BY DEF DriverOK, Placed, Working, RecorderOK, Owes

\* A step of a driver that changes only what it holds.
LEMMA OnlyHolds ==
    ASSUME IInv, NEW c \in Drivers, NEW r, run' = [run EXCEPT ![c] = r],
           UNCHANGED <<store, now, transcript, workers>>,
           DriverOK(r, store, transcript), r.revision = run[c].revision,
           RecorderOK(r, transcript, workers)
    PROVE  IInv'
<1>1. /\ StoreOK(store) /\ TranscriptOK(transcript, store)
      /\ WorkersOK(workers, store, transcript)
      /\ \A d \in Drivers : /\ DriverOK(run[d], store, transcript)
                           /\ RecorderOK(run[d], transcript, workers)
      /\ r.revision # 0 => \A d \in Drivers \ {c} : run[d].revision = 0
  BY DEF IInv, OneOpener
<1>2. /\ StoreOK(store)' /\ store' = store /\ transcript' = transcript /\ now' = now
      /\ workers' = workers
  BY <1>1
<1>3. /\ TranscriptOK(transcript', store') /\ WorkersOK(workers', store', transcript')
      /\ DriverOK(r, store', transcript') /\ RecorderOK(r, transcript', workers')
      /\ \A d \in Drivers \ {c} : /\ DriverOK(run[d], store', transcript')
                                 /\ RecorderOK(run[d], transcript', workers')
  BY <1>1, <1>2
<1>4. QED
  BY <1>1, <1>2, <1>3, OneDriver

\* A run that ends without claiming anything.
LEMMA EndStep ==
    ASSUME IInv, NEW c \in Drivers,
           NEW outcome \in Outcomes \ {"Completed", "IterationLimit"},
           End(c, outcome), UNCHANGED <<store, now, transcript, workers>>
    PROVE  IInv'
<1> DEFINE r == [run[c] EXCEPT !.pc = "ended", !.outcome = outcome]
<1>1. run \in [Drivers -> Held] /\ run[c] \in Held /\ DriverOK(run[c], store, transcript)
  BY DEF IInv
<1>2. run' = [run EXCEPT ![c] = r]
  BY <1>1 DEF End, Held
<1>3. r.revision = run[c].revision
  BY <1>1 DEF Held
<1>4. DriverOK(r, store, transcript) /\ RecorderOK(r, transcript, workers)
  <2>1. r.pc = "ended"
    BY <1>1 DEF Held
  <2>2. RecorderOK(r, transcript, workers)
    BY <2>1 DEF RecorderOK, Owes
  <2>3. QED
    BY <1>1, <2>2, EndKeeps
<1> HIDE DEF r
<1>5. QED
  BY <1>2, <1>3, <1>4, OnlyHolds

\* A commit of a driver at work, on whatever is stored.
LEMMA CommitStep ==
    ASSUME IInv, NEW c \in Drivers, NEW r, run' = [run EXCEPT ![c] = r],
           NEW next, NEW facts \in Seq(Fact), Follows(store.instance, next),
           Commit(next, facts), UNCHANGED <<now, transcript, workers>>,
           DriverOK(r, store', transcript), run[c].revision # 0,
           RecorderOK(r, transcript, workers)
    PROVE  IInv'
<1>1. store' = Committed(store, next, facts)
  BY DEF Commit, Committed
<1>2. /\ StoreOK(store) /\ store.revision \in Nat
      /\ TranscriptOK(transcript, store) /\ WorkersOK(workers, store, transcript)
      /\ \A d \in Drivers : /\ DriverOK(run[d], store, transcript)
                           /\ RecorderOK(run[d], transcript, workers)
      /\ \A d \in Drivers \ {c} : run[d].revision = 0
  BY DEF IInv, OneOpener, StoreOK
<1>3. Landed(store, store', next, facts)
  BY <1>1, <1>2, CommitKeepsStore
<1>4. StoreOK(store') /\ store'.revision # 0
  BY <1>2, <1>3 DEF Landed
<1>5. ASSUME NEW d \in Drivers PROVE DriverOK(run[d], store', transcript)
  BY <1>1, <1>2, CommitKeepsDriver
<1>6. TranscriptOK(transcript, store') /\ WorkersOK(workers, store', transcript)
  BY <1>2, <1>3, CommitKeepsShared
<1>7. transcript' = transcript /\ workers' = workers /\ now' = now
  OBVIOUS
<1>8. /\ TranscriptOK(transcript', store') /\ WorkersOK(workers', store', transcript')
      /\ DriverOK(r, store', transcript') /\ RecorderOK(r, transcript', workers')
      /\ \A d \in Drivers \ {c} : /\ DriverOK(run[d], store', transcript')
                                 /\ RecorderOK(run[d], transcript', workers')
  BY <1>2, <1>5, <1>6, <1>7
<1>9. QED
  BY <1>2, <1>4, <1>7, <1>8, OneDriver

-----------------------------------------------------------------------------
\* One lemma per action.

\* What every action starts from.
LEMMA AtWork ==
    ASSUME IInv, NEW c \in Drivers
    PROVE  /\ StoreOK(store) /\ store.revision \in Nat /\ now \in Nat
           /\ TranscriptOK(transcript, store) /\ transcript \in Seq(Steps)
           /\ WorkersOK(workers, store, transcript) /\ RecorderOK(run[c], transcript, workers)
           /\ run \in [Drivers -> Held] /\ run[c] \in Held
           /\ DriverOK(run[c], store, transcript)
           /\ run[c].pc \in Working =>
                /\ run[c].revision # 0 /\ store.revision # 0
                /\ store.instance \in Instance
                /\ run[c].outcome = "running"
                /\ run[c].session \in Instance
                /\ Len(run[c].session.moves) \in Nat /\ Len(store.instance.moves) \in Nat
                /\ Len(run[c].session.moves) <= Len(store.instance.moves)
                /\ run[c].revision = store.revision => run[c].session = store.instance
<1>1. /\ StoreOK(store) /\ store.revision \in Nat /\ now \in Nat
      /\ TranscriptOK(transcript, store) /\ transcript \in Seq(Steps)
      /\ WorkersOK(workers, store, transcript) /\ RecorderOK(run[c], transcript, workers)
      /\ run \in [Drivers -> Held] /\ run[c] \in Held
      /\ DriverOK(run[c], store, transcript)
  BY DEF IInv, StoreOK, TranscriptOK
<1>2. ASSUME run[c].pc \in Working
      PROVE  /\ run[c].revision # 0 /\ store.revision # 0
             /\ store.instance \in Instance /\ run[c].outcome = "running"
             /\ run[c].session \in Instance
             /\ Len(run[c].session.moves) <= Len(store.instance.moves)
             /\ run[c].revision = store.revision => run[c].session = store.instance
  <2>1. /\ run[c].revision # 0 /\ run[c].revision <= store.revision
        /\ run[c].revision \in Nat /\ run[c].pc # "ended"
    BY <1>1, <1>2 DEF DriverOK, Placed, Held, Working
  <2>2. store.revision # 0
    BY <1>1, <2>1
  <2>3. store.instance \in Instance
    BY <1>1, <2>2 DEF StoreOK
  <2>4. QED
    BY <1>1, <2>1, <2>2, <2>3 DEF DriverOK, Placed, InHand
<1>3. QED
  BY <1>1, <1>2 DEF Instance

\* The courtesy check commits nothing and tells nothing.
LEMMA CheckStep ==
    ASSUME IInv, NEW c \in Drivers, Check(c)
    PROVE  IInv'
<1>1. /\ run \in [Drivers -> Held] /\ run[c] \in Held /\ run[c].pc = "checking"
      /\ DriverOK(run[c], store, transcript)
  BY AtWork DEF Check
<1>2. CASE store.instance # NoSession
  <2>1. End(c, "AlreadyExists") /\ UNCHANGED <<store, now, transcript, workers>>
    BY <1>2 DEF Check
  <2>2. QED
    BY <2>1, EndStep DEF Outcomes
<1>3. CASE store.instance = NoSession
  <2> DEFINE r == [run[c] EXCEPT !.pc = "opening"]
  <2>1. run' = [run EXCEPT ![c] = r] /\ UNCHANGED <<store, now, transcript, workers>>
    BY <1>1, <1>3 DEF Check, Held
  <2>2. /\ r \in Held /\ r.pc = "opening" /\ r.outcome = run[c].outcome
        /\ r.revision = run[c].revision /\ r.trace = run[c].trace
    BY <1>1 DEF Held
  <2>3. run[c].revision = 0 /\ run[c].trace = <<>> /\ run[c].outcome = "running"
    BY <1>1 DEF DriverOK, Placed
  <2> HIDE DEF r
  <2>4. DriverOK(r, store, transcript)
    <3>1. Placed(r, store)
      BY <1>1, <2>2, <2>3 DEF DriverOK, Placed, Working
    <3>2. InHand(r, store) /\ EndedOnStored(r, store)
      BY <2>2, <2>3 DEF InHand, EndedOnStored
    <3>3. /\ RoundsMoved(r, store) /\ TraceCompleted(r, store, transcript)
          /\ TracedSealed(r, store) /\ StepInHand(r, store)
      BY <2>2, <2>3 DEF RoundsMoved, TraceCompleted, TracedSealed, StepInHand, InStep, Working
    <3>4. QED
      BY <2>2, <3>1, <3>2, <3>3 DEF DriverOK
  <2>5. RecorderOK(r, transcript, workers)
    BY <2>2 DEF RecorderOK, Owes
  <2>6. QED
    BY <2>1, <2>2, <2>4, <2>5, OnlyHolds
<1>4. QED
  BY <1>2, <1>3

\* The opening: nobody else opened the session, and nobody will.
LEMMA OpenStep ==
    ASSUME IInv, NEW c \in Drivers, NEW approved \in Contexts, OpenRun(c, approved)
    PROVE  IInv'
<1>1. /\ run \in [Drivers -> Held] /\ run[c] \in Held /\ run[c].pc = "opening"
      /\ DriverOK(run[c], store, transcript) /\ StoreOK(store)
  BY AtWork DEF OpenRun
<1>2. CASE store.revision # 0
  <2>1. End(c, "AlreadyExists") /\ UNCHANGED <<store, now, transcript, workers>>
    BY <1>2 DEF OpenRun
  <2>2. QED
    BY <2>1, EndStep DEF Outcomes
<1>3. CASE store.revision = 0
  <2> DEFINE i == Opened(approved)
             fact == FactOf("CeremonyInstanceStarted", Session, 0)
             r == Entered(run[c], i, 1, 1)
  <2>1. i \in Instance
    BY OpenedType, CallersAssumption
  <2>2. /\ i.state = InitialState /\ i.completed = FALSE /\ i.moves = <<>>
    BY DEF Opened
  <2>3. fact \in Fact
    BY DEF FactOf, Fact, SessionFacts
  <2>4. UNCHANGED <<now, transcript, workers>> /\ Commit(i, <<fact>>) /\ EnterRound(c, i, 1, 1)
    BY <1>3 DEF OpenRun
  <2> HIDE DEF i, fact
  <2>5. ~(1 > MaxIterations) /\ ~IsTerminal(i)
    BY <2>2, RoundsSuffice, StatesAssumption DEF IsTerminal
  <2>6. run' = [run EXCEPT ![c] = r]
    BY <1>1, <2>4, <2>5 DEF EnterRound, Entered, Held
  <2>7. store' = [revision |-> 1, instance |-> i, journal |-> store.journal \o <<fact>>]
    BY <1>3, <2>4 DEF Commit
  <2>8. /\ store.journal \o <<fact>> \in Seq(Fact)
        /\ transcript \in Seq(Steps) /\ DOMAIN transcript = {} /\ workers = {}
        /\ \A d \in Drivers : DriverOK(run[d], store, transcript)
    <3>1. store.instance = NoSession /\ store.journal \in Seq(Fact)
      BY <1>1, <1>3 DEF StoreOK
    <3>2. /\ TranscriptOK(transcript, store) /\ WorkersOK(workers, store, transcript)
          /\ \A d \in Drivers : DriverOK(run[d], store, transcript)
      BY DEF IInv
    <3>3. transcript \in Seq(Steps) /\ DOMAIN transcript = {} /\ workers = {}
      <4>1. transcript \in Seq(Steps) /\ workers = {}
        BY <3>1, <3>2 DEF TranscriptOK, WorkersOK
      <4>2. \A m \in DOMAIN transcript : FALSE
        BY <3>1, <3>2, Zenon DEF TranscriptOK, AllCompleted
      <4>3. DOMAIN transcript = {}
        BY <4>2, Zenon
      <4>4. QED
        BY <4>1, <4>3
    <3>4. store.journal \o <<fact>> \in Seq(Fact)
      BY <2>3, <3>1
    <3>5. QED
      BY <3>2, <3>3, <3>4
  <2>9. StoreOK(store') /\ store'.instance = i /\ store'.revision = 1
    BY <2>1, <2>2, <2>5, <2>7, <2>8, NoSessionAssumption DEF StoreOK, Sealed
  <2>10. run[c].trace = <<>> /\ run[c].outcome = "running"
    BY <1>1 DEF DriverOK, Placed
  <2>11. \A d \in Drivers : run[d].revision = 0
    BY <1>3, <2>8 DEF DriverOK, Placed, Held
  <2>12. DriverOK(r, store', transcript)
    <3>1. Carries(transcript, run[c].trace)
      BY <2>10 DEF Carries
    <3>2. 1 \in Nat /\ 1 <= Len(i.moves) + 1
      BY <2>2
    <3>3. \A p \in DOMAIN run[c].trace : FALSE
      BY <2>10
    <3> HIDE DEF r
    <3>4. r = Entered(run[c], i, store'.revision, 1)
      BY <2>9 DEF r
    <3>5. QED
      BY <1>1, <2>1, <2>5, <2>9, <2>10, <3>1, <3>2, <3>3, <3>4, EnterKeeps
  <2>13. ASSUME NEW d \in Drivers PROVE DriverOK(run[d], store', transcript')
    BY <2>4, <2>8, <2>9, <2>11, BystanderKeeps
  <2> HIDE DEF r
  <2>14. /\ StoreOK(store)' /\ transcript' = transcript /\ now' = now
         /\ workers' = workers
    BY <2>4, <2>9
  <2>15. DriverOK(r, store', transcript')
    BY <2>12, <2>14
  <2>16. TranscriptOK(transcript', store') /\ WorkersOK(workers', store', transcript')
    BY <2>8, <2>14 DEF TranscriptOK, Distinct, AllCompleted, WorkersOK
  <2>17. RecorderOK(r, transcript', workers')
    BY <2>8, <2>14 DEF RecorderOK
  <2>18. ASSUME NEW d \in Drivers PROVE RecorderOK(run[d], transcript', workers')
    BY <2>8, <2>14 DEF RecorderOK
  <2>19. QED
    BY <2>6, <2>11, <2>13, <2>14, <2>15, <2>16, <2>17, <2>18, OneDriver
<1>4. QED
  BY <1>2, <1>3

\* Passing over a completed step.
LEMMA SkipStepKeeps ==
    ASSUME IInv, NEW c \in Drivers, SkipStep(c)
    PROVE  IInv'
<1> DEFINE todo == Rest(run[c].todo)
           r == [run[c] EXCEPT !.todo = todo]
<1>1. /\ run \in [Drivers -> Held] /\ run[c] \in Held /\ run[c].pc = "stepping"
      /\ DriverOK(run[c], store, transcript)
  BY AtWork DEF SkipStep
<1>2. run' = [run EXCEPT ![c] = r] /\ UNCHANGED <<store, now, transcript, workers>>
  BY <1>1 DEF SkipStep, Held
<1>3. todo \in SUBSET run[c].todo
  BY DEF Rest
<1> HIDE DEF todo
<1>4. DriverOK(r, store, transcript) /\ r.revision = run[c].revision
  BY <1>1, <1>3, SkipKeeps
<1>5. r.pc = "stepping"
  BY <1>1 DEF Held
<1> HIDE DEF r
<1>6. RecorderOK(r, transcript, workers)
  BY <1>5 DEF RecorderOK, Owes
<1>7. QED
  BY <1>2, <1>4, <1>6, OnlyHolds

\* The claim.
LEMMA ClaimStepKeeps ==
    ASSUME IInv, NEW c \in Drivers, ClaimStep(c)
    PROVE  IInv'
<1> DEFINE step == StepAt(run[c].todo)
           key == RunKey(c, step)
           next == StartStep(run[c].session, step, key, now)
           lands == /\ CanStartStep(run[c].session, step, key, now)
                    /\ run[c].revision = store.revision
<1>1. /\ StoreOK(store) /\ now \in Nat /\ TranscriptOK(transcript, store)
      /\ WorkersOK(workers, store, transcript)
      /\ run \in [Drivers -> Held] /\ run[c] \in Held /\ run[c].pc = "stepping"
      /\ DriverOK(run[c], store, transcript)
      /\ run[c].revision # 0
      /\ run[c].session \in Instance
      /\ Len(run[c].session.moves) \in Nat
  BY AtWork DEF ClaimStep, Working
<1>2. /\ run[c].todo # {} /\ run[c].session.records[step].status # "Completed"
      /\ UNCHANGED <<now, transcript, workers>>
  BY DEF ClaimStep
<1>3. CASE ~lands
  <2>1. End(c, "Failed") /\ UNCHANGED store
    BY <1>3 DEF ClaimStep
  <2>2. QED
    BY <1>2, <2>1, EndStep DEF Outcomes
<1>4. CASE lands
  <2> DEFINE attempt == next.records[step].attempt
             fact == StepStarted(step, attempt)
             r == [run[c] EXCEPT !.pc = "running", !.session = next,
                                 !.revision = store.revision + 1, !.heard = transcript,
                                 !.attempt = attempt]
  <2>1. Commit(next, <<fact>>) /\ run' = [run EXCEPT ![c] = r]
    BY <1>1, <1>4 DEF ClaimStep, Held, HearTranscript
  <2>2. /\ run[c].session = store.instance /\ store.instance \in Instance
        /\ step \in Steps /\ key \in Keys
    BY <1>1, <1>2, <1>4, ClaimIsCurrent DEF RunKey
  <2> HIDE DEF key, step
  <2>3. Follows(store.instance, next) /\ next \in Instance
    BY <1>1, <1>4, <2>2, StartFollows DEF Follows
  <2> HIDE DEF next
  <2>4. attempt \in Nat \ {0}
    BY <2>2, <2>3 DEF Instance, StepRecord
  <2>5. <<fact>> \in Seq(Fact) /\ fact \in Range(<<fact>>)
    BY <2>2, <2>4 DEF StepStarted, FactOf, Fact, StepFacts, Range
  <2> HIDE DEF attempt, fact
  <2>6. store' = Committed(store, next, <<fact>>)
    BY <2>1 DEF Commit, Committed
  <2>7. Landed(store, store', next, <<fact>>)
    BY <1>1, <2>3, <2>5, <2>6, CommitKeepsStore
  <2>8. DriverOK(run[c], store', transcript)
    BY <1>1, <2>3, <2>5, <2>6, CommitKeepsDriver
  <2>9. /\ StoreOK(store') /\ next = store'.instance /\ store'.revision = store.revision + 1
        /\ Len(run[c].session.moves) <= Len(next.moves)
    BY <2>2, <2>3, <2>7 DEF Landed, Follows
  <2>10. DriverOK(r, store', transcript)
    <3>1. r = [run[c] EXCEPT !.pc = "running", !.session = next,
                             !.revision = store'.revision, !.heard = transcript,
                             !.attempt = attempt]
      BY <2>9
    <3> HIDE DEF r
    <3>2. StepStarted(StepAt(run[c].todo), attempt) \in Range(store'.journal)
      BY <2>5, <2>7 DEF Landed, fact, step
    <3>3. TranscriptOK(transcript, store')
      BY <1>1, <2>3, <2>7, CommitKeepsShared
    <3>4. QED
      BY <1>1, <1>2, <2>4, <2>8, <2>9, <3>1, <3>2, <3>3, ClaimKeeps
  <2>11. r.pc = "running"
    BY <1>1 DEF Held
  <2> HIDE DEF r
  <2>12. RecorderOK(r, transcript, workers)
    BY <2>11 DEF RecorderOK, Owes
  <2>13. QED
    BY <1>1, <1>2, <2>1, <2>3, <2>5, <2>10, <2>12, CommitStep
<1>5. QED
  BY <1>3, <1>4

\* The handler's answer.
LEMMA AnswerStepKeeps ==
    ASSUME IInv, NEW c \in Drivers, NEW status \in ResultStatus, HandlerReturns(c, status)
    PROVE  IInv'
<1> DEFINE r == Answered(run[c], status)
<1>1. /\ run \in [Drivers -> Held] /\ run[c] \in Held /\ run[c].pc = "running"
      /\ DriverOK(run[c], store, transcript)
  BY AtWork DEF HandlerReturns
<1>2. run' = [run EXCEPT ![c] = r] /\ UNCHANGED <<store, now, transcript, workers>>
  BY <1>1 DEF HandlerReturns, Held, Answered
<1>3. DriverOK(r, store, transcript) /\ r.revision = run[c].revision
  BY <1>1, AnswerKeeps
<1>4. r.pc = "reporting"
  BY <1>1 DEF Held, Answered
<1> HIDE DEF r
<1>5. RecorderOK(r, transcript, workers)
  BY <1>4 DEF RecorderOK, Owes
<1>6. QED
  BY <1>2, <1>3, <1>5, OnlyHolds

\* The report, on the session read again.
LEMMA ReportStepKeeps ==
    ASSUME IInv, NEW c \in Drivers, ReportStep(c)
    PROVE  IInv'
<1> DEFINE step == StepAt(run[c].todo)
           next == ApplyStepResult(store.instance, step, run[c].status)
<1>1. /\ StoreOK(store) /\ TranscriptOK(transcript, store)
      /\ WorkersOK(workers, store, transcript)
      /\ run \in [Drivers -> Held] /\ run[c] \in Held /\ run[c].pc = "reporting"
      /\ DriverOK(run[c], store, transcript)
      /\ run[c].revision # 0 /\ store.instance \in Instance
      /\ Len(run[c].session.moves) \in Nat /\ Len(store.instance.moves) \in Nat
      /\ Len(run[c].session.moves) <= Len(store.instance.moves)
  BY AtWork DEF ReportStep, Working
<1>2. UNCHANGED <<now, transcript, workers>>
  BY DEF ReportStep
<1>3. CASE ~CanApplyStepResult(store.instance, step)
  <2>1. End(c, "Failed") /\ UNCHANGED store
    BY <1>3 DEF ReportStep
  <2>2. QED
    BY <1>2, <2>1, EndStep DEF Outcomes
<1>4. CASE CanApplyStepResult(store.instance, step)
  <2> DEFINE fact == StepFinished(step, run[c].attempt, run[c].status)
             r == [run[c] EXCEPT !.pc = "recording", !.session = next,
                                 !.revision = store.revision + 1]
  <2>1. Commit(next, <<fact>>) /\ run' = [run EXCEPT ![c] = r]
    BY <1>1, <1>4 DEF ReportStep, Held
  <2>2. /\ run[c].todo # {} /\ run[c].attempt \in Nat \ {0} /\ run[c].status \in ResultStatus
        /\ run[c].todo \in SUBSET DOMAIN StepOrder
    BY <1>1 DEF DriverOK, StepInHand, InStep, Held
  <2>3. step \in Steps
    BY <2>2, StepIsDeclared
  <2>4. \A p \in DOMAIN run[c].trace : run[c].trace[p].step # step
    <3>1. store.instance.records[step].status = "InProgress"
      BY <1>4 DEF CanApplyStepResult
    <3>2. \A p \in DOMAIN run[c].trace :
            store.instance.records[run[c].trace[p].step].status = "Completed"
      BY <1>1 DEF DriverOK, TraceCompleted, TraceSound, Working
    <3>3. QED
      BY <3>1, <3>2
  <2>5. /\ Follows(store.instance, next) /\ next \in Instance
        /\ next.records[step].status = run[c].status
    BY <1>1, <1>4, <2>2, <2>3, ResultFollows DEF Follows
  <2>6. <<fact>> \in Seq(Fact)
    BY <2>2, <2>3 DEF StepFinished, FactOf, Fact, StepFacts
  <2>7. fact \in Range(<<fact>>)
    BY DEF Range
  <2>8. fact = StepFinished(step, run[c].attempt, run[c].status)
    OBVIOUS
  <2> HIDE DEF next, fact
  <2>9. store' = Committed(store, next, <<fact>>)
    BY <2>1 DEF Commit, Committed
  <2>10. Landed(store, store', next, <<fact>>)
    BY <1>1, <2>5, <2>6, <2>9, CommitKeepsStore
  <2>11. DriverOK(run[c], store', transcript)
    BY <1>1, <2>5, <2>6, <2>9, CommitKeepsDriver
  <2>12. Len(next.moves) \in Nat /\ Len(store.instance.moves) <= Len(next.moves)
    BY <2>5 DEF Follows, Instance
  <2>13. /\ StoreOK(store') /\ next = store'.instance /\ store'.revision = store.revision + 1
         /\ Len(run[c].session.moves) <= Len(next.moves)
         /\ StepFinished(step, run[c].attempt, run[c].status) \in Range(store'.journal)
    BY <1>1, <2>7, <2>8, <2>10, <2>12, SMTT(30) DEF Landed
  <2>14. DriverOK(r, store', transcript)
    <3>1. r = [run[c] EXCEPT !.pc = "recording", !.session = next,
                             !.revision = store'.revision]
      BY <2>13
    <3> HIDE DEF r
    <3>2. QED
      BY <1>1, <2>4, <2>5, <2>11, <2>13, <3>1, ReportKeeps
  <2>15. r.todo = run[c].todo
    BY <1>1 DEF Held
  <2> HIDE DEF r
  <2>16. RecorderOK(r, transcript, workers)
    <3>1. store.instance.records[step].status # "Completed"
      BY <1>4 DEF CanApplyStepResult
    <3>2. /\ \A m \in DOMAIN transcript : transcript[m] # step
          /\ \A w \in workers : w.pc = "appending" => w.step # step
      BY <1>1, <3>1 DEF TranscriptOK, AllCompleted, WorkersOK
    <3>3. QED
      BY <2>15, <3>2 DEF RecorderOK
  <2>17. QED
    BY <1>1, <1>2, <2>1, <2>5, <2>6, <2>14, <2>16, CommitStep
<1>5. QED
  BY <1>3, <1>4

\* A success goes into the transcript; any other result ends the run.
LEMMA RecordStepKeeps ==
    ASSUME IInv, NEW c \in Drivers, RecordStep(c)
    PROVE  IInv'
<1> DEFINE step == StepAt(run[c].todo)
           trace == Append(run[c].trace, EntryOf(run[c]))
<1>1. /\ StoreOK(store) /\ TranscriptOK(transcript, store) /\ transcript \in Seq(Steps)
      /\ WorkersOK(workers, store, transcript) /\ RecorderOK(run[c], transcript, workers)
      /\ run \in [Drivers -> Held] /\ run[c] \in Held /\ run[c].pc = "recording"
      /\ DriverOK(run[c], store, transcript)
      /\ run[c].revision # 0 /\ store.revision # 0 /\ store.revision \in Nat
      /\ store.instance \in Instance
  BY AtWork DEF RecordStep, Working
<1>2. UNCHANGED <<store, now, workers>> /\ Traced(c) = trace
  BY DEF RecordStep, Traced, EntryOf
<1>3. step \in Steps
  BY <1>1, EntryInHand
<1>4. CASE run[c].status # "Completed"
  <2> DEFINE r == StepFailed(run[c])
  <2>1. UNCHANGED transcript /\ run' = [run EXCEPT ![c] = r]
    BY <1>1, <1>2, <1>4 DEF RecordStep, Held, StepFailed
  <2>2. DriverOK(r, store, transcript) /\ r.revision = run[c].revision
    BY <1>1, FailureKeeps
  <2>3. r.pc = "ended"
    BY <1>1 DEF Held, StepFailed
  <2> HIDE DEF r
  <2>4. RecorderOK(r, transcript, workers)
    BY <2>3 DEF RecorderOK, Owes
  <2>5. QED
    BY <1>2, <2>1, <2>2, <2>4, OnlyHolds
<1>5. CASE run[c].status = "Completed"
  <2> DEFINE todo == Rest(run[c].todo)
             r == Recorded(run[c], todo)
  <2>1. transcript' = Append(transcript, step) /\ run' = [run EXCEPT ![c] = r]
    BY <1>1, <1>2, <1>5 DEF RecordStep, Held, Recorded
  <2>2. todo \in SUBSET run[c].todo
    BY DEF Rest
  <2> HIDE DEF todo
  <2>3. /\ \A m \in DOMAIN transcript : transcript[m] # step
        /\ \A w \in workers : w.pc = "appending" => w.step # step
        /\ store.instance.records[step].status = "Completed"
    BY <1>1, <1>5 DEF RecorderOK, Owes, DriverOK, StepInHand
  <2>4. DriverOK(r, store, Append(transcript, step)) /\ r.revision = run[c].revision
    BY <1>1, <1>5, <2>2, <2>3, RecordKeeps
  <2>5. r.pc = "stepping"
    BY <1>1 DEF Held, Recorded
  <2> HIDE DEF r, step
  <2>6. store.instance # NoSession
    BY <1>1, NoSessionAssumption
  <2>7. TranscriptOK(transcript', store)
    BY <1>1, <1>3, <2>1, <2>3, <2>6, TranscriptGrows
  <2>8. WorkersOK(workers, store, transcript')
    BY <1>1, <1>3, <2>1, <2>3, WorkersLeft
  <2>9. /\ \A d \in Drivers : DriverOK(run[d], store, transcript)
        /\ \A d \in Drivers \ {c} : run[d].revision = 0
    BY <1>1 DEF IInv, OneOpener
  <2>10. ASSUME NEW d \in Drivers \ {c}
         PROVE  DriverOK(run[d], store', transcript') /\ RecorderOK(run[d], transcript', workers')
    BY <1>1, <1>2, <2>9, BystanderKeeps, BystanderOwesNothing
  <2>11. RecorderOK(r, transcript', workers')
    BY <2>5 DEF RecorderOK, Owes
  <2>12. store' = store /\ now' = now /\ workers' = workers
    BY <1>2
  <2>13. /\ StoreOK(store)' /\ DriverOK(r, store', transcript')
         /\ TranscriptOK(transcript', store') /\ WorkersOK(workers', store', transcript')
    BY <1>1, <2>1, <2>4, <2>7, <2>8, <2>12
  <2>14. QED
    BY <2>1, <2>9, <2>10, <2>11, <2>12, <2>13, OneDriver
<1>6. QED
  BY <1>4, <1>5

\* The move on, and the top of the loop after it.
LEMMA TakeStepKeeps ==
    ASSUME IInv, NEW c \in Drivers, TakeTransition(c)
    PROVE  IInv'
<1> DEFINE first == NextSatisfiedTransition(run[c].state, run[c].session)
           trigger == TransitionOrder[CHOOSE p \in first : TRUE].trigger
           next == MoveOn(run[c].session, trigger)
           lands == CanMoveOn(run[c].session, trigger) /\ run[c].revision = store.revision
<1>1. /\ StoreOK(store)
      /\ run \in [Drivers -> Held] /\ run[c] \in Held /\ run[c].pc = "stepping"
      /\ DriverOK(run[c], store, transcript)
      /\ run[c].revision # 0 /\ run[c].outcome = "running"
      /\ run[c].session \in Instance /\ Len(run[c].session.moves) \in Nat
      /\ run[c].revision = store.revision => run[c].session = store.instance
      /\ store.revision \in Nat
  BY AtWork DEF TakeTransition, Working
<1>2. UNCHANGED <<now, transcript, workers>>
  BY DEF TakeTransition
<1>3. CASE first = {}
  <2>1. End(c, "NoTransition") /\ UNCHANGED store
    BY <1>3 DEF TakeTransition
  <2>2. QED
    BY <1>2, <2>1, EndStep DEF Outcomes
<1>4. CASE first # {} /\ ~lands
  <2>1. End(c, "Failed") /\ UNCHANGED store
    BY <1>4 DEF TakeTransition
  <2>2. QED
    BY <1>2, <2>1, EndStep DEF Outcomes
<1>5. CASE first # {} /\ lands
  <2> DEFINE facts == TransitionApplied(next)
             round == run[c].round + 1
             r == Entered(run[c], next, store.revision + 1, round)
  <2>1. Commit(next, facts) /\ EnterRound(c, next, store.revision + 1, round)
    BY <1>5 DEF TakeTransition
  <2>2. trigger \in Triggers
    <3>1. (CHOOSE p \in first : TRUE) \in DOMAIN TransitionOrder
      BY <1>5 DEF NextSatisfiedTransition
    <3> HIDE DEF first
    <3>2. TransitionOrder[CHOOSE p \in first : TRUE] \in Transitions
      BY <3>1, OrderAssumption
    <3>3. QED
      BY <3>2, TransitionsAssumption
  <2> HIDE DEF first, trigger
  <2>3. /\ Follows(store.instance, next) /\ next \in Instance
        /\ Len(next.moves) = Len(run[c].session.moves) + 1
    BY <1>1, <1>5, <2>2, MoveFollows DEF Follows
  <2> HIDE DEF next
  <2>4. facts \in Seq(Fact)
    <3>1. Len(next.moves) \in Nat
      BY <1>1, <2>3
    <3>2. /\ FactOf("TransitionApplied", Session, Len(next.moves)) \in Fact
          /\ FactOf("CeremonyCompleted", Session, Len(next.moves)) \in Fact
      BY <3>1 DEF FactOf, Fact, SessionFacts
    <3>3. QED
      BY <3>2 DEF TransitionApplied
  <2> HIDE DEF facts
  <2>5. store' = Committed(store, next, facts)
    BY <2>1 DEF Commit, Committed
  <2>6. Landed(store, store', next, facts)
    BY <1>1, <2>3, <2>4, <2>5, CommitKeepsStore
  <2>7. DriverOK(run[c], store', transcript)
    BY <1>1, <2>3, <2>4, <2>5, CommitKeepsDriver
  <2>8. /\ StoreOK(store') /\ store'.instance = next /\ store'.revision = store.revision + 1
    BY <2>6 DEF Landed
  <2>9. round \in Nat /\ round <= Len(next.moves) + 1
    <3>1. run[c].round \in Nat /\ run[c].round <= Len(run[c].session.moves) + 1
      BY <1>1 DEF DriverOK, RoundsMoved, Working, Held
    <3>2. QED
      BY <1>1, <2>3, <3>1
  <2> HIDE DEF round
  <2>10. run' = [run EXCEPT ![c] = r]
    BY <1>1, <2>1 DEF EnterRound, End, Entered, Held
  <2>11. TraceSound(run[c].trace, store', transcript)
    BY <1>1, <2>7 DEF DriverOK, TraceCompleted, Working
  <2>12. /\ Carries(transcript, run[c].trace)
         /\ \A p \in DOMAIN run[c].trace :
              /\ run[c].trace[p].status = "Completed"
              /\ next.records[run[c].trace[p].step].status = "Completed"
              /\ FactOfTrace(run[c].trace[p]) \in Range(store'.journal)
         /\ \A p, q \in DOMAIN run[c].trace :
              run[c].trace[p].step = run[c].trace[q].step => p = q
    BY <2>7, <2>8, <2>11 DEF TraceSound, DriverOK, TracedSealed
  <2>13. run[c].revision < store'.revision /\ Len(run[c].session.moves) <= Len(next.moves)
    BY <1>1, <1>5, <2>3, <2>8
  <2>14. r = Entered(run[c], next, store'.revision, round)
    BY <2>8
  <2> HIDE DEF r
  <2>15. DriverOK(r, store', transcript)
    BY <1>1, <2>3, <2>8, <2>9, <2>12, <2>13, <2>14, EnterKeeps
  <2>16. r.pc # "recording"
    BY <1>1, <2>14 DEF Entered, Held
  <2>17. RecorderOK(r, transcript, workers)
    BY <2>16 DEF RecorderOK, Owes
  <2>18. QED
    BY <1>1, <1>2, <2>1, <2>3, <2>4, <2>10, <2>15, <2>17, CommitStep
<1>6. QED
  BY <1>3, <1>4, <1>5

\* A commit of a client: what it must show of the clients at work after it.
LEMMA ClientCommitKeeps ==
    ASSUME IInv, NEW next, NEW facts \in Seq(Fact), Follows(store.instance, next),
           Commit(next, facts), UNCHANGED <<now, transcript, run>>,
           Landed(store, store', next, facts) /\ TranscriptOK(transcript, store')
             /\ WorkersOK(workers, store', transcript) => WorkersOK(workers', store', transcript),
           \A c \in Drivers : RecorderOK(run[c], transcript, workers')
    PROVE  IInv'
<1>1. /\ StoreOK(store) /\ now \in Nat /\ OneOpener /\ run \in [Drivers -> Held]
      /\ TranscriptOK(transcript, store) /\ WorkersOK(workers, store, transcript)
      /\ \A c \in Drivers : DriverOK(run[c], store, transcript)
  BY DEF IInv
<1>2. store' = Committed(store, next, facts)
  BY DEF Commit, Committed
<1>3. Landed(store, store', next, facts)
  BY <1>1, <1>2, CommitKeepsStore
<1>4. StoreOK(store')
  BY <1>3 DEF Landed
<1>5. TranscriptOK(transcript, store') /\ WorkersOK(workers, store', transcript)
  BY <1>1, <1>3, CommitKeepsShared
<1>6. WorkersOK(workers', store', transcript)
  BY <1>3, <1>5
<1>7. ASSUME NEW c \in Drivers PROVE DriverOK(run[c], store', transcript)
  BY <1>1, <1>2, CommitKeepsDriver
<1>8. transcript' = transcript /\ run' = run /\ now' = now
  OBVIOUS
<1>9. QED
  BY <1>1, <1>4, <1>5, <1>6, <1>7, <1>8 DEF IInv, OneOpener

\* A client's call, accepted on the stored session.
LEMMA ClientStepKeeps ==
    ASSUME IInv, NEW request \in Offered, ClientCall(request)
    PROVE  IInv'
<1> DEFINE next == After(request, store.instance, now)
           facts == FactsOf(request, next)
           w == [pc |-> "running", step |-> request.step, key |-> request.key,
                 attempt |-> next.records[request.step].attempt]
<1>1. /\ now \in Nat /\ store.instance \in Instance \cup {NoSession}
      /\ \A c \in Drivers : RecorderOK(run[c], transcript, workers)
  BY DEF IInv, StoreOK
<1>2. /\ Accepts(request, store.instance, now) /\ Commit(next, facts)
      /\ UNCHANGED <<now, transcript, run>>
      /\ workers' = IF request.kind # "RunStep" THEN workers ELSE workers \cup {w}
  BY DEF ClientCall
<1>3. request \in ClientCalls /\ request \in Calls
  BY CallersAssumption DEF Calls
<1>4. request.kind # "Open"
  BY <1>3 DEF ClientCalls, ClaimCalls, CompleteCalls, MoveCalls, GuardCalls
<1>5. store.instance \in Instance
  BY <1>1, <1>2, <1>4 DEF Accepts
<1>6. facts \in Seq(Fact)
  BY <1>1, <1>2, <1>3, AfterType
<1>7. Follows(store.instance, next)
  BY <1>1, <1>2, <1>3, <1>4, <1>5, CallFollows
<1>8. CASE request.kind # "RunStep"
  <2> HIDE DEF next, facts, w
  <2>1. workers' = workers
    BY <1>2, <1>8
  <2>2. QED
    BY <1>1, <1>2, <1>6, <1>7, <2>1, ClientCommitKeeps
<1>9. CASE request.kind = "RunStep"
  <2>1. request.step \in Steps /\ request.key \in Keys
    BY <1>3, <1>9 DEF ClientCalls, ClaimCalls, CompleteCalls, MoveCalls, GuardCalls
  <2>2. next \in Instance
    BY <1>7 DEF Follows
  <2>3. facts = <<StepStarted(request.step, next.records[request.step].attempt)>>
    <3> HIDE DEF next
    <3>1. QED
      BY <1>9 DEF FactsOf
  <2> HIDE DEF next, facts
  <2>4. next.records[request.step].attempt \in Nat \ {0}
    BY <2>1, <2>2 DEF Instance, StepRecord
  <2>5. /\ w \in Worker /\ w.pc = "running"
        /\ StepStarted(w.step, w.attempt) \in Range(facts)
    BY <2>1, <2>3, <2>4 DEF Worker, Range
  <2> HIDE DEF w
  <2>6. workers' = workers \cup {w}
    BY <1>2, <1>9
  <2>7. ASSUME Landed(store, store', next, facts), WorkersOK(workers, store', transcript)
        PROVE  WorkersOK(workers', store', transcript)
    <3>1. /\ StepStarted(w.step, w.attempt) \in Range(store'.journal)
          /\ store'.instance # NoSession
      BY <2>2, <2>5, <2>7, NoSessionAssumption DEF Landed
    <3>2. QED
      BY <2>5, <2>6, <2>7, <3>1 DEF WorkersOK
  <2>8. ASSUME NEW c \in Drivers PROVE RecorderOK(run[c], transcript, workers')
    BY <1>1, <2>5, <2>6 DEF RecorderOK
  <2>9. QED
    BY <1>2, <1>6, <1>7, <2>7, <2>8, ClientCommitKeeps
<1>10. QED
  BY <1>8, <1>9

\* A client's report: the step was in progress, so nobody else is to append it.
LEMMA ClientReportKeeps ==
    ASSUME IInv, NEW w \in workers, NEW status \in ResultStatus, ClientReports(w, status)
    PROVE  IInv'
<1> DEFINE next == ApplyStepResult(store.instance, w.step, status)
           fact == StepFinished(w.step, w.attempt, status)
           v == [w EXCEPT !.pc = "appending"]
           left == workers \ {w}
<1>1. /\ StoreOK(store) /\ TranscriptOK(transcript, store) /\ WorkersOK(workers, store, transcript)
      /\ \A c \in Drivers : /\ RecorderOK(run[c], transcript, workers)
                           /\ DriverOK(run[c], store, transcript)
  BY DEF IInv
<1>2. /\ CanApplyStepResult(store.instance, w.step) /\ Commit(next, <<fact>>)
      /\ workers' = IF status # "Completed" THEN left ELSE left \cup {v}
      /\ UNCHANGED <<now, transcript, run>>
  BY DEF ClientReports
<1>3. w \in Worker /\ store.instance \in Instance
  BY <1>1 DEF WorkersOK, StoreOK
<1>4. w.step \in Steps /\ w.attempt \in Nat \ {0}
  BY <1>3 DEF Worker
<1>5. /\ Follows(store.instance, next) /\ next \in Instance
      /\ next.records[w.step].status = status
  BY <1>2, <1>3, <1>4, ResultFollows DEF Follows
<1>6. <<fact>> \in Seq(Fact)
  BY <1>4 DEF StepFinished, FactOf, Fact, StepFacts
<1>7. /\ v \in Worker /\ v.step = w.step /\ v.attempt = w.attempt /\ v.pc = "appending"
  BY <1>3 DEF Worker
<1>8. store.instance.records[w.step].status # "Completed"
  BY <1>2 DEF CanApplyStepResult
<1> HIDE DEF next, fact, v, left
<1>9. left \subseteq workers
  BY DEF left
<1>10. CASE status # "Completed"
  <2>1. workers' = left
    BY <1>2, <1>10
  <2>2. ASSUME WorkersOK(workers, store', transcript) PROVE WorkersOK(workers', store', transcript)
    BY <1>9, <2>1, <2>2 DEF WorkersOK
  <2>3. ASSUME NEW c \in Drivers PROVE RecorderOK(run[c], transcript, workers')
    BY <1>1, <1>9, <2>1 DEF RecorderOK
  <2>4. QED
    BY <1>2, <1>5, <1>6, <2>2, <2>3, ClientCommitKeeps
<1>11. CASE status = "Completed"
  <2>1. workers' = left \cup {v}
    BY <1>2, <1>11
  <2>2. /\ \A m \in DOMAIN transcript : transcript[m] # w.step
        /\ \A u \in workers : u.pc = "appending" => u.step # w.step
    BY <1>1, <1>8 DEF TranscriptOK, AllCompleted, WorkersOK
  <2>3. StepStarted(w.step, w.attempt) \in Range(store.journal)
    BY <1>1 DEF WorkersOK
  <2>4. ASSUME Landed(store, store', next, <<fact>>), WorkersOK(workers, store', transcript)
        PROVE  WorkersOK(workers', store', transcript)
    <3>1. /\ store'.instance = next /\ store'.instance # NoSession
          /\ StepStarted(w.step, w.attempt) \in Range(store'.journal)
      BY <1>5, <2>3, <2>4, NoSessionAssumption DEF Landed
    <3>2. store'.instance.records[v.step].status = "Completed"
      BY <1>5, <1>7, <1>11, <3>1
    <3>3. /\ workers' \subseteq Worker
          /\ \A u \in workers' : StepStarted(u.step, u.attempt) \in Range(store'.journal)
      BY <1>7, <1>9, <2>1, <2>4, <3>1 DEF WorkersOK
    <3>4. ASSUME NEW u \in workers', u.pc = "appending"
          PROVE  /\ store'.instance.records[u.step].status = "Completed"
                 /\ \A m \in DOMAIN transcript : transcript[m] # u.step
                 /\ \A x \in workers' : x.pc = "appending" /\ x.step = u.step => x = u
      BY <1>7, <1>9, <2>1, <2>2, <2>4, <3>2, <3>4 DEF WorkersOK
    <3>5. QED
      BY <3>1, <3>3, <3>4 DEF WorkersOK
  <2>5. ASSUME NEW c \in Drivers PROVE RecorderOK(run[c], transcript, workers')
    <3>1. Owes(run[c]) => StepAt(run[c].todo) # w.step
      BY <1>1, <1>8 DEF Owes, DriverOK, StepInHand
    <3>2. QED
      BY <1>1, <1>7, <1>9, <2>1, <3>1 DEF RecorderOK
  <2>6. QED
    BY <1>2, <1>5, <1>6, <2>4, <2>5, ClientCommitKeeps
<1>12. QED
  BY <1>10, <1>11

\* A client's contribution: nobody had appended it, nobody else will.
LEMMA ClientAppendKeeps ==
    ASSUME IInv, NEW w \in workers, ClientAppends(w)
    PROVE  IInv'
<1> DEFINE step == w.step
<1>1. /\ StoreOK(store) /\ now \in Nat /\ OneOpener /\ run \in [Drivers -> Held]
      /\ TranscriptOK(transcript, store) /\ WorkersOK(workers, store, transcript)
      /\ \A c \in Drivers : /\ RecorderOK(run[c], transcript, workers)
                           /\ DriverOK(run[c], store, transcript)
  BY DEF IInv
<1>2. /\ w.pc = "appending" /\ transcript' = Append(transcript, step)
      /\ workers' = workers \ {w} /\ store' = store /\ now' = now /\ run' = run
  BY DEF ClientAppends
<1>3. /\ step \in Steps /\ store.instance # NoSession
      /\ store.instance.records[step].status = "Completed"
      /\ \A m \in DOMAIN transcript : transcript[m] # step
      /\ \A v \in workers' : v.pc = "appending" => v.step # step
      /\ workers' \in SUBSET workers
  BY <1>1, <1>2 DEF WorkersOK, Worker
<1>4. transcript \in Seq(Steps)
  BY <1>1 DEF TranscriptOK
<1>5. ASSUME NEW c \in Drivers, Owes(run[c]) PROVE StepAt(run[c].todo) # step
  BY <1>1, <1>2, <1>5 DEF RecorderOK
<1> HIDE DEF step
<1>6. TranscriptOK(transcript', store)
  BY <1>1, <1>2, <1>3, TranscriptGrows
<1>7. WorkersOK(workers', store, transcript')
  BY <1>1, <1>2, <1>3, <1>4, WorkersLeft
<1>8. ASSUME NEW c \in Drivers PROVE DriverOK(run[c], store, transcript')
  BY <1>1, <1>2, <1>3, <1>4, AppendKeepsDriver
<1>9. ASSUME NEW c \in Drivers PROVE RecorderOK(run[c], transcript', workers')
  <2>1. SUFFICES ASSUME Owes(run[c]) PROVE RecorderOK(run[c], transcript', workers')
    BY DEF RecorderOK
  <2>2. /\ \A m \in DOMAIN transcript : transcript[m] # StepAt(run[c].todo)
        /\ \A v \in workers' : v.pc = "appending" => v.step # StepAt(run[c].todo)
    BY <1>1, <1>3, <2>1 DEF RecorderOK
  <2>3. \A m \in DOMAIN transcript' :
            \/ m \in DOMAIN transcript /\ transcript'[m] = transcript[m]
            \/ transcript'[m] = step
    <3>1. /\ Len(transcript) \in Nat /\ DOMAIN transcript = 1..Len(transcript)
          /\ DOMAIN transcript' = 1..(Len(transcript) + 1)
          /\ transcript'[Len(transcript) + 1] = step
          /\ \A m \in DOMAIN transcript : transcript'[m] = transcript[m]
      BY <1>2, <1>3, <1>4, TranscriptAppend
    <3>2. QED
      BY <3>1
  <2>4. QED
    BY <1>5, <2>1, <2>2, <2>3 DEF RecorderOK
<1>10. QED
  BY <1>1, <1>2, <1>6, <1>7, <1>8, <1>9 DEF IInv, OneOpener

\* A client that leaves appends nothing.
LEMMA ClientLeaveKeeps ==
    ASSUME IInv, NEW w \in workers, ClientLeaves(w)
    PROVE  IInv'
<1>1. /\ workers' \subseteq workers /\ store' = store /\ now' = now /\ run' = run
      /\ transcript' = transcript
  BY DEF ClientLeaves
<1>2. WorkersOK(workers', store, transcript)
  BY <1>1 DEF IInv, WorkersOK
<1>3. \A c \in Drivers : RecorderOK(run[c], transcript, workers')
  BY <1>1 DEF IInv, RecorderOK
<1>4. QED
  BY <1>1, <1>2, <1>3 DEF IInv, OneOpener

\* Every step keeps the invariant.
LEMMA NextIInv == IInv /\ [Next]_vars => IInv'
<1> SUFFICES ASSUME IInv, [Next]_vars PROVE IInv'
  OBVIOUS
<1>1. CASE UNCHANGED vars
  <2>1. /\ store' = store /\ now' = now /\ transcript' = transcript /\ run' = run
        /\ workers' = workers
    BY <1>1 DEF vars
  <2>2. QED
    BY <2>1 DEF IInv, OneOpener
<1>2. ASSUME NEW c \in Drivers, Drive(c) PROVE IInv'
  BY <1>2, CheckStep, OpenStep, SkipStepKeeps, ClaimStepKeeps, ReportStepKeeps,
     RecordStepKeeps, TakeStepKeeps DEF Drive
<1>3. ASSUME NEW c \in Drivers, NEW status \in ResultStatus, HandlerReturns(c, status)
      PROVE  IInv'
  BY <1>3, AnswerStepKeeps
<1>4. ASSUME NEW c \in Drivers, Abandon(c) PROVE IInv'
  BY <1>4, EndStep DEF Abandon, Outcomes
<1>5. ASSUME NEW request \in Offered, ClientCall(request) PROVE IInv'
  BY <1>5, ClientStepKeeps
<1>6. CASE Tick
  <2>1. /\ store' = store /\ now' = now + 1 /\ transcript' = transcript /\ run' = run
        /\ workers' = workers
    BY <1>6 DEF Tick
  <2>2. QED
    BY <2>1 DEF IInv, OneOpener
<1>7. CASE Done
  BY <1>1, <1>7 DEF Done
<1>8. ASSUME NEW w \in workers,
             \/ \E status \in ResultStatus : ClientReports(w, status)
             \/ ClientAppends(w) \/ ClientLeaves(w)
      PROVE  IInv'
  BY <1>8, ClientReportKeeps, ClientAppendKeeps, ClientLeaveKeeps
<1>9. QED
  BY <1>1, <1>2, <1>3, <1>4, <1>5, <1>6, <1>7, <1>8 DEF Next

\* The invariant holds of every run of the drivers.
THEOREM RunInvariant == Spec => []IInv
<1>1. QED
  BY InitIInv, NextIInv, PTL DEF Spec

(***************************************************************************)
(* A run that reports success holds the stored session, finished; what any *)
(* run traced is in the journal; and the round limit of the driver         *)
(* (run_ceremony_use_case.rs, max_iterations) stops only runs whose        *)
(* session was in some state twice.                                        *)
(***************************************************************************)
THEOREM RunNeverMisreports == Spec => []RunReportsTruly
<1>1. IInv => RunReportsTruly
  <2> SUFFICES ASSUME IInv PROVE RunReportsTruly
    OBVIOUS
  <2>1. ASSUME NEW c \in Drivers, run[c].outcome = "Completed"
        PROVE  run[c].session = store.instance /\ store.instance.completed
    <3>1. /\ run[c].session = store.instance /\ IsTerminal(run[c].session)
          /\ run[c].revision # 0 /\ run[c].session \in Instance
      BY <2>1 DEF IInv, DriverOK, EndedOnStored, Placed, InHand
    <3>2. store.instance # NoSession
      BY <3>1, NoSessionAssumption
    <3>3. Sealed(store.instance)
      BY <3>2 DEF IInv, StoreOK
    <3>4. QED
      BY <3>1, <3>3 DEF Sealed, Instance
  <2>2. ASSUME NEW c \in Drivers, NEW p \in DOMAIN run[c].trace
        PROVE  StepFinished(run[c].trace[p].step, run[c].trace[p].attempt,
                            run[c].trace[p].status) \in Range(store.journal)
    BY <2>2 DEF IInv, DriverOK, TracedSealed, FactOfTrace
  <2>3. RunToldTheTruth
    BY <2>1, <2>2 DEF RunToldTheTruth
  <2>4. ASSUME NEW c \in Drivers, run[c].outcome = "IterationLimit"
        PROVE  \E p, q \in DOMAIN store.instance.moves :
                 p # q /\ store.instance.moves[p].to = store.instance.moves[q].to
    <3>1. /\ Len(store.instance.moves) > Cardinality(States)
          /\ run[c].revision # 0 /\ run[c].revision <= store.revision
          /\ run[c].revision \in Nat /\ store.revision \in Nat
      BY <2>4 DEF IInv, DriverOK, RoundsMoved, Placed, Held, StoreOK
    <3>2. store.revision # 0
      BY <3>1
    <3>3. store.instance \in Instance
      BY <3>2 DEF IInv, StoreOK
    <3>4. QED
      BY <3>1, <3>3, MovesLoop
  <2>5. LimitMeansLoop
    BY <2>4 DEF LimitMeansLoop
  <2>6. QED
    BY <2>3, <2>5 DEF RunReportsTruly
<1>2. QED
  BY <1>1, RunInvariant, PTL

(***************************************************************************)
(* The handler of a step is given all that the run completed before it,    *)
(* once each and in order, and beside it only contributions of steps that  *)
(* clients completed in the same session, although they write to the       *)
(* transcript too, after their commits and at any time                     *)
(* (run_ceremony_use_case.rs reads it before every claim;                  *)
(* run_ceremony_step_use_case.rs appends to it).                           *)
(***************************************************************************)
THEOREM RunHeardAll == Spec => []HeardWhatCameBefore
<1>1. IInv => HeardWhatCameBefore
  <2> SUFFICES ASSUME IInv PROVE HeardWhatCameBefore
    OBVIOUS
  <2>1. \A c \in Drivers : run[c].pc = "running" =>
          /\ Distinct(run[c].heard) /\ Carries(run[c].heard, run[c].trace)
          /\ AllCompleted(run[c].heard, store)
    BY DEF IInv, DriverOK, TraceCompleted, Working
  <2>2. QED
    BY <2>1 DEF HeardWhatCameBefore, Distinct, Carries, AllCompleted
<1>2. QED
  BY <1>1, RunInvariant, PTL

-----------------------------------------------------------------------------
(***************************************************************************)
(* The driven session implements the atomic one. A driver commits on the   *)
(* session it carries only while that is the stored one, and a result on   *)
(* the session it read again; so each commit is a call on what is stored.  *)
(***************************************************************************)

\* The aggregate's operators are the same on both sides.
LEMMA SameAccepts ==
    \A request, i, t : Atomic!Accepts(request, i, t) <=> Accepts(request, i, t)
  BY DEF Atomic!Accepts, Accepts, Atomic!CanStartStep, CanStartStep,
         Atomic!IsTerminal, IsTerminal, Atomic!CanBeStartedAt, CanBeStartedAt,
         Atomic!AllowsAttempt, AllowsAttempt,
         Atomic!NextAttemptForStart, NextAttemptForStart,
         Atomic!CanApplyStepResult, CanApplyStepResult, Atomic!CanMoveOn, CanMoveOn,
         Atomic!GuardsAreSatisfied, GuardsAreSatisfied,
         Atomic!GuardSatisfied, GuardSatisfied,
         Atomic!TransitionForTrigger, TransitionForTrigger,
         Atomic!CanApproveGuard, CanApproveGuard, Atomic!CanDeferGuard, CanDeferGuard,
         Atomic!IsHumanGuard, IsHumanGuard

LEMMA SameAfter ==
    \A request, i, t : Atomic!After(request, i, t) = After(request, i, t)
  BY DEF Atomic!After, After, Atomic!Opened, Opened, Atomic!StartStep, StartStep,
         Atomic!WithStarted, WithStarted, Atomic!NextAttemptForStart, NextAttemptForStart,
         Atomic!ApplyStepResult, ApplyStepResult, Atomic!WithResult, WithResult,
         Atomic!MoveOn, MoveOn, Atomic!TransitionForTrigger, TransitionForTrigger,
         Atomic!ApproveGuard, ApproveGuard, Atomic!DeferGuard, DeferGuard

LEMMA SameFacts ==
    \A request, i : Atomic!FactsOf(request, i) = FactsOf(request, i)
  BY DEF Atomic!FactsOf, FactsOf, Atomic!FactOf, FactOf, Atomic!Session, Session,
         Atomic!StepStarted, StepStarted, Atomic!StepFinished, StepFinished,
         Atomic!TransitionApplied, TransitionApplied, Atomic!IsTerminal, IsTerminal

\* Committing the effect of an accepted call performs it.
LEMMA CommitPerforms ==
    ASSUME NEW request, Accepts(request, store.instance, now),
           NEW next, next = After(request, store.instance, now),
           NEW facts, facts = FactsOf(request, next), Commit(next, facts), now' = now
    PROVE  Atomic!Perform(request, now)
<1>1. store'.instance = next /\ store'.journal = store.journal \o facts
  BY DEF Commit
<1>2. QED
  BY <1>1, SameAccepts, SameAfter, SameFacts DEF Atomic!Perform

\* Opening.
LEMMA OpenRefines ==
    ASSUME IInv, NEW c \in Drivers, NEW approved \in Contexts, OpenRun(c, approved),
           store' # store
    PROVE  Atomic!Next
<1> DEFINE request == OpenWith(approved)
<1>1. store.revision = 0 /\ now' = now /\ now \in 0..now
  BY DEF OpenRun, IInv
<1>2. store.instance = NoSession
  BY <1>1 DEF IInv, StoreOK
<1>3. request \in Atomic!OpenCalls
  BY CallersAssumption DEF OpenWith, Atomic!OpenCalls
<1>4. Atomic!Perform(request, now)
  <2>1. /\ Accepts(request, store.instance, now)
        /\ After(request, store.instance, now) = Opened(approved)
        /\ FactsOf(request, Opened(approved)) = <<FactOf("CeremonyInstanceStarted", Session, 0)>>
    BY <1>2 DEF Accepts, After, FactsOf, OpenWith
  <2>2. Commit(Opened(approved), <<FactOf("CeremonyInstanceStarted", Session, 0)>>)
    BY <1>1 DEF OpenRun
  <2> HIDE DEF request
  <2>3. QED
    BY <1>1, <2>1, <2>2, CommitPerforms
<1>5. QED
  BY <1>1, <1>3, <1>4 DEF Atomic!OpenSession, Atomic!Next

\* Claiming a step.
LEMMA ClaimRefines ==
    ASSUME IInv, NEW c \in Drivers, ClaimStep(c), store' # store
    PROVE  Atomic!Next
<1> DEFINE step == StepAt(run[c].todo)
           key == RunKey(c, step)
           request == [kind |-> "StartStep", step |-> step, key |-> key]
           next == StartStep(run[c].session, step, key, now)
           fact == StepStarted(step, next.records[step].attempt)
<1>1. /\ StoreOK(store) /\ now \in Nat /\ run[c].pc = "stepping"
      /\ DriverOK(run[c], store, transcript)
  BY AtWork DEF ClaimStep
<1>2. /\ run[c].todo # {} /\ run[c].session.records[step].status # "Completed"
      /\ now' = now
      /\ CanStartStep(run[c].session, step, key, now) /\ run[c].revision = store.revision
      /\ Commit(next, <<fact>>)
  BY DEF ClaimStep
<1>3. /\ run[c].session = store.instance /\ store.instance \in Instance
      /\ step \in Steps /\ key \in Keys
  BY <1>1, <1>2, ClaimIsCurrent DEF RunKey
<1> HIDE DEF step, key
<1>4. request \in Atomic!ClaimCalls
  BY <1>3 DEF Atomic!ClaimCalls
<1>5. Atomic!Perform(request, now)
  <2>1. /\ Accepts(request, store.instance, now)
        /\ After(request, store.instance, now) = next
        /\ FactsOf(request, next) = <<fact>>
    BY <1>2, <1>3, NoSessionAssumption DEF Accepts, After, FactsOf
  <2> HIDE DEF request, next, fact
  <2>2. QED
    BY <1>2, <2>1, CommitPerforms
<1>6. now \in 0..now
  BY <1>1
<1> HIDE DEF request
<1>7. QED
  BY <1>4, <1>5, <1>6 DEF Atomic!ClaimStep, Atomic!Next

\* Reporting on a step, under the attempt that was claimed.
LEMMA ReportRefines ==
    ASSUME IInv, NEW c \in Drivers, ReportStep(c), store' # store
    PROVE  Atomic!Next
<1> DEFINE step == StepAt(run[c].todo)
           claim == StepStarted(step, run[c].attempt)
           request == [kind |-> "FinishStep", step |-> step, status |-> run[c].status,
                       attempt |-> run[c].attempt]
           next == ApplyStepResult(store.instance, step, run[c].status)
           fact == StepFinished(step, run[c].attempt, run[c].status)
<1>1. /\ now \in Nat /\ run[c].pc = "reporting" /\ store.instance \in Instance
      /\ DriverOK(run[c], store, transcript)
  BY AtWork DEF ReportStep, Working
<1>2. CanApplyStepResult(store.instance, step) /\ Commit(next, <<fact>>) /\ now' = now
  BY DEF ReportStep
<1>3. claim \in Range(store.journal) /\ run[c].status \in ResultStatus
  BY <1>1 DEF DriverOK, TracedSealed, StepInHand
<1>4. claim.type = "StepStarted" /\ claim.about = step /\ claim.number = run[c].attempt
  BY DEF StepStarted, FactOf
<1>5. Atomic!Perform(request, now)
  <2>1. /\ Accepts(request, store.instance, now)
        /\ After(request, store.instance, now) = next
        /\ FactsOf(request, next) = <<fact>>
    BY <1>1, <1>2, NoSessionAssumption DEF Accepts, After, FactsOf
  <2> HIDE DEF request, next, fact
  <2>2. QED
    BY <1>2, <2>1, CommitPerforms
<1>6. now \in 0..now
  BY <1>1
<1>7. request = [kind |-> "FinishStep", step |-> claim.about, status |-> run[c].status,
                 attempt |-> claim.number]
  BY <1>4
<1>8. run[c].status \in Atomic!ResultStatus /\ claim \in Atomic!Range(store.journal)
  BY <1>3 DEF ResultStatus, Atomic!ResultStatus, StepStatus, Atomic!StepStatus,
              Range, Atomic!Range
<1> HIDE DEF request, claim, step
<1>9. Atomic!FinishStep
  BY <1>4, <1>5, <1>6, <1>7, <1>8 DEF Atomic!FinishStep
<1>10. QED
  BY <1>9 DEF Atomic!Next

\* Moving on.
LEMMA TakeRefines ==
    ASSUME IInv, NEW c \in Drivers, TakeTransition(c), store' # store
    PROVE  Atomic!Next
<1> DEFINE first == NextSatisfiedTransition(run[c].state, run[c].session)
           trigger == TransitionOrder[CHOOSE p \in first : TRUE].trigger
           request == [kind |-> "ApplyTransition", trigger |-> trigger]
           next == MoveOn(run[c].session, trigger)
<1>1. /\ now \in Nat /\ run[c].session \in Instance
      /\ run[c].revision = store.revision => run[c].session = store.instance
  BY AtWork DEF TakeTransition, Working
<1>2. /\ first # {} /\ CanMoveOn(run[c].session, trigger) /\ run[c].revision = store.revision
      /\ Commit(next, TransitionApplied(next)) /\ now' = now
  BY DEF TakeTransition
<1>3. trigger \in Triggers
  <2>1. (CHOOSE p \in first : TRUE) \in DOMAIN TransitionOrder
    BY <1>2 DEF NextSatisfiedTransition
  <2> HIDE DEF first
  <2>2. TransitionOrder[CHOOSE p \in first : TRUE] \in Transitions
    BY <2>1, OrderAssumption
  <2>3. QED
    BY <2>2, TransitionsAssumption
<1> HIDE DEF first, trigger
<1>4. request \in Atomic!MoveCalls
  BY <1>3 DEF Atomic!MoveCalls
<1>5. Atomic!Perform(request, now)
  <2>1. /\ Accepts(request, store.instance, now)
        /\ After(request, store.instance, now) = next
        /\ FactsOf(request, next) = TransitionApplied(next)
    BY <1>1, <1>2, NoSessionAssumption DEF Accepts, After, FactsOf
  <2> HIDE DEF request, next
  <2>2. QED
    BY <1>2, <2>1, CommitPerforms
<1>6. now \in 0..now
  BY <1>1
<1> HIDE DEF request
<1>7. QED
  BY <1>4, <1>5, <1>6 DEF Atomic!ApplyTransition, Atomic!Next

\* A client's call is one of the calls of the atomic session.
LEMMA ClientRefines ==
    ASSUME IInv, NEW request \in Offered, ClientCall(request)
    PROVE  Atomic!Next
<1>1. Atomic!Perform(request, now)
  BY CommitPerforms DEF ClientCall
<1>2. now \in 0..now
  BY DEF IInv
<1>3. CASE request \in ClaimCalls
  BY <1>1, <1>2, <1>3 DEF Atomic!ClaimStep, Atomic!Next, ClaimCalls, Atomic!ClaimCalls
<1>4. CASE request \in CompleteCalls
  <2>1. request \in Atomic!CompleteCalls
    BY <1>4 DEF CompleteCalls, Atomic!CompleteCalls, ResultStatus, Atomic!ResultStatus,
                StepStatus, Atomic!StepStatus
  <2>2. QED
    BY <1>1, <1>2, <2>1 DEF Atomic!CompleteStep, Atomic!Next
<1>5. CASE request \in MoveCalls
  BY <1>1, <1>2, <1>5 DEF Atomic!ApplyTransition, Atomic!Next, MoveCalls, Atomic!MoveCalls
<1>6. CASE request \in GuardCalls
  BY <1>1, <1>2, <1>6 DEF Atomic!DecideGuard, Atomic!Next, GuardCalls, Atomic!GuardCalls
<1>7. QED
  BY <1>3, <1>4, <1>5, <1>6, CallersAssumption DEF ClientCalls

\* A client's report, under the attempt its claim returned.
LEMMA ClientReportRefines ==
    ASSUME IInv, NEW w \in workers, NEW status \in ResultStatus, ClientReports(w, status)
    PROVE  Atomic!Next
<1> DEFINE claim == StepStarted(w.step, w.attempt)
           request == [kind |-> "FinishStep", step |-> w.step, status |-> status,
                       attempt |-> w.attempt]
           next == ApplyStepResult(store.instance, w.step, status)
           fact == StepFinished(w.step, w.attempt, status)
<1>1. now \in Nat /\ claim \in Range(store.journal) /\ store.instance # NoSession
  BY DEF IInv, WorkersOK
<1>2. CanApplyStepResult(store.instance, w.step) /\ Commit(next, <<fact>>) /\ now' = now
  BY DEF ClientReports
<1>3. claim.type = "StepStarted" /\ claim.about = w.step /\ claim.number = w.attempt
  BY DEF StepStarted, FactOf
<1>4. Atomic!Perform(request, now)
  <2>1. /\ Accepts(request, store.instance, now)
        /\ After(request, store.instance, now) = next
        /\ FactsOf(request, next) = <<fact>>
    BY <1>1, <1>2 DEF Accepts, After, FactsOf
  <2> HIDE DEF request, next, fact
  <2>2. QED
    BY <1>2, <2>1, CommitPerforms
<1>5. now \in 0..now
  BY <1>1
<1>6. request = [kind |-> "FinishStep", step |-> claim.about, status |-> status,
                 attempt |-> claim.number]
  BY <1>3
<1>7. status \in Atomic!ResultStatus /\ claim \in Atomic!Range(store.journal)
  BY <1>1 DEF ResultStatus, Atomic!ResultStatus, StepStatus, Atomic!StepStatus,
              Range, Atomic!Range
<1> HIDE DEF request, claim
<1>8. Atomic!FinishStep
  BY <1>3, <1>4, <1>5, <1>6, <1>7 DEF Atomic!FinishStep
<1>9. QED
  BY <1>8 DEF Atomic!Next

\* Every step is a step of the atomic session or leaves it alone.
LEMMA DriverRefines ==
    ASSUME IInv, [Next]_vars
    PROVE  [Atomic!Next]_(Atomic!vars)
<1>1. ASSUME store' = store /\ now' = now PROVE UNCHANGED Atomic!vars
  BY <1>1 DEF Atomic!vars
<1>2. CASE Tick
  BY <1>2 DEF Tick, Atomic!Tick, Atomic!Next
<1>3. ASSUME NEW c \in Drivers, Drive(c) PROVE [Atomic!Next]_(Atomic!vars)
  <2>1. now' = now
    BY <1>3 DEF Drive, Check, OpenRun, SkipStep, ClaimStep, ReportStep, RecordStep,
                TakeTransition
  <2>2. CASE store' # store
    <3>1. \/ \E approved \in Contexts : OpenRun(c, approved)
          \/ ClaimStep(c) \/ ReportStep(c) \/ TakeTransition(c)
      BY <1>3, <2>2 DEF Drive, Check, SkipStep, RecordStep
    <3>2. QED
      BY <2>2, <3>1, OpenRefines, ClaimRefines, ReportRefines, TakeRefines
  <2>3. QED
    BY <1>1, <2>1, <2>2
<1>4. ASSUME NEW c \in Drivers,
             Abandon(c) \/ \E status \in ResultStatus : HandlerReturns(c, status)
      PROVE  UNCHANGED Atomic!vars
  BY <1>1, <1>4 DEF Abandon, HandlerReturns
<1>5. ASSUME NEW request \in Offered, ClientCall(request) PROVE Atomic!Next
  BY <1>5, ClientRefines
<1>6. CASE UNCHANGED vars
  BY <1>1, <1>6 DEF vars
<1>7. ASSUME NEW w \in workers, \E status \in ResultStatus : ClientReports(w, status)
      PROVE  Atomic!Next
  BY <1>7, ClientReportRefines
<1>8. ASSUME NEW w \in workers, ClientAppends(w) \/ ClientLeaves(w)
      PROVE  UNCHANGED Atomic!vars
  BY <1>1, <1>8 DEF ClientAppends, ClientLeaves
<1>9. QED
  BY <1>2, <1>3, <1>4, <1>5, <1>6, <1>7, <1>8 DEF Next, Done

(***************************************************************************)
(* Driving a ceremony is a sequence of session calls, each applied to the  *)
(* session as it stands, for any definition, drivers and clients           *)
(* (run_ceremony_use_case.rs).                                             *)
(***************************************************************************)
THEOREM DrivenSessionsAreAtomic == Spec => DrivenSessionIsAtomic
<1>1. Init => Atomic!Init
  BY DEF Init, Atomic!Init
<1>2. QED
  BY <1>1, DriverRefines, RunInvariant, PTL DEF Spec, DrivenSessionIsAtomic, Atomic!Spec

-----------------------------------------------------------------------------
\* The specification the theorems of the atomic session are about is the one implemented.
LEMMA SameSpec == Atomic!Spec => Proofs!Spec
  BY PTL DEF Atomic!Spec, Proofs!Spec, Atomic!Init, Proofs!Init, Atomic!Next, Proofs!Next,
             Atomic!vars, Proofs!vars, Atomic!Tick, Proofs!Tick,
             Atomic!OpenSession, Proofs!OpenSession, Atomic!ClaimStep, Proofs!ClaimStep,
             Atomic!CompleteStep, Proofs!CompleteStep,
             Atomic!FinishStep, Proofs!FinishStep,
             Atomic!ApplyTransition, Proofs!ApplyTransition,
             Atomic!DecideGuard, Proofs!DecideGuard, Atomic!Perform, Proofs!Perform,
             Atomic!Accepts, Proofs!Accepts, Atomic!After, Proofs!After,
             Atomic!FactsOf, Proofs!FactsOf, Atomic!Opened, Proofs!Opened,
             Atomic!CanStartStep, Proofs!CanStartStep,
             Atomic!CanBeStartedAt, Proofs!CanBeStartedAt,
             Atomic!NextAttemptForStart, Proofs!NextAttemptForStart,
             Atomic!AllowsAttempt, Proofs!AllowsAttempt,
             Atomic!StartStep, Proofs!StartStep, Atomic!WithStarted, Proofs!WithStarted,
             Atomic!CanApplyStepResult, Proofs!CanApplyStepResult,
             Atomic!WithResult, Proofs!WithResult,
             Atomic!ApplyStepResult, Proofs!ApplyStepResult,
             Atomic!IsTerminal, Proofs!IsTerminal,
             Atomic!IsHumanGuard, Proofs!IsHumanGuard,
             Atomic!CanApproveGuard, Proofs!CanApproveGuard,
             Atomic!ApproveGuard, Proofs!ApproveGuard,
             Atomic!CanDeferGuard, Proofs!CanDeferGuard,
             Atomic!DeferGuard, Proofs!DeferGuard,
             Atomic!GuardSatisfied, Proofs!GuardSatisfied,
             Atomic!GuardsAreSatisfied, Proofs!GuardsAreSatisfied,
             Atomic!TransitionForTrigger, Proofs!TransitionForTrigger,
             Atomic!CanMoveOn, Proofs!CanMoveOn, Atomic!MoveOn, Proofs!MoveOn,
             Atomic!FactOf, Proofs!FactOf, Atomic!StepStarted, Proofs!StepStarted,
             Atomic!StepFinished, Proofs!StepFinished,
             Atomic!TransitionApplied, Proofs!TransitionApplied,
             Atomic!Session, Proofs!Session, Atomic!OpenCalls, Proofs!OpenCalls,
             Atomic!ClaimCalls, Proofs!ClaimCalls,
             Atomic!CompleteCalls, Proofs!CompleteCalls,
             Atomic!MoveCalls, Proofs!MoveCalls, Atomic!GuardCalls, Proofs!GuardCalls,
             Atomic!ResultStatus, Proofs!ResultStatus,
             Atomic!StepStatus, Proofs!StepStatus, Atomic!Range, Proofs!Range

\* What AtomicSession promises of a session and its journal.
SessionPromises ==
    /\ Atomic!JournalAgreesWithSession
    /\ Atomic!OutcomesSealedOnce
    /\ Atomic!EndingFollowsClaim
    /\ Atomic!StateAccountedFor
    /\ Atomic!ClosedOnceCompleted
    /\ Atomic!ClaimsWithinPolicy

(***************************************************************************)
(* A driven session keeps all of it: while drivers and clients work on it  *)
(* at once, its journal tells its story, nothing is completed, moved or    *)
(* finished twice, an ending follows its claim, the moves account for the  *)
(* state, nothing follows the end and no step exceeds its retries          *)
(* (run_ceremony_use_case.rs, session_journal.rs).                         *)
(***************************************************************************)
THEOREM DrivenSessionsKeepTheirPromises == Spec => []SessionPromises
<1>1. Spec => [](/\ Proofs!JournalAgreesWithSession /\ Proofs!OutcomesSealedOnce
                 /\ Proofs!EndingFollowsClaim /\ Proofs!StateAccountedFor
                 /\ Proofs!ClosedOnceCompleted /\ Proofs!ClaimsWithinPolicy)
  BY DrivenSessionsAreAtomic, SameSpec, StatesAssumption, StepsAssumption,
     TransitionsAssumption, LeaseTtlAssumption, NoLeaseAssumption, NoSessionAssumption,
     Proofs!JournalAlwaysAgrees, Proofs!OutcomesAreSealedOnce, Proofs!EndingsFollowClaims,
     Proofs!StateIsAccountedFor, Proofs!FinishedIsClosed, Proofs!ClaimsStayWithinPolicy, PTL
     DEF DrivenSessionIsAtomic, GuardConditions, Proofs!GuardConditions, Lease, Proofs!Lease,
         Instance, Proofs!Instance, StepRecord, Proofs!StepRecord, Move, Proofs!Move,
         StepStatus, Proofs!StepStatus
<1>2. Proofs!JournalAgreesWithSession <=> Atomic!JournalAgreesWithSession
  BY DEF Proofs!JournalAgreesWithSession, Atomic!JournalAgreesWithSession,
         Proofs!StartsAgree, Atomic!StartsAgree,
         Proofs!CompletionsAgree, Atomic!CompletionsAgree, Proofs!MovesAgree,
         Atomic!MovesAgree, Proofs!EndingAgrees, Atomic!EndingAgrees,
         Proofs!DecisionsAgree, Atomic!DecisionsAgree, Proofs!Numbers, Atomic!Numbers,
         Proofs!Session, Atomic!Session, Proofs!IsTerminal, Atomic!IsTerminal,
         Proofs!Range, Atomic!Range
<1>3. Proofs!OutcomesSealedOnce <=> Atomic!OutcomesSealedOnce
  BY DEF Proofs!OutcomesSealedOnce, Atomic!OutcomesSealedOnce,
         Proofs!SameOutcome, Atomic!SameOutcome
<1>4. Proofs!EndingFollowsClaim <=> Atomic!EndingFollowsClaim
  BY DEF Proofs!EndingFollowsClaim, Atomic!EndingFollowsClaim,
         Proofs!StepStarted, Atomic!StepStarted, Proofs!FactOf, Atomic!FactOf
<1>5. Proofs!StateAccountedFor <=> Atomic!StateAccountedFor
  BY DEF Proofs!StateAccountedFor, Atomic!StateAccountedFor
<1>6. Proofs!ClosedOnceCompleted <=> Atomic!ClosedOnceCompleted
  BY DEF Proofs!ClosedOnceCompleted, Atomic!ClosedOnceCompleted
<1>7. Proofs!ClaimsWithinPolicy <=> Atomic!ClaimsWithinPolicy
  BY DEF Proofs!ClaimsWithinPolicy, Atomic!ClaimsWithinPolicy
<1>8. QED
  BY <1>1, <1>2, <1>3, <1>4, <1>5, <1>6, <1>7, PTL DEF SessionPromises

(***************************************************************************)
(* Nor does a commit of a driver take anything back, of its own or of what *)
(* clients did to the session while its handler was at work                *)
(* (run_ceremony_use_case.rs).                                             *)
(***************************************************************************)
THEOREM DrivenNothingIsTakenBack == Spec => [][Atomic!NothingTakenBack]_<<store.instance, store.journal>>
<1>1. Proofs!NothingTakenBack <=> Atomic!NothingTakenBack
  BY DEF Atomic!NothingTakenBack, Proofs!NothingTakenBack, Atomic!Follows, Proofs!Follows,
         Atomic!Sealed, Proofs!Sealed, Atomic!IsTerminal, Proofs!IsTerminal,
         Atomic!Instance, Proofs!Instance, Atomic!StepRecord, Proofs!StepRecord,
         Atomic!StepStatus, Proofs!StepStatus, Atomic!Lease, Proofs!Lease,
         Atomic!Move, Proofs!Move
<1>2. Spec => [][Proofs!NothingTakenBack]_<<store.instance, store.journal>>
  BY DrivenSessionsAreAtomic, SameSpec, StatesAssumption, StepsAssumption, TransitionsAssumption,
     LeaseTtlAssumption, NoLeaseAssumption, NoSessionAssumption, Proofs!NothingIsTakenBack, PTL
     DEF DrivenSessionIsAtomic, GuardConditions, Proofs!GuardConditions, Lease, Proofs!Lease,
         Instance, Proofs!Instance, StepRecord, Proofs!StepRecord, Move, Proofs!Move,
         StepStatus, Proofs!StepStatus
<1>3. QED
  BY <1>1, <1>2, PTL
=============================================================================
