-------------------------- MODULE CeremonyInstance --------------------------
(***************************************************************************)
(* The aggregate of a working session (CeremonyInstance in choreo-core)    *)
(* and the facts its operations produce (session_facts in choreo-app), as  *)
(* operators on values: what an operation requires of the instance it is   *)
(* given, the instance it returns, and the journal entries sealed with it. *)
(* The definition of the ceremony is a constant: it is immutable once      *)
(* constructed, and the assumptions below are what its constructor         *)
(* enforces (ceremony_definition_analysis.rs). Operators whose name ends   *)
(* in a bug's name, such as AllowsAttempt_OffByOne, are faulty variants of *)
(* the operator that follows them: putting one in its place must break the *)
(* property PROJECT.json pairs it with.                                    *)
(***************************************************************************)
EXTENDS Naturals, Sequences

CONSTANTS
    States, InitialState, TerminalStates,
    Steps,          \* the declared steps
    StepState,      \* the one state each step belongs to
    MaxAttempts,    \* the retry policy of each step
    Triggers, Transitions,
    Guards, GuardCondition,
    Roles, StepRoles, TriggerRoles,  \* the seats, and who may do what
    Keys,           \* idempotency keys the callers choose from
    LeaseTtl,       \* the lifetime callers ask of a step lease
    NoLease,        \* a record without a lease
    NoSession       \* what the store holds before the session is opened

StepStatus ==
    {"Pending", "InProgress", "Completed", "Failed", "WaitingForHuman", "Cancelled"}

\* StepResult::new refuses the two statuses nobody can observe as an outcome.
ResultStatus == StepStatus \ {"Pending", "InProgress"}

GuardConditions ==
    [kind: {"Always", "AllStepsCompleted", "HumanApproval"}]
        \cup [kind: {"StepStatus"}, step: Steps, status: StepStatus]

ASSUME StatesAssumption ==
    /\ InitialState \in States \ TerminalStates
    /\ TerminalStates \subseteq States

ASSUME StepsAssumption ==
    /\ StepState \in [Steps -> States \ TerminalStates]
    /\ MaxAttempts \in [Steps -> Nat \ {0}]
    /\ StepRoles \in [Steps -> SUBSET Roles]

ASSUME TransitionsAssumption ==
    /\ Transitions \subseteq [from: States \ TerminalStates, trigger: Triggers,
                              to: States, guards: SUBSET Guards]
    /\ \A t, u \in Transitions :
         t.from = u.from /\ t.trigger = u.trigger => t = u
    /\ GuardCondition \in [Guards -> GuardConditions]
    /\ TriggerRoles \in [Triggers -> SUBSET Roles]

ASSUME LeaseTtlAssumption == LeaseTtl \in Nat \ {0}

-----------------------------------------------------------------------------
\* The values of the aggregate.

Lease == [key: Keys, expires: Nat]

ASSUME NoLeaseAssumption == NoLease \notin Lease

StepRecord == [status: StepStatus, attempt: Nat \ {0}, lease: Lease \cup {NoLease}]

Move == [trigger: Triggers, from: States, to: States]

Instance ==
    [state: States,                   \* current_state
     records: [Steps -> StepRecord],  \* step_records
     keys: SUBSET Keys,               \* idempotency_keys
     approved: SUBSET Guards,         \* guard approvals in the context
     approvals: Seq(Guards),          \* guard_approvals
     deferrals: Seq(Guards),          \* guard_deferrals
     moves: Seq(Move),                \* transitions
     completed: BOOLEAN]              \* completed_at is set

ASSUME NoSessionAssumption == NoSession \notin Instance

\* CeremonyInstance::open: every step pending at its first attempt. The
\* context is whatever the caller supplies, and a guard counts as approved
\* when the context says so: `approved` are the guards it says so of.
Opened(approved) ==
    [state |-> InitialState,
     records |-> [s \in Steps |-> [status |-> "Pending", attempt |-> 1, lease |-> NoLease]],
     keys |-> {}, approved |-> approved, approvals |-> <<>>, deferrals |-> <<>>,
     moves |-> <<>>, completed |-> FALSE]

IsTerminal(i) == i.state \in TerminalStates

-----------------------------------------------------------------------------
\* Starting a step.

CanBeStartedAt_LeaseIgnored(r, now) ==
    r.status \in {"Pending", "Failed", "WaitingForHuman", "InProgress"}

\* Executable, or claimed under a lease that ran out (now >= expires_at).
CanBeStartedAt(r, now) ==
    \/ r.status \in {"Pending", "Failed", "WaitingForHuman"}
    \/ r.status = "InProgress" /\ r.lease # NoLease /\ now >= r.lease.expires

\* A retry is a new attempt only after a failure or an abandoned claim.
NextAttemptForStart(r) ==
    IF r.status \in {"Failed", "InProgress"} THEN r.attempt + 1 ELSE r.attempt

AllowsAttempt(step, attempt) == attempt <= MaxAttempts[step]

CanStartStep(i, step, key, now) ==
    /\ StepRoles[step] # {}
    /\ ~IsTerminal(i)
    /\ StepState[step] = i.state
    /\ CanBeStartedAt(i.records[step], now)
    /\ AllowsAttempt(step, NextAttemptForStart(i.records[step]))
    /\ key \notin i.keys

WithStarted(r, key, now) ==
    [status |-> "InProgress", attempt |-> NextAttemptForStart(r),
     lease |-> [key |-> key, expires |-> now + LeaseTtl]]

StartStep(i, step, key, now) ==
    [i EXCEPT !.keys = @ \cup {key}, !.records[step] = WithStarted(@, key, now)]

-----------------------------------------------------------------------------
\* Recording a result. Neither the lease, nor the attempt, nor the time is
\* consulted: any result is applied to whatever attempt is in progress.

CanApplyStepResult_AnyStatus(i, step) == StepState[step] = i.state

CanApplyStepResult(i, step) ==
    /\ StepState[step] = i.state
    /\ i.records[step].status = "InProgress"

WithResult(r, status) == [r EXCEPT !.status = status, !.lease = NoLease]

ApplyStepResult(i, step, status) ==
    [i EXCEPT !.records[step] = WithResult(@, status)]

-----------------------------------------------------------------------------
\* Deciding human guards.

IsHumanGuard(guard) == GuardCondition[guard].kind = "HumanApproval"

CanApproveGuard_Finished(i, guard) == IsHumanGuard(guard) /\ Roles # {}

\* A guard may be approved ahead of time, and approved again.
CanApproveGuard(i, guard) == ~IsTerminal(i) /\ IsHumanGuard(guard) /\ Roles # {}

ApproveGuard(i, guard) ==
    [i EXCEPT !.approved = @ \cup {guard}, !.approvals = Append(@, guard)]

\* A deferral answers a decision that is being asked for now.
CanDeferGuard(i, guard) ==
    /\ ~IsTerminal(i)
    /\ IsHumanGuard(guard)
    /\ guard \notin i.approved
    /\ \E t \in Transitions : t.from = i.state /\ guard \in t.guards
    /\ Roles # {}

DeferGuard(i, guard) == [i EXCEPT !.deferrals = Append(@, guard)]

-----------------------------------------------------------------------------
\* Moving on.

\* AllStepsCompleted looks at every step of the ceremony, not of the state.
GuardSatisfied(i, guard) ==
    LET c == GuardCondition[guard] IN
    CASE c.kind = "Always" -> TRUE
      [] c.kind = "AllStepsCompleted" ->
            Steps # {} /\ \A s \in Steps : i.records[s].status = "Completed"
      [] c.kind = "StepStatus" -> i.records[c.step].status = c.status
      [] c.kind = "HumanApproval" -> guard \in i.approved

GuardsAreSatisfied(i, transition) ==
    \A g \in transition.guards : GuardSatisfied(i, g)

TransitionForTrigger(state, trigger) ==
    CHOOSE t \in Transitions : t.from = state /\ t.trigger = trigger

CanMoveOn(i, trigger) ==
    /\ TriggerRoles[trigger] # {}
    /\ ~IsTerminal(i)
    /\ \E t \in Transitions : t.from = i.state /\ t.trigger = trigger
    /\ GuardsAreSatisfied(i, TransitionForTrigger(i.state, trigger))

MoveOn_MoveForgotten(i, trigger) ==
    LET to == TransitionForTrigger(i.state, trigger).to IN
    [i EXCEPT !.state = to, !.completed = @ \/ to \in TerminalStates]

MoveOn(i, trigger) ==
    LET to == TransitionForTrigger(i.state, trigger).to IN
    [i EXCEPT !.state = to,
              !.moves = Append(@, [trigger |-> trigger, from |-> i.state, to |-> to]),
              !.completed = @ \/ to \in TerminalStates]

-----------------------------------------------------------------------------
(***************************************************************************)
(* Journal entries. A fact is identified by its type, what it is about and *)
(* a number (the attempt of a step, the ordinal of a move): event ids are  *)
(* derived from exactly these, so equal facts here are equal event ids.    *)
(***************************************************************************)
Session == "session"

StepFacts ==
    [type: {"StepStarted", "StepCompleted", "StepFailed"}, about: Steps, number: Nat \ {0}]
GuardFacts ==
    [type: {"HumanApprovalRecorded", "HumanDeferralRecorded"}, about: Guards, number: {0}]
SessionFacts ==
    [type: {"CeremonyInstanceStarted", "TransitionApplied", "CeremonyCompleted"},
     about: {Session}, number: Nat]

Fact == StepFacts \cup GuardFacts \cup SessionFacts

FactOf(type, about, number) == [type |-> type, about |-> about, number |-> number]

StepStarted(step, attempt) == FactOf("StepStarted", step, attempt)

\* Two event types, and everything that is not a success is a failure.
StepFinished(step, attempt, status) ==
    FactOf(IF status = "Completed" THEN "StepCompleted" ELSE "StepFailed", step, attempt)

\* A move, and the ending if the move reached one; `i` has already moved.
TransitionApplied(i) ==
    LET ordinal == Len(i.moves) IN
    IF IsTerminal(i)
    THEN <<FactOf("TransitionApplied", Session, ordinal),
           FactOf("CeremonyCompleted", Session, ordinal)>>
    ELSE <<FactOf("TransitionApplied", Session, ordinal)>>

-----------------------------------------------------------------------------
(***************************************************************************)
(* The use cases that change a session, by what they ask of it. RunStep is *)
(* the claiming half of run_ceremony_step; FinishStep is its second half,  *)
(* which carries the attempt the claim returned. CompleteStep is           *)
(* complete_ceremony_step, which reads the attempt back from the session.  *)
(***************************************************************************)
OpenCalls == [kind: {"Open"}, approved: SUBSET Guards]
ClaimCalls == [kind: {"StartStep", "RunStep"}, step: Steps, key: Keys]
CompleteCalls == [kind: {"CompleteStep"}, step: Steps, status: ResultStatus]
FinishCalls == [kind: {"FinishStep"}, step: Steps, status: ResultStatus, attempt: Nat \ {0}]
MoveCalls == [kind: {"ApplyTransition"}, trigger: Triggers]
GuardCalls == [kind: {"ApproveGuard", "DeferGuard"}, guard: Guards]

\* What a caller may send from outside.
ClientCalls == ClaimCalls \cup CompleteCalls \cup MoveCalls \cup GuardCalls

Calls == OpenCalls \cup ClientCalls \cup FinishCalls

\* start_ceremony with a context that holds `approved`.
OpenWith(approved) == [kind |-> "Open", approved |-> approved]

\* Does the session, read as `i` at time `now`, accept the call?
Accepts(call, i, now) ==
    IF call.kind = "Open" THEN i = NoSession
    ELSE /\ i # NoSession
         /\ CASE call.kind \in {"StartStep", "RunStep"} ->
                    CanStartStep(i, call.step, call.key, now)
              [] call.kind = "CompleteStep" ->
                    CanApplyStepResult(i, call.step) /\ StepRoles[call.step] # {}
              [] call.kind = "FinishStep" -> CanApplyStepResult(i, call.step)
              [] call.kind = "ApplyTransition" -> CanMoveOn(i, call.trigger)
              [] call.kind = "ApproveGuard" -> CanApproveGuard(i, call.guard)
              [] call.kind = "DeferGuard" -> CanDeferGuard(i, call.guard)

\* The session after an accepted call.
After(call, i, now) ==
    CASE call.kind = "Open" -> Opened(call.approved)
      [] call.kind \in {"StartStep", "RunStep"} -> StartStep(i, call.step, call.key, now)
      [] call.kind \in {"CompleteStep", "FinishStep"} ->
            ApplyStepResult(i, call.step, call.status)
      [] call.kind = "ApplyTransition" -> MoveOn(i, call.trigger)
      [] call.kind = "ApproveGuard" -> ApproveGuard(i, call.guard)
      [] call.kind = "DeferGuard" -> DeferGuard(i, call.guard)

\* The facts sealed with it; `i` is the session after the call.
FactsOf(call, i) ==
    CASE call.kind = "Open" -> <<FactOf("CeremonyInstanceStarted", Session, 0)>>
      [] call.kind \in {"StartStep", "RunStep"} ->
            <<StepStarted(call.step, i.records[call.step].attempt)>>
      [] call.kind = "CompleteStep" ->
            <<StepFinished(call.step, i.records[call.step].attempt, call.status)>>
      [] call.kind = "FinishStep" ->
            <<StepFinished(call.step, call.attempt, call.status)>>
      [] call.kind = "ApplyTransition" -> TransitionApplied(i)
      [] call.kind = "ApproveGuard" -> <<FactOf("HumanApprovalRecorded", call.guard, 0)>>
      [] call.kind = "DeferGuard" -> <<FactOf("HumanDeferralRecorded", call.guard, 0)>>

-----------------------------------------------------------------------------
\* A session is completed when it reaches a terminal state, and not before.
Sealed(i) == i.completed <=> IsTerminal(i)

(***************************************************************************)
(* What one commit may do to the session: it is not made on a finished     *)
(* one, no move is forgotten and no completed step is taken back.          *)
(***************************************************************************)
Follows(i, j) ==
    /\ i \in Instance /\ j \in Instance
    /\ ~IsTerminal(i)
    /\ Sealed(i) => Sealed(j)
    /\ Len(i.moves) <= Len(j.moves)
    /\ \A s \in Steps : i.records[s].status = "Completed" => j.records[s].status = "Completed"
=============================================================================
