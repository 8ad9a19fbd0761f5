------------------------- MODULE AtomicSession_proofs -------------------------
(***************************************************************************)
(* Proofs about the atomic session. The first part is about the aggregate: *)
(* its operations return sessions and change only the fields named here.   *)
(* The second resolves the dispatch on the kind of a call; the rest proves *)
(* the invariants, one step per action. CeremonySession_proofs and         *)
(* RunCeremony_proofs use both, as facts about the session they store.     *)
(***************************************************************************)
EXTENDS AtomicSession, TLAPS

-----------------------------------------------------------------------------
\* The aggregate's operations return sessions, and change these fields only.

\* A new session is well formed: CeremonyInstance::open.
LEMMA OpenedType == \A approved \in SUBSET Guards : Opened(approved) \in Instance
  BY StatesAssumption DEF Opened, Instance, StepRecord, StepStatus

\* A claimed record is well formed and holds a lease: with_started.
LEMMA WithStartedType ==
    ASSUME NEW r \in StepRecord, NEW key \in Keys, NEW t \in Nat
    PROVE  /\ WithStarted(r, key, t) \in StepRecord
           /\ WithStarted(r, key, t).lease # NoLease
<1>1. [key |-> key, expires |-> t + LeaseTtl] \in Lease
  BY LeaseTtlAssumption DEF Lease
<1>2. NextAttemptForStart(r) \in Nat \ {0}
  BY DEF NextAttemptForStart, StepRecord
<1>3. QED
  BY <1>1, <1>2, NoLeaseAssumption DEF WithStarted, StepRecord, StepStatus

\* start_step changes the step's record and the spent keys.
LEMMA StartStepFields ==
    ASSUME NEW i \in Instance, NEW step \in Steps, NEW key \in Keys, NEW t \in Nat,
           NEW j, j = StartStep(i, step, key, t)
    PROVE  /\ j \in Instance
           /\ j.records[step] = WithStarted(i.records[step], key, t)
           /\ \A s \in Steps \ {step} : j.records[s] = i.records[s]
           /\ j.keys = i.keys \cup {key}
           /\ j.state = i.state /\ j.moves = i.moves /\ j.completed = i.completed
           /\ j.approved = i.approved /\ j.approvals = i.approvals
           /\ j.deferrals = i.deferrals
<1>1. WithStarted(i.records[step], key, t) \in StepRecord
  BY WithStartedType DEF Instance
<1>2. QED
  BY <1>1 DEF StartStep, Instance

\* apply_step_result changes the step's record.
LEMMA ApplyStepResultFields ==
    ASSUME NEW i \in Instance, NEW step \in Steps, NEW status \in ResultStatus,
           NEW j, j = ApplyStepResult(i, step, status)
    PROVE  /\ j \in Instance
           /\ j.records[step] = WithResult(i.records[step], status)
           /\ \A s \in Steps \ {step} : j.records[s] = i.records[s]
           /\ j.keys = i.keys
           /\ j.state = i.state /\ j.moves = i.moves /\ j.completed = i.completed
           /\ j.approved = i.approved /\ j.approvals = i.approvals
           /\ j.deferrals = i.deferrals
<1>1. WithResult(i.records[step], status) \in StepRecord
  BY DEF Instance, WithResult, StepRecord, ResultStatus
<1>2. QED
  BY <1>1 DEF ApplyStepResult, Instance

\* The transition found for an accepted trigger is a declared one.
LEMMA TransitionFound ==
    ASSUME NEW i \in Instance, NEW trigger \in Triggers, CanMoveOn(i, trigger)
    PROVE  LET t == TransitionForTrigger(i.state, trigger) IN
           t \in Transitions /\ t.from = i.state /\ t.trigger = trigger /\ t.to \in States
  BY TransitionsAssumption DEF CanMoveOn, TransitionForTrigger

\* move_on changes the state, the moves and the completion.
LEMMA MoveOnFields ==
    ASSUME NEW i \in Instance, NEW trigger \in Triggers, CanMoveOn(i, trigger),
           NEW j, j = MoveOn(i, trigger)
    PROVE  LET to == TransitionForTrigger(i.state, trigger).to IN
           /\ j \in Instance
           /\ j.state = to
           /\ j.moves = Append(i.moves, [trigger |-> trigger, from |-> i.state, to |-> to])
           /\ j.completed = (i.completed \/ to \in TerminalStates)
           /\ j.records = i.records /\ j.keys = i.keys
           /\ j.approved = i.approved /\ j.approvals = i.approvals
           /\ j.deferrals = i.deferrals
<1> DEFINE to == TransitionForTrigger(i.state, trigger).to
           move == [trigger |-> trigger, from |-> i.state, to |-> to]
<1>1. to \in States
  BY TransitionFound
<1>2. move \in Move
  BY <1>1 DEF Move, Instance
<1>3. Append(i.moves, move) \in Seq(Move)
  BY <1>2 DEF Instance
<1>4. j = [i EXCEPT !.state = to, !.moves = Append(i.moves, move),
                    !.completed = i.completed \/ to \in TerminalStates]
  BY DEF MoveOn
<1> HIDE DEF to, move
<1>5. QED
  BY <1>1, <1>3, <1>4 DEF Instance, to, move

\* approve_guard changes the context and the list of approvals.
LEMMA ApproveGuardFields ==
    ASSUME NEW i \in Instance, NEW guard \in Guards, NEW j, j = ApproveGuard(i, guard)
    PROVE  /\ j \in Instance
           /\ j.approved = i.approved \cup {guard}
           /\ j.approvals = Append(i.approvals, guard)
           /\ j.deferrals = i.deferrals
           /\ j.records = i.records /\ j.keys = i.keys
           /\ j.state = i.state /\ j.moves = i.moves /\ j.completed = i.completed
<1> DEFINE approvals == Append(i.approvals, guard)
<1>1. approvals \in Seq(Guards)
  BY DEF Instance
<1>2. j = [i EXCEPT !.approved = i.approved \cup {guard}, !.approvals = approvals]
  BY DEF ApproveGuard
<1>3. i.approved \cup {guard} \in SUBSET Guards
  BY DEF Instance
<1> HIDE DEF approvals
<1>4. QED
  BY <1>1, <1>2, <1>3 DEF Instance, approvals

\* defer_guard changes the list of deferrals only.
LEMMA DeferGuardFields ==
    ASSUME NEW i \in Instance, NEW guard \in Guards, NEW j, j = DeferGuard(i, guard)
    PROVE  /\ j \in Instance
           /\ j.deferrals = Append(i.deferrals, guard)
           /\ j.approved = i.approved /\ j.approvals = i.approvals
           /\ j.records = i.records /\ j.keys = i.keys
           /\ j.state = i.state /\ j.moves = i.moves /\ j.completed = i.completed
<1> DEFINE deferrals == Append(i.deferrals, guard)
<1>1. deferrals \in Seq(Guards)
  BY DEF Instance
<1>2. j = [i EXCEPT !.deferrals = deferrals]
  BY DEF DeferGuard
<1> HIDE DEF deferrals
<1>3. QED
  BY <1>1, <1>2 DEF Instance, deferrals

\* What with_started and with_result leave in a record.
LEMMA RecordFields ==
    ASSUME NEW r \in StepRecord
    PROVE  /\ \A key \in Keys, t \in Nat :
                LET w == WithStarted(r, key, t) IN
                /\ w.status = "InProgress"
                /\ w.attempt = NextAttemptForStart(r)
                /\ w.lease # NoLease
                /\ w.lease.key = key
           /\ \A status \in ResultStatus :
                LET w == WithResult(r, status) IN
                /\ w.status = status
                /\ w.attempt = r.attempt
                /\ w.lease = NoLease
<1>1. ASSUME NEW key \in Keys, NEW t \in Nat
      PROVE  WithStarted(r, key, t).lease # NoLease
  BY WithStartedType
<1>2. QED
  BY <1>1 DEF WithStarted, WithResult, StepRecord

-----------------------------------------------------------------------------
\* Sealing facts.

\* Sealing one fact is appending it.
LEMMA AppendOne ==
    ASSUME NEW j \in Seq(Fact), NEW f \in Fact
    PROVE  j \o <<f>> = Append(j, f) /\ Append(j, f) \in Seq(Fact)
  BY DEF Fact

\* What is in the journal after one more fact was sealed.
LEMMA RangeAppend ==
    ASSUME NEW j \in Seq(Fact), NEW f \in Fact
    PROVE  Range(Append(j, f)) = Range(j) \cup {f}
<1> DEFINE k == Append(j, f)
<1>1. Len(j) \in Nat /\ DOMAIN j = 1..Len(j) /\ DOMAIN k = 1..(Len(j) + 1)
  OBVIOUS
<1>2. k[Len(j) + 1] = f /\ \A n \in 1..Len(j) : k[n] = j[n]
  OBVIOUS
<1> HIDE DEF k
<1>3. Range(k) = Range(j) \cup {f}
  <2>1. ASSUME NEW e \in Range(k) PROVE e \in Range(j) \cup {f}
    <3>1. PICK n \in DOMAIN k : e = k[n]
      BY DEF Range
    <3>2. n = Len(j) + 1 \/ n \in 1..Len(j)
      BY <1>1, <3>1
    <3>3. QED
      BY <1>1, <1>2, <3>1, <3>2 DEF Range
  <2>2. f \in Range(k)
    <3>1. Len(j) + 1 \in DOMAIN k
      BY <1>1
    <3>2. QED
      BY <1>2, <3>1 DEF Range
  <2>3. ASSUME NEW n \in DOMAIN j PROVE j[n] \in Range(k)
    <3>1. n \in 1..Len(j) /\ n \in DOMAIN k
      BY <1>1
    <3>2. QED
      BY <1>2, <3>1 DEF Range
  <2>4. QED
    BY <2>1, <2>2, <2>3 DEF Range
<1>4. QED
  BY <1>3 DEF k

\* The facts of a move: one, or two when the state reached is terminal.
LEMMA MoveFacts ==
    ASSUME NEW i, Len(i.moves) \in Nat, NEW j \in Seq(Fact)
    PROVE  LET moved == FactOf("TransitionApplied", Session, Len(i.moves))
               ended == FactOf("CeremonyCompleted", Session, Len(i.moves))
           IN  /\ moved \in Fact /\ ended \in Fact
               /\ j \o TransitionApplied(i) = IF IsTerminal(i)
                                              THEN Append(Append(j, moved), ended)
                                              ELSE Append(j, moved)
<1> DEFINE moved == FactOf("TransitionApplied", Session, Len(i.moves))
           ended == FactOf("CeremonyCompleted", Session, Len(i.moves))
<1>1. moved \in Fact /\ ended \in Fact
  BY DEF FactOf, Fact, SessionFacts
<1>2. TransitionApplied(i) = IF IsTerminal(i) THEN <<moved, ended>> ELSE <<moved>>
  BY DEF TransitionApplied
<1> HIDE DEF moved, ended
<1>3. j \o <<moved, ended>> = Append(Append(j, moved), ended)
  BY <1>1
<1>4. j \o <<moved>> = Append(j, moved)
  BY <1>1
<1>5. QED
  BY <1>1, <1>2, <1>3, <1>4 DEF moved, ended

-----------------------------------------------------------------------------
\* A call is of the shape its kind says.
LEMMA CallKinds ==
    ASSUME NEW request \in Calls
    PROVE  \/ request \in OpenCalls /\ request.kind = "Open"
           \/ request \in ClaimCalls /\ request.kind \in {"StartStep", "RunStep"}
           \/ request \in CompleteCalls /\ request.kind = "CompleteStep"
           \/ request \in FinishCalls /\ request.kind = "FinishStep"
           \/ request \in MoveCalls /\ request.kind = "ApplyTransition"
           \/ request \in GuardCalls /\ request.kind \in {"ApproveGuard", "DeferGuard"}
  BY DEF Calls, ClientCalls, OpenCalls, ClaimCalls, CompleteCalls, FinishCalls, MoveCalls,
         GuardCalls

\* An accepted call returns a session and seals well-formed facts.
LEMMA AfterType ==
    ASSUME NEW request \in Calls, NEW i \in Instance \cup {NoSession}, NEW t \in Nat,
           Accepts(request, i, t), NEW j, j = After(request, i, t)
    PROVE  j \in Instance /\ FactsOf(request, j) \in Seq(Fact)
<1>1. CASE request \in OpenCalls /\ request.kind = "Open"
  <2>1. j = Opened(request.approved) /\ FactsOf(request, j) = <<FactOf("CeremonyInstanceStarted", Session, 0)>>
    BY <1>1 DEF After, FactsOf
  <2>2. FactOf("CeremonyInstanceStarted", Session, 0) \in Fact
    BY DEF FactOf, Fact, SessionFacts
  <2>3. request.approved \in SUBSET Guards
    BY <1>1 DEF OpenCalls
  <2>4. QED
    BY <2>1, <2>2, <2>3, OpenedType
<1>2. CASE request \in ClaimCalls /\ request.kind \in {"StartStep", "RunStep"}
  <2>1. request.step \in Steps /\ request.key \in Keys
    BY <1>2 DEF ClaimCalls
  <2>2. i \in Instance
    BY <1>2 DEF Accepts
  <2>3. j = StartStep(i, request.step, request.key, t)
    BY <1>2 DEF After
  <2>4. j \in Instance
    BY <2>1, <2>2, <2>3, StartStepFields
  <2> DEFINE f == StepStarted(request.step, j.records[request.step].attempt)
  <2>5. FactsOf(request, j) = <<f>>
    BY <1>2 DEF FactsOf
  <2>6. f \in Fact
    BY <2>1, <2>4 DEF StepStarted, FactOf, Fact, StepFacts, Instance, StepRecord
  <2> HIDE DEF f
  <2>7. QED
    BY <2>4, <2>5, <2>6
<1>3. CASE \/ request \in CompleteCalls /\ request.kind = "CompleteStep"
           \/ request \in FinishCalls /\ request.kind = "FinishStep"
  <2>1. request.step \in Steps /\ request.status \in ResultStatus
    BY <1>3 DEF CompleteCalls, FinishCalls
  <2>2. i \in Instance
    BY <1>3 DEF Accepts
  <2>3. j = ApplyStepResult(i, request.step, request.status)
    BY <1>3 DEF After
  <2>4. j \in Instance
    BY <2>1, <2>2, <2>3, ApplyStepResultFields
  <2>5. PICK n \in Nat \ {0} :
          FactsOf(request, j) = <<StepFinished(request.step, n, request.status)>>
    <3>1. CASE request.kind = "CompleteStep"
      <4>1. j.records[request.step].attempt \in Nat \ {0}
        BY <2>1, <2>4 DEF Instance, StepRecord
      <4>2. QED
        BY <3>1, <4>1 DEF FactsOf
    <3>2. CASE request \in FinishCalls /\ request.kind = "FinishStep"
      <4>1. request.attempt \in Nat \ {0}
        BY <3>2 DEF FinishCalls
      <4>2. QED
        BY <3>2, <4>1 DEF FactsOf
    <3>3. QED
      BY <1>3, <3>1, <3>2
  <2>6. StepFinished(request.step, n, request.status) \in Fact
    BY <2>1 DEF StepFinished, FactOf, Fact, StepFacts
  <2>7. QED
    BY <2>4, <2>5, <2>6
<1>4. CASE request \in MoveCalls /\ request.kind = "ApplyTransition"
  <2>1. request.trigger \in Triggers
    BY <1>4 DEF MoveCalls
  <2>2. i \in Instance /\ CanMoveOn(i, request.trigger)
    BY <1>4 DEF Accepts
  <2>3. j = MoveOn(i, request.trigger) /\ FactsOf(request, j) = TransitionApplied(j)
    BY <1>4 DEF After, FactsOf
  <2>4. j \in Instance
    BY <2>1, <2>2, <2>3, MoveOnFields
  <2>5. Len(j.moves) \in Nat
    BY <2>4 DEF Instance
  <2>6. /\ FactOf("TransitionApplied", Session, Len(j.moves)) \in Fact
        /\ FactOf("CeremonyCompleted", Session, Len(j.moves)) \in Fact
    BY <2>5 DEF FactOf, Fact, SessionFacts
  <2>7. TransitionApplied(j) \in Seq(Fact)
    BY <2>6 DEF TransitionApplied
  <2>8. QED
    BY <2>3, <2>4, <2>7
<1>5. CASE request \in GuardCalls /\ request.kind \in {"ApproveGuard", "DeferGuard"}
  <2>1. request.guard \in Guards
    BY <1>5 DEF GuardCalls
  <2>2. i \in Instance
    BY <1>5 DEF Accepts
  <2>3. /\ FactOf("HumanApprovalRecorded", request.guard, 0) \in Fact
        /\ FactOf("HumanDeferralRecorded", request.guard, 0) \in Fact
    BY <2>1 DEF FactOf, Fact, GuardFacts
  <2>4. CASE request.kind = "ApproveGuard"
    <3>1. /\ j = ApproveGuard(i, request.guard)
          /\ FactsOf(request, j) = <<FactOf("HumanApprovalRecorded", request.guard, 0)>>
      BY <2>4 DEF After, FactsOf
    <3>2. QED
      BY <2>1, <2>2, <2>3, <3>1, ApproveGuardFields
  <2>5. CASE request.kind = "DeferGuard"
    <3>1. /\ j = DeferGuard(i, request.guard)
          /\ FactsOf(request, j) = <<FactOf("HumanDeferralRecorded", request.guard, 0)>>
      BY <2>5 DEF After, FactsOf
    <3>2. QED
      BY <2>1, <2>2, <2>3, <3>1, DeferGuardFields
  <2>6. QED
    BY <1>5, <2>4, <2>5
<1>6. QED
  BY <1>1, <1>2, <1>3, <1>4, <1>5, CallKinds

-----------------------------------------------------------------------------
(***************************************************************************)
(* One commit after another: what no commit takes back (Follows).          *)
(***************************************************************************)

\* start_step refuses a completed step, and changes neither state nor moves.
LEMMA StartFollows ==
    ASSUME NEW i \in Instance, NEW step \in Steps, NEW key \in Keys, NEW t \in Nat,
           CanStartStep(i, step, key, t), NEW j, j = StartStep(i, step, key, t)
    PROVE  Follows(i, j)
<1>1. /\ j \in Instance
      /\ \A s \in Steps \ {step} : j.records[s] = i.records[s]
      /\ j.state = i.state /\ j.moves = i.moves /\ j.completed = i.completed
  BY StartStepFields
<1>2. ~IsTerminal(i) /\ i.records[step].status # "Completed"
  BY DEF CanStartStep, CanBeStartedAt
<1>3. Len(i.moves) \in Nat
  BY DEF Instance
<1>4. QED
  BY <1>1, <1>2, <1>3 DEF Follows, Sealed, IsTerminal

\* apply_step_result wants the step in progress, in the state it belongs to.
LEMMA ResultFollows ==
    ASSUME NEW i \in Instance, NEW step \in Steps, NEW status \in ResultStatus,
           CanApplyStepResult(i, step), NEW j, j = ApplyStepResult(i, step, status)
    PROVE  Follows(i, j) /\ j.records[step].status = status
<1>1. /\ j \in Instance
      /\ j.records[step] = WithResult(i.records[step], status)
      /\ \A s \in Steps \ {step} : j.records[s] = i.records[s]
      /\ j.state = i.state /\ j.moves = i.moves /\ j.completed = i.completed
  BY ApplyStepResultFields
<1>2. i.records[step].status # "Completed" /\ StepState[step] = i.state
  BY DEF CanApplyStepResult
<1>3. ~IsTerminal(i)
  BY <1>2, StepsAssumption DEF IsTerminal
<1>4. Len(i.moves) \in Nat /\ i.records[step] \in StepRecord
  BY DEF Instance
<1>5. WithResult(i.records[step], status).status = status
  BY <1>4, RecordFields
<1>6. QED
  BY <1>1, <1>2, <1>3, <1>4, <1>5 DEF Follows, Sealed, IsTerminal

\* move_on adds one move and completes the session exactly at a terminal state.
LEMMA MoveFollows ==
    ASSUME NEW i \in Instance, NEW trigger \in Triggers, CanMoveOn(i, trigger),
           NEW j, j = MoveOn(i, trigger)
    PROVE  Follows(i, j) /\ Len(j.moves) = Len(i.moves) + 1
<1> DEFINE to == TransitionForTrigger(i.state, trigger).to
           move == [trigger |-> trigger, from |-> i.state, to |-> to]
<1>1. /\ j \in Instance
      /\ j.state = to
      /\ j.moves = Append(i.moves, move)
      /\ j.completed = (i.completed \/ to \in TerminalStates)
      /\ j.records = i.records
  BY MoveOnFields
<1>2. ~IsTerminal(i)
  BY DEF CanMoveOn
<1>3. to \in States /\ i.state \in States
  BY TransitionFound DEF Instance
<1>4. move \in Move
  BY <1>3 DEF Move
<1> HIDE DEF move, to
<1>5. i.moves \in Seq(Move)
  BY DEF Instance
<1>6. Len(i.moves) \in Nat /\ Len(j.moves) = Len(i.moves) + 1
  BY <1>1, <1>4, <1>5
<1>7. Sealed(i) => Sealed(j)
  BY <1>1, <1>2 DEF Sealed, IsTerminal
<1>8. QED
  BY <1>1, <1>2, <1>6, <1>7 DEF Follows

\* Every session use case keeps to that.
LEMMA CallFollows ==
    ASSUME NEW request \in Calls, request.kind # "Open", NEW i \in Instance, NEW t \in Nat,
           Accepts(request, i, t), NEW j, j = After(request, i, t)
    PROVE  Follows(i, j)
<1>0. i # NoSession
  BY NoSessionAssumption
<1>1. CASE request \in ClaimCalls
  <2>1. request.step \in Steps /\ request.key \in Keys /\ request.kind \in {"StartStep", "RunStep"}
    BY <1>1 DEF ClaimCalls
  <2>2. CanStartStep(i, request.step, request.key, t)
    BY <2>1 DEF Accepts
  <2>3. j = StartStep(i, request.step, request.key, t)
    BY <2>1 DEF After
  <2>4. QED
    BY <2>1, <2>2, <2>3, StartFollows
<1>2. CASE request \in CompleteCalls \cup FinishCalls
  <2>1. /\ request.step \in Steps /\ request.status \in ResultStatus
        /\ request.kind \in {"CompleteStep", "FinishStep"}
    BY <1>2 DEF CompleteCalls, FinishCalls
  <2>2. CanApplyStepResult(i, request.step)
    BY <2>1 DEF Accepts
  <2>3. j = ApplyStepResult(i, request.step, request.status)
    BY <2>1 DEF After
  <2>4. QED
    BY <2>1, <2>2, <2>3, ResultFollows
<1>3. CASE request \in MoveCalls
  <2>1. request.trigger \in Triggers /\ request.kind = "ApplyTransition"
    BY <1>3 DEF MoveCalls
  <2>2. CanMoveOn(i, request.trigger)
    BY <2>1 DEF Accepts
  <2>3. j = MoveOn(i, request.trigger)
    BY <2>1 DEF After
  <2>4. QED
    BY <2>1, <2>2, <2>3, MoveFollows
<1>4. CASE request \in GuardCalls
  <2>1. request.guard \in Guards /\ request.kind \in {"ApproveGuard", "DeferGuard"}
    BY <1>4 DEF GuardCalls
  <2>2. ~IsTerminal(i)
    BY <2>1 DEF Accepts, CanApproveGuard, CanDeferGuard
  <2>3. \/ j = ApproveGuard(i, request.guard)
        \/ j = DeferGuard(i, request.guard)
    BY <2>1 DEF After
  <2>4. /\ j \in Instance
        /\ j.records = i.records
        /\ j.state = i.state /\ j.moves = i.moves /\ j.completed = i.completed
    <3>1. CASE j = ApproveGuard(i, request.guard)
      BY <2>1, <3>1, ApproveGuardFields
    <3>2. CASE j = DeferGuard(i, request.guard)
      BY <2>1, <3>2, DeferGuardFields
    <3>3. QED
      BY <2>3, <3>1, <3>2
  <2>5. Len(i.moves) \in Nat
    BY DEF Instance
  <2>6. QED
    BY <2>2, <2>4, <2>5 DEF Follows, Sealed, IsTerminal
<1>5. QED
  BY <1>1, <1>2, <1>3, <1>4, CallKinds

-----------------------------------------------------------------------------
\* What each action does, with the dispatch on the kind of call resolved.

\* start_ceremony: the session is new, and so is its journal entry.
LEMMA OpenEffect ==
    ASSUME TypeOK, OpenSession
    PROVE  /\ instance = NoSession
           /\ \E approved \in SUBSET Guards : instance' = Opened(approved)
           /\ journal' = Append(journal, FactOf("CeremonyInstanceStarted", Session, 0))
           /\ FactOf("CeremonyInstanceStarted", Session, 0) \in Fact
           /\ now' = now
<1> DEFINE f == FactOf("CeremonyInstanceStarted", Session, 0)
<1>1. PICK call \in OpenCalls, t \in 0..now : Perform(call, t)
  BY DEF OpenSession
<1> HIDE DEF f
<1>2. f \in Fact
  BY DEF f, FactOf, Fact, SessionFacts
<1>0. call.kind = "Open" /\ call.approved \in SUBSET Guards
  BY DEF OpenCalls
<1>3. instance = NoSession
  BY <1>0, <1>1 DEF Perform, Accepts
<1>4. instance' = Opened(call.approved)
  BY <1>0, <1>1 DEF Perform, After
<1>5. journal' = journal \o <<f>>
  BY <1>0, <1>1 DEF Perform, FactsOf, f
<1>6. QED
  BY <1>0, <1>1, <1>2, <1>3, <1>4, <1>5, AppendOne DEF Perform, TypeOK, f

Claims(step, key, t) ==
    LET f == StepStarted(step, instance'.records[step].attempt) IN
    /\ instance \in Instance
    /\ CanStartStep(instance, step, key, t)
    /\ instance' = StartStep(instance, step, key, t)
    /\ journal' = Append(journal, f)
    /\ f \in Fact
    /\ now' = now

\* start_ceremony_step, and the claiming half of run_ceremony_step.
LEMMA ClaimEffect ==
    ASSUME TypeOK, ClaimStep
    PROVE  \E step \in Steps, key \in Keys, t \in Nat : Claims(step, key, t)
<1>1. PICK call \in ClaimCalls, t \in 0..now : Perform(call, t)
  BY DEF ClaimStep
<1>2. call.kind \in {"StartStep", "RunStep"} /\ call.step \in Steps /\ call.key \in Keys
  BY DEF ClaimCalls
<1>3. t \in Nat
  BY DEF TypeOK
<1>4. instance \in Instance /\ CanStartStep(instance, call.step, call.key, t)
  BY <1>1, <1>2 DEF Perform, Accepts, TypeOK
<1>5. instance' = StartStep(instance, call.step, call.key, t)
  BY <1>1, <1>2 DEF Perform, After
<1> DEFINE f == StepStarted(call.step, instance'.records[call.step].attempt)
<1>6. journal' = journal \o <<f>>
  BY <1>1, <1>2 DEF Perform, FactsOf
<1>7. f \in Fact
  <2>1. instance' \in Instance
    BY <1>2, <1>3, <1>4, <1>5, StartStepFields
  <2>2. QED
    BY <1>2, <2>1 DEF StepStarted, FactOf, Fact, StepFacts, Instance, StepRecord
<1>8. Claims(call.step, call.key, t)
  BY <1>1, <1>4, <1>5, <1>6, <1>7, AppendOne DEF Perform, TypeOK, Claims
<1>9. QED
  BY <1>2, <1>3, <1>8

Reports(step, status, attempt) ==
    LET f == StepFinished(step, attempt, status) IN
    /\ instance \in Instance
    /\ CanApplyStepResult(instance, step)
    /\ instance' = ApplyStepResult(instance, step, status)
    /\ journal' = Append(journal, f)
    /\ f \in Fact
    /\ \/ attempt = instance.records[step].attempt
       \/ StepStarted(step, attempt) \in Range(journal)
    /\ now' = now

\* complete_ceremony_step and the second half of run_ceremony_step: the one
\* names the attempt in progress, the other an attempt it claimed.
LEMMA ResultEffect ==
    ASSUME TypeOK, CompleteStep \/ FinishStep
    PROVE  \E step \in Steps, status \in ResultStatus, attempt \in Nat \ {0} :
             Reports(step, status, attempt)
<1>1. ASSUME NEW step \in Steps, NEW status \in ResultStatus, NEW attempt \in Nat \ {0}
      PROVE  StepFinished(step, attempt, status) \in Fact
  BY DEF StepFinished, FactOf, Fact, StepFacts
<1>2. CASE CompleteStep
  <2>1. PICK call \in CompleteCalls, t \in 0..now : Perform(call, t)
    BY <1>2 DEF CompleteStep
  <2>2. call.kind = "CompleteStep" /\ call.step \in Steps /\ call.status \in ResultStatus
    BY DEF CompleteCalls
  <2>3. instance \in Instance /\ CanApplyStepResult(instance, call.step)
    BY <2>1, <2>2 DEF Perform, Accepts, TypeOK
  <2>4. instance' = ApplyStepResult(instance, call.step, call.status)
    BY <2>1, <2>2 DEF Perform, After
  <2> DEFINE attempt == instance.records[call.step].attempt
  <2>5. attempt \in Nat \ {0}
    BY <2>2, <2>3 DEF Instance, StepRecord
  <2>6. instance'.records[call.step].attempt = attempt
    <3>1. instance'.records[call.step] = WithResult(instance.records[call.step], call.status)
      BY <2>2, <2>3, <2>4, ApplyStepResultFields
    <3>2. QED
      BY <2>2, <2>3, <3>1 DEF WithResult, Instance, StepRecord
  <2>7. journal' = journal \o <<StepFinished(call.step, attempt, call.status)>>
    BY <2>1, <2>2, <2>6 DEF Perform, FactsOf
  <2> HIDE DEF attempt
  <2>8. Reports(call.step, call.status, attempt)
    BY <1>1, <2>1, <2>2, <2>3, <2>4, <2>5, <2>7, AppendOne
       DEF Perform, TypeOK, attempt, Reports
  <2>9. QED
    BY <2>2, <2>5, <2>8
<1>3. CASE FinishStep
  <2>1. PICK f \in Range(journal), status \in ResultStatus, t \in 0..now :
          /\ f.type = "StepStarted"
          /\ Perform([kind |-> "FinishStep", step |-> f.about, status |-> status,
                      attempt |-> f.number], t)
    BY <1>3 DEF FinishStep
  <2> DEFINE call == [kind |-> "FinishStep", step |-> f.about, status |-> status,
                      attempt |-> f.number]
  <2>2. call.kind = "FinishStep" /\ call.step = f.about /\ call.status = status
        /\ call.attempt = f.number
    OBVIOUS
  <2>3. f \in Fact
    BY DEF TypeOK, Range
  <2>4. /\ f.about \in Steps
        /\ f.number \in Nat \ {0}
        /\ f = StepStarted(f.about, f.number)
    BY <2>1, <2>3 DEF Fact, StepFacts, GuardFacts, SessionFacts, StepStarted, FactOf
  <2>5. Perform(call, t)
    BY <2>1
  <2> HIDE DEF call
  <2>6. instance \in Instance /\ CanApplyStepResult(instance, f.about)
    BY <2>2, <2>5 DEF Perform, Accepts, TypeOK
  <2>7. instance' = ApplyStepResult(instance, f.about, status)
    BY <2>2, <2>5 DEF Perform, After
  <2>8. journal' = journal \o <<StepFinished(f.about, f.number, status)>>
    BY <2>2, <2>5 DEF Perform, FactsOf
  <2>9. Reports(f.about, status, f.number)
    BY <1>1, <2>4, <2>5, <2>6, <2>7, <2>8, AppendOne DEF Perform, TypeOK, Reports
  <2>10. QED
    BY <2>4, <2>9
<1>4. QED
  BY <1>2, <1>3

Moves(trigger) ==
    /\ instance \in Instance
    /\ CanMoveOn(instance, trigger)
    /\ instance' = MoveOn(instance, trigger)
    /\ journal' = journal \o TransitionApplied(instance')
    /\ now' = now

\* apply_ceremony_transition: the move, and the ending if it reached one.
LEMMA MoveEffect ==
    ASSUME TypeOK, ApplyTransition
    PROVE  \E trigger \in Triggers : Moves(trigger)
<1>1. PICK call \in MoveCalls, t \in 0..now : Perform(call, t)
  BY DEF ApplyTransition
<1>2. call.kind = "ApplyTransition" /\ call.trigger \in Triggers
  BY DEF MoveCalls
<1>3. instance \in Instance /\ CanMoveOn(instance, call.trigger)
  BY <1>1, <1>2 DEF Perform, Accepts, TypeOK
<1>4. instance' = MoveOn(instance, call.trigger)
  BY <1>1, <1>2 DEF Perform, After
<1>5. journal' = journal \o TransitionApplied(instance')
  BY <1>1, <1>2 DEF Perform, FactsOf
<1>6. QED
  BY <1>1, <1>2, <1>3, <1>4, <1>5 DEF Perform, Moves

Approves(g) ==
    /\ instance \in Instance
    /\ CanApproveGuard(instance, g)
    /\ instance' = ApproveGuard(instance, g)
    /\ journal' = Append(journal, FactOf("HumanApprovalRecorded", g, 0))
    /\ FactOf("HumanApprovalRecorded", g, 0) \in Fact
    /\ now' = now

Defers(g) ==
    /\ instance \in Instance
    /\ CanDeferGuard(instance, g)
    /\ instance' = DeferGuard(instance, g)
    /\ journal' = Append(journal, FactOf("HumanDeferralRecorded", g, 0))
    /\ FactOf("HumanDeferralRecorded", g, 0) \in Fact
    /\ now' = now

\* approve_ceremony_guard and defer_ceremony_guard.
LEMMA GuardEffect ==
    ASSUME TypeOK, DecideGuard
    PROVE  \E g \in Guards : Approves(g) \/ Defers(g)
<1>1. PICK call \in GuardCalls, t \in 0..now : Perform(call, t)
  BY DEF DecideGuard
<1>2. call.kind \in {"ApproveGuard", "DeferGuard"} /\ call.guard \in Guards
  BY DEF GuardCalls
<1> DEFINE approval == FactOf("HumanApprovalRecorded", call.guard, 0)
           deferral == FactOf("HumanDeferralRecorded", call.guard, 0)
<1>3. approval \in Fact /\ deferral \in Fact
  BY <1>2 DEF FactOf, Fact, GuardFacts
<1>4. instance \in Instance
  BY <1>1, <1>2 DEF Perform, Accepts, TypeOK
<1>5. CASE call.kind = "ApproveGuard"
  <2>1. CanApproveGuard(instance, call.guard)
    BY <1>1, <1>5 DEF Perform, Accepts
  <2>2. instance' = ApproveGuard(instance, call.guard)
    BY <1>1, <1>5 DEF Perform, After
  <2>3. journal' = journal \o <<approval>>
    BY <1>1, <1>5 DEF Perform, FactsOf
  <2>4. QED
    BY <1>1, <1>2, <1>3, <1>4, <2>1, <2>2, <2>3, AppendOne DEF Perform, TypeOK, Approves
<1>6. CASE call.kind = "DeferGuard"
  <2>1. CanDeferGuard(instance, call.guard)
    BY <1>1, <1>6 DEF Perform, Accepts
  <2>2. instance' = DeferGuard(instance, call.guard)
    BY <1>1, <1>6 DEF Perform, After
  <2>3. journal' = journal \o <<deferral>>
    BY <1>1, <1>6 DEF Perform, FactsOf
  <2>4. QED
    BY <1>1, <1>2, <1>3, <1>4, <2>1, <2>2, <2>3, AppendOne DEF Perform, TypeOK, Defers
<1>7. QED
  BY <1>2, <1>5, <1>6

-----------------------------------------------------------------------------
\* Every step of the session preserves its type.
LEMMA TypeStep == ASSUME TypeOK, [Next]_vars PROVE TypeOK'
<1>1. CASE Tick
  BY <1>1 DEF Tick, TypeOK
<1>2. CASE OpenSession
  BY <1>2, OpenEffect, OpenedType, AppendOne DEF TypeOK
<1>3. CASE ClaimStep
  <2>1. PICK step \in Steps, key \in Keys, t \in Nat : Claims(step, key, t)
    BY <1>3, ClaimEffect
  <2>2. instance' \in Instance
    BY <2>1, StartStepFields DEF Claims
  <2>3. QED
    BY <2>1, <2>2, AppendOne DEF Claims, TypeOK
<1>4. CASE CompleteStep \/ FinishStep
  <2>1. PICK step \in Steps, status \in ResultStatus, attempt \in Nat \ {0} :
          Reports(step, status, attempt)
    BY <1>4, ResultEffect
  <2>2. instance' \in Instance
    BY <2>1, ApplyStepResultFields DEF Reports
  <2>3. QED
    BY <2>1, <2>2, AppendOne DEF Reports, TypeOK
<1>5. CASE ApplyTransition
  <2>1. PICK trigger \in Triggers : Moves(trigger)
    BY <1>5, MoveEffect
  <2>2. instance' \in Instance
    BY <2>1, MoveOnFields DEF Moves
  <2>3. Len(instance'.moves) \in Nat
    BY <2>2 DEF Instance
  <2>4. journal' \in Seq(Fact)
    BY <2>1, <2>3, MoveFacts, AppendOne DEF TypeOK, Moves
  <2>5. QED
    BY <2>1, <2>2, <2>4 DEF TypeOK, Moves
<1>6. CASE DecideGuard
  <2>1. PICK g \in Guards : Approves(g) \/ Defers(g)
    BY <1>6, GuardEffect
  <2>2. instance' \in Instance
    BY <2>1, ApproveGuardFields, DeferGuardFields DEF Approves, Defers
  <2>3. QED
    BY <2>1, <2>2, AppendOne DEF Approves, Defers, TypeOK
<1>7. CASE UNCHANGED vars
  BY <1>7 DEF vars, TypeOK
<1>8. QED
  BY <1>1, <1>2, <1>3, <1>4, <1>5, <1>6, <1>7 DEF Next

(***************************************************************************)
(* The stored session and the journal stay well formed: every operation of *)
(* the aggregate returns a session of its type, on the attempt, states and *)
(* guards the definition declares, and seals facts about things it names.  *)
(***************************************************************************)
THEOREM TypeCorrect == Spec => []TypeOK
<1>1. Init => TypeOK
  BY DEF Init, TypeOK
<1>2. QED
  BY <1>1, TypeStep, PTL DEF Spec

-----------------------------------------------------------------------------
\* A step that leaves records and keys alone leaves the claims alone.
LEMMA ClaimsKept ==
    ASSUME ClaimsWithinPolicy, instance \in Instance, instance' \in Instance,
           instance'.records = instance.records, instance'.keys = instance.keys
    PROVE  ClaimsWithinPolicy'
  BY NoSessionAssumption DEF ClaimsWithinPolicy

\* Every step keeps the claims within the retry policy.
LEMMA ClaimsStep ==
    ASSUME TypeOK, ClaimsWithinPolicy, [Next]_vars PROVE ClaimsWithinPolicy'
<1>1. CASE Tick
  BY <1>1 DEF Tick, ClaimsWithinPolicy
<1>2. CASE OpenSession
  BY <1>2, OpenEffect, StepsAssumption DEF Opened, ClaimsWithinPolicy
<1>3. CASE ClaimStep
  <2>1. PICK step \in Steps, key \in Keys, t \in Nat : Claims(step, key, t)
    BY <1>3, ClaimEffect
  <2>2. instance \in Instance /\ instance # NoSession /\ instance.records[step] \in StepRecord
    BY <2>1, NoSessionAssumption DEF Claims, Instance
  <2>3. /\ instance'.records[step] = WithStarted(instance.records[step], key, t)
        /\ \A s \in Steps \ {step} : instance'.records[s] = instance.records[s]
        /\ instance'.keys = instance.keys \cup {key}
    BY <2>1, StartStepFields DEF Claims
  <2>4. instance'.records[step].attempt <= MaxAttempts[step]
    BY <2>1, <2>2, <2>3, RecordFields DEF Claims, CanStartStep, AllowsAttempt
  <2>5. QED
    BY <2>2, <2>3, <2>4, RecordFields DEF ClaimsWithinPolicy
<1>4. CASE CompleteStep \/ FinishStep
  <2>1. PICK step \in Steps, status \in ResultStatus, attempt \in Nat \ {0} :
          Reports(step, status, attempt)
    BY <1>4, ResultEffect
  <2>2. instance \in Instance /\ instance # NoSession /\ instance.records[step] \in StepRecord
    BY <2>1, NoSessionAssumption DEF Reports, Instance
  <2>3. /\ instance'.records[step] = WithResult(instance.records[step], status)
        /\ \A s \in Steps \ {step} : instance'.records[s] = instance.records[s]
        /\ instance'.keys = instance.keys
    BY <2>1, ApplyStepResultFields DEF Reports
  <2>4. QED
    BY <2>2, <2>3, RecordFields DEF ClaimsWithinPolicy, ResultStatus
<1>5. CASE ApplyTransition
  <2>1. PICK trigger \in Triggers : Moves(trigger)
    BY <1>5, MoveEffect
  <2>2. QED
    BY <2>1, MoveOnFields, ClaimsKept DEF Moves
<1>6. CASE DecideGuard
  <2>1. PICK g \in Guards : Approves(g) \/ Defers(g)
    BY <1>6, GuardEffect
  <2>2. QED
    BY <2>1, ApproveGuardFields, DeferGuardFields, ClaimsKept DEF Approves, Defers
<1>7. CASE UNCHANGED vars
  BY <1>7 DEF vars, ClaimsWithinPolicy
<1>8. QED
  BY <1>1, <1>2, <1>3, <1>4, <1>5, <1>6, <1>7 DEF Next

(***************************************************************************)
(* No sequence of claims, results and lease expiries takes a step beyond   *)
(* the attempts its retry policy allows, leaves it in progress without a   *)
(* lease or leased without being in progress, or frees a spent key.        *)
(***************************************************************************)
THEOREM ClaimsStayWithinPolicy == Spec => []ClaimsWithinPolicy
<1>1. Init => ClaimsWithinPolicy
  BY DEF Init, ClaimsWithinPolicy
<1>2. QED
  BY <1>1, TypeCorrect, ClaimsStep, PTL DEF Spec

-----------------------------------------------------------------------------
\* Reading the journal after one more fact was sealed.

\* One more fact adds its own number to what is said of its subject.
LEMMA NumbersAppend ==
    ASSUME NEW j \in Seq(Fact), NEW f \in Fact, NEW type, NEW about
    PROVE  Numbers(Append(j, f), type, about) =
             IF f.type = type /\ f.about = about
             THEN Numbers(j, type, about) \cup {f.number}
             ELSE Numbers(j, type, about)
  BY RangeAppend DEF Numbers

\* An empty journal says nothing.
LEMMA NumbersEmpty ==
    ASSUME NEW type, NEW about
    PROVE  Numbers(<<>>, type, about) = {}
  BY DEF Numbers, Range

\* Sealing a fact leaves what is said under other types alone.
SameNumbers(type) == \A x : Numbers(journal', type, x) = Numbers(journal, type, x)

\* A fact of one type changes nothing that is said under another type.
LEMMA OtherTypes ==
    ASSUME journal \in Seq(Fact), NEW f \in Fact, journal' = Append(journal, f)
    PROVE  \A type : type # f.type => SameNumbers(type)
  BY NumbersAppend DEF SameNumbers

-----------------------------------------------------------------------------
\* A new session agrees with its one-entry journal.
LEMMA AgreeOpen ==
    ASSUME TypeOK, JournalAgreesWithSession, OpenSession
    PROVE  JournalAgreesWithSession'
<1> DEFINE f == FactOf("CeremonyInstanceStarted", Session, 0)
<1>1. journal = <<>> /\ journal \in Seq(Fact) /\ f \in Fact /\ journal' = Append(journal, f)
  BY OpenEffect DEF JournalAgreesWithSession, TypeOK
<1>2. f.type = "CeremonyInstanceStarted"
  BY DEF FactOf
<1>3. \A x : /\ Numbers(journal', "StepStarted", x) = {}
             /\ Numbers(journal', "StepCompleted", x) = {}
             /\ Numbers(journal', "TransitionApplied", x) = {}
             /\ Numbers(journal', "CeremonyCompleted", x) = {}
             /\ Numbers(journal', "HumanApprovalRecorded", x) = {}
             /\ Numbers(journal', "HumanDeferralRecorded", x) = {}
  BY <1>1, <1>2, OtherTypes, NumbersEmpty DEF SameNumbers
<1>4. /\ instance' \in Instance
      /\ instance'.state = InitialState /\ ~instance'.completed
      /\ instance'.moves = <<>> /\ instance'.approvals = <<>> /\ instance'.deferrals = <<>>
      /\ \A s \in Steps : instance'.records[s].status = "Pending"
  BY OpenEffect, OpenedType DEF Opened
<1>5. instance' # NoSession
  BY <1>4, NoSessionAssumption
<1>6. StartsAgree' /\ CompletionsAgree'
  BY <1>3, <1>4 DEF StartsAgree, CompletionsAgree
<1>7. MovesAgree'
  BY <1>3, <1>4 DEF MovesAgree
<1>8. EndingAgrees'
  BY <1>3, <1>4, StatesAssumption DEF EndingAgrees, IsTerminal
<1>9. DecisionsAgree'
  BY <1>3, <1>4 DEF DecisionsAgree, Range
<1>10. QED
  BY <1>5, <1>6, <1>7, <1>8, <1>9 DEF JournalAgreesWithSession

\* Conjuncts an action does not touch: moves and ending, decisions, steps.
LEMMA MovesKept ==
    ASSUME MovesAgree, EndingAgrees, instance'.moves = instance.moves,
           instance'.state = instance.state, instance'.completed = instance.completed,
           SameNumbers("TransitionApplied"), SameNumbers("CeremonyCompleted")
    PROVE  MovesAgree' /\ EndingAgrees'
  BY DEF MovesAgree, EndingAgrees, SameNumbers, IsTerminal

\* The human decisions still agree when neither they nor their facts change.
LEMMA DecisionsKept ==
    ASSUME DecisionsAgree, instance'.approved = instance.approved,
           instance'.approvals = instance.approvals,
           instance'.deferrals = instance.deferrals,
           SameNumbers("HumanApprovalRecorded"), SameNumbers("HumanDeferralRecorded")
    PROVE  DecisionsAgree'
  BY DEF DecisionsAgree, SameNumbers

\* The step records still agree when neither they nor their facts change.
LEMMA StepsKept ==
    ASSUME StartsAgree, CompletionsAgree, instance'.records = instance.records,
           SameNumbers("StepStarted"), SameNumbers("StepCompleted")
    PROVE  StartsAgree' /\ CompletionsAgree'
  BY DEF StartsAgree, CompletionsAgree, SameNumbers

\* A claim adds the attempt it starts, which is the next one or, after a
\* wait for a human, the same one again.
LEMMA AgreeClaim ==
    ASSUME TypeOK, ClaimsWithinPolicy, JournalAgreesWithSession, ClaimStep
    PROVE  JournalAgreesWithSession'
<1>1. PICK step \in Steps, key \in Keys, t \in Nat : Claims(step, key, t)
  BY ClaimEffect
<1> DEFINE r == instance.records[step]
           f == StepStarted(step, NextAttemptForStart(r))
<1>2. instance \in Instance /\ instance # NoSession /\ r \in StepRecord
  BY <1>1, NoSessionAssumption DEF Claims, Instance
<1>3. /\ instance' \in Instance
      /\ instance'.records[step] = WithStarted(r, key, t)
      /\ \A s \in Steps \ {step} : instance'.records[s] = instance.records[s]
      /\ instance'.state = instance.state /\ instance'.moves = instance.moves
      /\ instance'.completed = instance.completed
      /\ instance'.approved = instance.approved
      /\ instance'.approvals = instance.approvals
      /\ instance'.deferrals = instance.deferrals
  BY <1>1, StartStepFields DEF Claims
<1>4. /\ instance'.records[step].status = "InProgress"
      /\ instance'.records[step].attempt = NextAttemptForStart(r)
  BY <1>2, <1>3, RecordFields
<1>5. f \in Fact /\ journal' = Append(journal, f) /\ journal \in Seq(Fact)
  BY <1>1, <1>4 DEF Claims, TypeOK
<1>6. f.type = "StepStarted" /\ f.about = step /\ f.number = NextAttemptForStart(r)
  BY DEF StepStarted, FactOf
<1> HIDE DEF f
<1>7. \A type : type # "StepStarted" => SameNumbers(type)
  BY <1>5, <1>6, OtherTypes
<1>8. StartsAgree /\ CompletionsAgree /\ MovesAgree /\ EndingAgrees /\ DecisionsAgree
  BY <1>2 DEF JournalAgreesWithSession
<1>9. StartsAgree'
  <2>1. Numbers(journal', "StepStarted", step) = 1..NextAttemptForStart(r)
    <3>1. Numbers(journal', "StepStarted", step)
            = Numbers(journal, "StepStarted", step) \cup {NextAttemptForStart(r)}
      BY <1>5, <1>6, NumbersAppend
    <3>2. r.status = "Pending" => r.attempt = 1
      BY <1>2 DEF ClaimsWithinPolicy
    <3>3. Numbers(journal, "StepStarted", step)
            = IF r.status = "Pending" THEN {} ELSE 1..r.attempt
      BY <1>8 DEF StartsAgree
    <3>4. r.attempt \in Nat \ {0}
      BY <1>2 DEF StepRecord
    <3>5. CASE r.status = "Pending"
      <4>1. NextAttemptForStart(r) = 1
        BY <3>2, <3>5 DEF NextAttemptForStart
      <4>2. Numbers(journal', "StepStarted", step) = {1}
        BY <3>1, <3>3, <3>5, <4>1
      <4>3. 1..1 = {1}
        OBVIOUS
      <4>4. QED
        BY <4>1, <4>2, <4>3
    <3>6. CASE r.status \in {"Failed", "InProgress"}
      <4>1. 1..(r.attempt + 1) = 1..r.attempt \cup {r.attempt + 1}
        BY <3>4
      <4>2. QED
        BY <3>1, <3>3, <3>6, <4>1 DEF NextAttemptForStart
    <3>7. CASE r.status \notin {"Pending", "Failed", "InProgress"}
      <4>1. 1..r.attempt = 1..r.attempt \cup {r.attempt}
        BY <3>4
      <4>2. QED
        BY <3>1, <3>3, <3>7, <4>1 DEF NextAttemptForStart
    <3>8. QED
      BY <3>5, <3>6, <3>7
  <2>2. \A s \in Steps \ {step} :
          Numbers(journal', "StepStarted", s) = Numbers(journal, "StepStarted", s)
    BY <1>5, <1>6, NumbersAppend
  <2>3. QED
    BY <1>3, <1>4, <1>8, <2>1, <2>2 DEF StartsAgree
<1>10. CompletionsAgree'
  <2>1. r.status # "Completed"
    BY <1>1 DEF Claims, CanStartStep, CanBeStartedAt
  <2>2. QED
    BY <1>3, <1>4, <1>7, <1>8, <2>1 DEF CompletionsAgree, SameNumbers
<1>11. MovesAgree' /\ EndingAgrees'
  BY <1>3, <1>7, <1>8, MovesKept
<1>12. DecisionsAgree'
  BY <1>3, <1>7, <1>8, DecisionsKept
<1>13. QED
  BY <1>3, <1>9, <1>10, <1>11, <1>12, NoSessionAssumption DEF JournalAgreesWithSession

\* A result completes a step exactly when it seals a completion.
LEMMA AgreeReport ==
    ASSUME TypeOK, JournalAgreesWithSession, CompleteStep \/ FinishStep
    PROVE  JournalAgreesWithSession'
<1>1. PICK step \in Steps, status \in ResultStatus, attempt \in Nat \ {0} :
        Reports(step, status, attempt)
  BY ResultEffect
<1> DEFINE r == instance.records[step]
           f == StepFinished(step, attempt, status)
<1>2. instance \in Instance /\ instance # NoSession /\ r \in StepRecord
  BY <1>1, NoSessionAssumption DEF Reports, Instance
<1>3. /\ instance' \in Instance
      /\ instance'.records[step] = WithResult(r, status)
      /\ \A s \in Steps \ {step} : instance'.records[s] = instance.records[s]
      /\ instance'.state = instance.state /\ instance'.moves = instance.moves
      /\ instance'.completed = instance.completed
      /\ instance'.approved = instance.approved
      /\ instance'.approvals = instance.approvals
      /\ instance'.deferrals = instance.deferrals
  BY <1>1, ApplyStepResultFields DEF Reports
<1>4. /\ instance'.records[step].status = status
      /\ instance'.records[step].attempt = r.attempt
  BY <1>2, <1>3, RecordFields
<1>5. f \in Fact /\ journal' = Append(journal, f) /\ journal \in Seq(Fact)
  BY <1>1 DEF Reports, TypeOK
<1>6. /\ f.type = IF status = "Completed" THEN "StepCompleted" ELSE "StepFailed"
      /\ f.about = step
      /\ f.number = attempt
  BY DEF StepFinished, FactOf
<1> HIDE DEF f
<1>7. \A type : type \notin {"StepCompleted", "StepFailed"} => SameNumbers(type)
  BY <1>5, <1>6, OtherTypes
<1>8. StartsAgree /\ CompletionsAgree /\ MovesAgree /\ EndingAgrees /\ DecisionsAgree
  BY <1>2 DEF JournalAgreesWithSession
<1>9. r.status = "InProgress"
  BY <1>1 DEF Reports, CanApplyStepResult
<1>10. StartsAgree'
  BY <1>3, <1>4, <1>7, <1>8, <1>9 DEF StartsAgree, SameNumbers, ResultStatus
<1>11. CompletionsAgree'
  <2>1. Numbers(journal', "StepCompleted", step)
          = IF status = "Completed" THEN {attempt} ELSE {}
    <3>1. Numbers(journal, "StepCompleted", step) = {}
      BY <1>8, <1>9 DEF CompletionsAgree
    <3>2. QED
      BY <1>5, <1>6, <3>1, NumbersAppend
  <2>2. \A s \in Steps \ {step} :
          Numbers(journal', "StepCompleted", s) = Numbers(journal, "StepCompleted", s)
    BY <1>5, <1>6, NumbersAppend
  <2>3. QED
    BY <1>3, <1>4, <1>8, <2>1, <2>2 DEF CompletionsAgree
<1>12. MovesAgree' /\ EndingAgrees'
  BY <1>3, <1>7, <1>8, MovesKept
<1>13. DecisionsAgree'
  BY <1>3, <1>7, <1>8, DecisionsKept
<1>14. QED
  BY <1>3, <1>10, <1>11, <1>12, <1>13, NoSessionAssumption DEF JournalAgreesWithSession

\* The ordinal of a move is one more than the moves before it, and the move
\* and the ending are sealed under it.
LEMMA MoveOrdinal ==
    ASSUME journal \in Seq(Fact), NEW trigger \in Triggers, Moves(trigger),
           NEW n, n = Len(instance.moves) + 1,
           NEW moved, moved = FactOf("TransitionApplied", Session, n),
           NEW ended, ended = FactOf("CeremonyCompleted", Session, n)
    PROVE  /\ instance \in Instance /\ instance' \in Instance /\ instance # NoSession
           /\ Len(instance.moves) \in Nat /\ n = Len(instance'.moves)
           /\ moved \in Fact /\ ended \in Fact
           /\ moved.type = "TransitionApplied" /\ moved.about = Session /\ moved.number = n
           /\ ended.type = "CeremonyCompleted" /\ ended.about = Session /\ ended.number = n
           /\ journal' = IF IsTerminal(instance') THEN Append(Append(journal, moved), ended)
                                                  ELSE Append(journal, moved)
<1> DEFINE to == TransitionForTrigger(instance.state, trigger).to
           move == [trigger |-> trigger, from |-> instance.state, to |-> to]
<1>1. instance \in Instance /\ instance' \in Instance /\ instance # NoSession
  BY MoveOnFields, NoSessionAssumption DEF Moves
<1>2. instance'.moves = Append(instance.moves, move)
  BY MoveOnFields DEF Moves
<1>3. Len(instance.moves) \in Nat /\ n = Len(instance'.moves)
  <2>1. instance.moves \in Seq(Move) /\ instance'.moves \in Seq(Move)
    BY <1>1 DEF Instance
  <2> HIDE DEF move
  <2>2. QED
    BY <1>2, <2>1
<1>4. journal' = journal \o TransitionApplied(instance')
  BY DEF Moves
<1>5. Len(instance'.moves) \in Nat
  BY <1>3
<1>6. /\ moved \in Fact /\ ended \in Fact
      /\ journal' = IF IsTerminal(instance') THEN Append(Append(journal, moved), ended)
                                             ELSE Append(journal, moved)
  BY <1>3, <1>4, <1>5, MoveFacts
<1>7. /\ moved.type = "TransitionApplied" /\ moved.about = Session /\ moved.number = n
      /\ ended.type = "CeremonyCompleted" /\ ended.about = Session /\ ended.number = n
  BY DEF FactOf
<1>8. QED
  BY <1>1, <1>3, <1>6, <1>7

\* A move adds its ordinal, and the ending exactly when it is terminal.
LEMMA AgreeMove ==
    ASSUME TypeOK, JournalAgreesWithSession, ApplyTransition
    PROVE  JournalAgreesWithSession'
<1>1. PICK trigger \in Triggers : Moves(trigger)
  BY MoveEffect
<1>2. instance \in Instance /\ instance # NoSession
  BY <1>1, NoSessionAssumption DEF Moves
<1> DEFINE to == TransitionForTrigger(instance.state, trigger).to
           n == Len(instance.moves) + 1
           moved == FactOf("TransitionApplied", Session, n)
           ended == FactOf("CeremonyCompleted", Session, n)
<1>3. /\ instance' \in Instance
      /\ instance'.state = to
      /\ instance'.completed = (instance.completed \/ to \in TerminalStates)
      /\ instance'.records = instance.records
      /\ instance'.approved = instance.approved
      /\ instance'.approvals = instance.approvals
      /\ instance'.deferrals = instance.deferrals
  <2>1. CanMoveOn(instance, trigger) /\ instance' = MoveOn(instance, trigger)
    BY <1>1, Zenon DEF Moves
  <2>2. QED
    BY <1>2, <2>1, MoveOnFields, ZenonT(30)
<1> HIDE DEF moved, ended
<1>4. Len(instance.moves) \in Nat /\ n = Len(instance'.moves)
  BY <1>1, MoveOrdinal DEF TypeOK, moved, ended
<1>5. /\ moved \in Fact /\ ended \in Fact
      /\ journal' = IF IsTerminal(instance') THEN Append(Append(journal, moved), ended)
                                             ELSE Append(journal, moved)
  BY <1>1, MoveOrdinal DEF TypeOK, moved, ended
<1>6. /\ moved.type = "TransitionApplied" /\ moved.about = Session /\ moved.number = n
      /\ ended.type = "CeremonyCompleted" /\ ended.about = Session /\ ended.number = n
  BY <1>1, MoveOrdinal DEF TypeOK, moved, ended
<1> HIDE DEF n
<1> DEFINE mid == Append(journal, moved)
<1>7. journal \in Seq(Fact) /\ mid \in Seq(Fact) /\ moved \in Fact /\ ended \in Fact
  BY <1>5, AppendOne DEF TypeOK
<1>8. \A type, x : Numbers(mid, type, x) =
        IF type = "TransitionApplied" /\ x = Session
        THEN Numbers(journal, type, x) \cup {n} ELSE Numbers(journal, type, x)
  BY <1>6, <1>7, NumbersAppend
<1> HIDE DEF mid
<1>9. \A type, x : Numbers(journal', type, x) =
        IF type = "TransitionApplied" /\ x = Session
        THEN Numbers(journal, type, x) \cup {n}
        ELSE IF type = "CeremonyCompleted" /\ x = Session /\ IsTerminal(instance')
        THEN Numbers(journal, type, x) \cup {n} ELSE Numbers(journal, type, x)
  <2>1. CASE IsTerminal(instance')
    <3>1. journal' = Append(mid, ended)
      BY <1>5, <2>1 DEF mid
    <3>2. \A type, x : Numbers(Append(mid, ended), type, x) =
            IF type = "CeremonyCompleted" /\ x = Session
            THEN Numbers(mid, type, x) \cup {n} ELSE Numbers(mid, type, x)
      BY <1>6, <1>7, NumbersAppend
    <3>3. QED
      BY <1>8, <2>1, <3>1, <3>2
  <2>2. CASE ~IsTerminal(instance')
    BY <1>5, <1>8, <2>2 DEF mid
  <2>3. QED
    BY <2>1, <2>2
<1>10. \A type : type \notin {"TransitionApplied", "CeremonyCompleted"} => SameNumbers(type)
  BY <1>9 DEF SameNumbers
<1>11. StartsAgree /\ CompletionsAgree /\ MovesAgree /\ EndingAgrees /\ DecisionsAgree
  BY <1>2 DEF JournalAgreesWithSession
<1>12. MovesAgree'
  <2>1. Numbers(journal', "TransitionApplied", Session) = 1..Len(instance.moves) \cup {n}
    BY <1>9, <1>11 DEF MovesAgree
  <2>2. 1..n = 1..Len(instance.moves) \cup {n}
    BY <1>4 DEF n
  <2>3. QED
    BY <1>4, <2>1, <2>2 DEF MovesAgree
<1>13. EndingAgrees'
  <2>1. ~instance.completed /\ Numbers(journal, "CeremonyCompleted", Session) = {}
    BY <1>1, <1>11 DEF Moves, CanMoveOn, EndingAgrees
  <2>2. Numbers(journal', "CeremonyCompleted", Session) =
          IF IsTerminal(instance') THEN {n} ELSE {}
    BY <1>9, <2>1
  <2>3. QED
    BY <1>3, <2>1, <2>2 DEF EndingAgrees, IsTerminal
<1>14. StartsAgree' /\ CompletionsAgree'
  BY <1>3, <1>10, <1>11, StepsKept
<1>15. DecisionsAgree'
  BY <1>3, <1>10, <1>11, DecisionsKept
<1>16. QED
  BY <1>3, <1>12, <1>13, <1>14, <1>15, NoSessionAssumption DEF JournalAgreesWithSession

\* A decision is in the context, in the session's list and in the journal.
LEMMA AgreeDecision ==
    ASSUME TypeOK, JournalAgreesWithSession, DecideGuard
    PROVE  JournalAgreesWithSession'
<1>1. PICK guard \in Guards : Approves(guard) \/ Defers(guard)
  BY GuardEffect
<1>2. instance \in Instance /\ instance # NoSession
  BY <1>1, NoSessionAssumption DEF Approves, Defers
<1>3. StartsAgree /\ CompletionsAgree /\ MovesAgree /\ EndingAgrees /\ DecisionsAgree
  BY <1>2 DEF JournalAgreesWithSession
<1>4. ASSUME NEW q \in Seq(Guards)
      PROVE  \A g : g \in Range(Append(q, guard)) <=> g \in Range(q) \/ g = guard
  <2> DEFINE a == Append(q, guard)
  <2>1. /\ Len(q) \in Nat /\ DOMAIN q = 1..Len(q) /\ DOMAIN a = 1..(Len(q) + 1)
        /\ a[Len(q) + 1] = guard /\ \A n \in 1..Len(q) : a[n] = q[n]
    OBVIOUS
  <2> HIDE DEF a
  <2>2. Len(q) + 1 \in DOMAIN a /\ \A n \in DOMAIN a : n \in DOMAIN q \/ n = Len(q) + 1
    BY <2>1
  <2>3. \A n \in DOMAIN q : n \in DOMAIN a /\ a[n] = q[n]
    BY <2>1
  <2>4. \A g : g \in Range(a) <=> g \in Range(q) \/ g = guard
    BY <2>1, <2>2, <2>3 DEF Range
  <2>5. QED
    BY <2>4 DEF a
<1>5. CASE Approves(guard)
  <2> DEFINE f == FactOf("HumanApprovalRecorded", guard, 0)
  <2>1. /\ instance' \in Instance
        /\ instance'.approved = instance.approved \cup {guard}
        /\ instance'.approvals = Append(instance.approvals, guard)
        /\ instance'.deferrals = instance.deferrals
        /\ instance'.records = instance.records
        /\ instance'.state = instance.state /\ instance'.moves = instance.moves
        /\ instance'.completed = instance.completed
    BY <1>5, ApproveGuardFields DEF Approves
  <2>2. f \in Fact /\ journal' = Append(journal, f) /\ journal \in Seq(Fact)
    BY <1>5 DEF Approves, TypeOK
  <2>3. f.type = "HumanApprovalRecorded" /\ f.about = guard /\ f.number = 0
    BY DEF FactOf
  <2> HIDE DEF f
  <2>4. \A type : type # "HumanApprovalRecorded" => SameNumbers(type)
    BY <2>2, <2>3, OtherTypes
  <2>5. \A g : Numbers(journal', "HumanApprovalRecorded", g) =
          IF g = guard THEN Numbers(journal, "HumanApprovalRecorded", g) \cup {0}
                       ELSE Numbers(journal, "HumanApprovalRecorded", g)
    BY <2>2, <2>3, NumbersAppend
  <2>6. instance.approvals \in Seq(Guards)
    BY <1>2 DEF Instance
  <2>7. \A g : g \in Range(instance'.approvals) <=> g \in Range(instance.approvals) \/ g = guard
    BY <1>4, <2>1, <2>6
  <2>8. DecisionsAgree'
    BY <1>3, <2>1, <2>4, <2>5, <2>7 DEF DecisionsAgree, SameNumbers
  <2>9. QED
    BY <1>3, <2>1, <2>4, <2>8, StepsKept, MovesKept, NoSessionAssumption
       DEF JournalAgreesWithSession
<1>6. CASE Defers(guard)
  <2> DEFINE f == FactOf("HumanDeferralRecorded", guard, 0)
  <2>1. /\ instance' \in Instance
        /\ instance'.deferrals = Append(instance.deferrals, guard)
        /\ instance'.approved = instance.approved
        /\ instance'.approvals = instance.approvals
        /\ instance'.records = instance.records
        /\ instance'.state = instance.state /\ instance'.moves = instance.moves
        /\ instance'.completed = instance.completed
    BY <1>6, DeferGuardFields DEF Defers
  <2>2. f \in Fact /\ journal' = Append(journal, f) /\ journal \in Seq(Fact)
    BY <1>6 DEF Defers, TypeOK
  <2>3. f.type = "HumanDeferralRecorded" /\ f.about = guard /\ f.number = 0
    BY DEF FactOf
  <2> HIDE DEF f
  <2>4. \A type : type # "HumanDeferralRecorded" => SameNumbers(type)
    BY <2>2, <2>3, OtherTypes
  <2>5. \A g : Numbers(journal', "HumanDeferralRecorded", g) =
          IF g = guard THEN Numbers(journal, "HumanDeferralRecorded", g) \cup {0}
                       ELSE Numbers(journal, "HumanDeferralRecorded", g)
    BY <2>2, <2>3, NumbersAppend
  <2>6. instance.deferrals \in Seq(Guards)
    BY <1>2 DEF Instance
  <2>7. \A g : g \in Range(instance'.deferrals) <=> g \in Range(instance.deferrals) \/ g = guard
    BY <1>4, <2>1, <2>6
  <2>8. DecisionsAgree'
    BY <1>3, <2>1, <2>4, <2>5, <2>7 DEF DecisionsAgree, SameNumbers
  <2>9. QED
    BY <1>3, <2>1, <2>4, <2>8, StepsKept, MovesKept, NoSessionAssumption
       DEF JournalAgreesWithSession
<1>7. QED
  BY <1>1, <1>5, <1>6

\* Every step keeps session and journal in agreement.
LEMMA AgreeStep ==
    ASSUME TypeOK, ClaimsWithinPolicy, JournalAgreesWithSession, [Next]_vars
    PROVE  JournalAgreesWithSession'
<1>1. CASE Tick
  BY <1>1 DEF Tick, JournalAgreesWithSession, StartsAgree, CompletionsAgree,
              MovesAgree, EndingAgrees, DecisionsAgree
<1>2. CASE UNCHANGED vars
  BY <1>2 DEF vars, JournalAgreesWithSession, StartsAgree, CompletionsAgree,
              MovesAgree, EndingAgrees, DecisionsAgree
<1>3. QED
  BY <1>1, <1>2, AgreeOpen, AgreeClaim, AgreeReport, AgreeMove, AgreeDecision DEF Next

(***************************************************************************)
(* The journal and the stored session never tell two stories: the attempts *)
(* started, the steps completed, the moves, the ending and the human       *)
(* decisions read off the sealed facts are those of the session, for every *)
(* definition, every number of steps, attempts and moves.                  *)
(***************************************************************************)
THEOREM JournalAlwaysAgrees == Spec => []JournalAgreesWithSession
<1>1. Init => JournalAgreesWithSession
  BY DEF Init, JournalAgreesWithSession
<1>2. QED
  BY <1>1, TypeCorrect, ClaimsStayWithinPolicy, AgreeStep, PTL DEF Spec

-----------------------------------------------------------------------------
(***************************************************************************)
(* Order in the journal. Each property of positions is a property of a     *)
(* sequence of facts that one more fact preserves under a condition, which *)
(* the agreement of session and journal then gives for every action.       *)
(***************************************************************************)
LEMMA AppendPositions ==
    ASSUME NEW j \in Seq(Fact), NEW f \in Fact
    PROVE  LET k == Append(j, f) IN
           /\ Len(j) \in Nat /\ DOMAIN j = 1..Len(j)
           /\ Len(k) = Len(j) + 1 /\ DOMAIN k = 1..(Len(j) + 1)
           /\ k[Len(j) + 1] = f
           /\ \A n \in 1..Len(j) : k[n] = j[n] /\ j[n] \in Range(j) /\ j[n] \in Fact
  BY DEF Range

\* A sealed fact is among the numbers of its type and subject.
LEMMA NumberOfFact ==
    ASSUME NEW j, NEW e \in Range(j)
    PROVE  e.number \in Numbers(j, e.type, e.about)
  BY DEF Numbers

OnceIn(j) == \A p, q \in DOMAIN j : SameOutcome(j[p], j[q]) => p = q

\* A fact whose outcome was not sealed yet keeps outcomes unique.
LEMMA OnceAppend ==
    ASSUME NEW j \in Seq(Fact), NEW f \in Fact, OnceIn(j),
           \A e \in Range(j) : ~SameOutcome(e, f)
    PROVE  OnceIn(Append(j, f))
<1> DEFINE k == Append(j, f)
<1>1. /\ Len(j) \in Nat /\ DOMAIN j = 1..Len(j) /\ DOMAIN k = 1..(Len(j) + 1)
      /\ k[Len(j) + 1] = f
      /\ \A n \in 1..Len(j) : k[n] = j[n] /\ j[n] \in Range(j)
  BY AppendPositions
<1> HIDE DEF k
<1>2. ASSUME NEW a, NEW b, SameOutcome(a, b) PROVE SameOutcome(b, a)
  BY <1>2 DEF SameOutcome
<1>3. ASSUME NEW p \in DOMAIN k, NEW q \in DOMAIN k, SameOutcome(k[p], k[q]) PROVE p = q
  <2>1. /\ p \in 1..Len(j) \/ p = Len(j) + 1
        /\ q \in 1..Len(j) \/ q = Len(j) + 1
    BY <1>1
  <2>2. CASE p \in 1..Len(j) /\ q \in 1..Len(j)
    BY <1>1, <1>3, <2>2 DEF OnceIn
  <2>3. CASE p \in 1..Len(j) /\ q = Len(j) + 1
    BY <1>1, <1>3, <2>3
  <2>4. CASE p = Len(j) + 1 /\ q \in 1..Len(j)
    BY <1>1, <1>2, <1>3, <2>4
  <2>5. QED
    BY <2>1, <2>2, <2>3, <2>4
<1>4. QED
  BY <1>3 DEF OnceIn, k

\* Facts whose repetition is not an outcome.
LEMMA RepeatableFact ==
    ASSUME NEW e, NEW f,
           f.type \in {"StepStarted", "StepFailed", "HumanApprovalRecorded",
                       "HumanDeferralRecorded"}
    PROVE  ~SameOutcome(e, f)
  BY DEF SameOutcome

\* Every step seals only outcomes the journal does not hold yet.
LEMMA OutcomesStep ==
    ASSUME TypeOK, TypeOK', JournalAgreesWithSession, OutcomesSealedOnce, [Next]_vars
    PROVE  OutcomesSealedOnce'
<1>1. OnceIn(journal) /\ journal \in Seq(Fact)
  BY DEF OutcomesSealedOnce, OnceIn, TypeOK
<1> SUFFICES OnceIn(journal')
  BY DEF OutcomesSealedOnce, OnceIn
<1>2. CASE OpenSession
  <2>1. journal = <<>>
    BY <1>2, OpenEffect DEF JournalAgreesWithSession
  <2>2. Range(journal) = {}
    BY <2>1 DEF Range
  <2>3. QED
    BY <1>1, <1>2, <2>2, OpenEffect, OnceAppend
<1>3. CASE ClaimStep
  <2>1. PICK step \in Steps, key \in Keys, t \in Nat : Claims(step, key, t)
    BY <1>3, ClaimEffect
  <2> DEFINE f == StepStarted(step, instance'.records[step].attempt)
  <2>2. f.type = "StepStarted"
    BY DEF StepStarted, FactOf
  <2>3. f \in Fact /\ journal' = Append(journal, f)
    BY <2>1 DEF Claims
  <2> HIDE DEF f
  <2>4. QED
    BY <1>1, <2>2, <2>3, OnceAppend, RepeatableFact
<1>4. CASE CompleteStep \/ FinishStep
  <2>1. PICK step \in Steps, status \in ResultStatus, attempt \in Nat \ {0} :
          Reports(step, status, attempt)
    BY <1>4, ResultEffect
  <2> DEFINE f == StepFinished(step, attempt, status)
  <2>2. f.type \in {"StepCompleted", "StepFailed"} /\ f.about = step
    BY DEF StepFinished, FactOf
  <2>3. f \in Fact /\ journal' = Append(journal, f)
    BY <2>1 DEF Reports
  <2> HIDE DEF f
  <2>4. Numbers(journal, "StepCompleted", step) = {}
    <3>1. instance # NoSession /\ instance.records[step].status = "InProgress"
      BY <2>1, NoSessionAssumption DEF Reports, CanApplyStepResult
    <3>2. QED
      BY <3>1 DEF JournalAgreesWithSession, CompletionsAgree
  <2>5. \A e \in Range(journal) : ~SameOutcome(e, f)
    BY <2>2, <2>4, NumberOfFact DEF SameOutcome
  <2>6. QED
    BY <1>1, <2>3, <2>5, OnceAppend
<1>5. CASE ApplyTransition
  <2>1. PICK trigger \in Triggers : Moves(trigger)
    BY <1>5, MoveEffect
  <2> DEFINE n == Len(instance.moves) + 1
             moved == FactOf("TransitionApplied", Session, n)
             ended == FactOf("CeremonyCompleted", Session, n)
             mid == Append(journal, moved)
  <2> HIDE DEF moved, ended
  <2>2. /\ instance # NoSession
        /\ Len(instance.moves) \in Nat
        /\ moved.type = "TransitionApplied" /\ moved.about = Session /\ moved.number = n
        /\ ended.type = "CeremonyCompleted" /\ ended.about = Session
    BY <1>1, <2>1, MoveOrdinal DEF moved, ended
  <2>3. moved \in Fact /\ ended \in Fact
    BY <1>1, <2>1, MoveOrdinal DEF moved, ended
  <2>4. journal' = IF IsTerminal(instance') THEN Append(mid, ended) ELSE mid
    BY <1>1, <2>1, MoveOrdinal DEF moved, ended
  <2>6. n \notin Numbers(journal, "TransitionApplied", Session)
    BY <2>2 DEF JournalAgreesWithSession, MovesAgree
  <2>7. \A e \in Range(journal) : ~SameOutcome(e, moved)
    BY <2>2, <2>6, NumberOfFact DEF SameOutcome
  <2>8. OnceIn(mid) /\ mid \in Seq(Fact) /\ Range(mid) = Range(journal) \cup {moved}
    BY <1>1, <2>3, <2>7, OnceAppend, AppendOne, RangeAppend
  <2> HIDE DEF mid
  <2>9. Numbers(journal, "CeremonyCompleted", Session) = {}
    BY <2>1, <2>2 DEF Moves, CanMoveOn, JournalAgreesWithSession, EndingAgrees
  <2>10. \A e \in Range(mid) : ~SameOutcome(e, ended)
    <3>1. ~SameOutcome(moved, ended)
      BY <2>2 DEF SameOutcome
    <3>2. \A e \in Range(journal) : ~SameOutcome(e, ended)
      BY <2>2, <2>9, NumberOfFact DEF SameOutcome
    <3>3. QED
      BY <2>8, <3>1, <3>2
  <2>11. OnceIn(Append(mid, ended))
    BY <2>3, <2>8, <2>10, OnceAppend
  <2>12. QED
    BY <2>4, <2>8, <2>11
<1>6. CASE DecideGuard
  <2>1. PICK g \in Guards : Approves(g) \/ Defers(g)
    BY <1>6, GuardEffect
  <2>2. PICK f \in Fact : /\ f.type \in {"HumanApprovalRecorded", "HumanDeferralRecorded"}
                          /\ journal' = Append(journal, f)
    BY <2>1 DEF Approves, Defers, FactOf
  <2>3. QED
    BY <1>1, <2>2, OnceAppend, RepeatableFact
<1>7. CASE Tick \/ UNCHANGED vars
  BY <1>1, <1>7 DEF Tick, vars
<1>8. QED
  BY <1>2, <1>3, <1>4, <1>5, <1>6, <1>7 DEF Next

(***************************************************************************)
(* Opening, completing a step over all its attempts, a move and finishing  *)
(* are each sealed at most once, whatever is retried.                      *)
(***************************************************************************)
THEOREM OutcomesAreSealedOnce == Spec => []OutcomesSealedOnce
<1>1. Init => OutcomesSealedOnce
  BY DEF Init, OutcomesSealedOnce
<1>2. QED
  BY <1>1, TypeCorrect, JournalAlwaysAgrees, OutcomesStep, PTL DEF Spec

-----------------------------------------------------------------------------
EndingsFollowIn(j) ==
    \A q \in DOMAIN j :
        j[q].type \in {"StepCompleted", "StepFailed"} =>
            \E p \in 1..(q - 1) : j[p] = StepStarted(j[q].about, j[q].number)

\* An ending whose claim is already sealed keeps endings after claims.
LEMMA EndingsAppend ==
    ASSUME NEW j \in Seq(Fact), NEW f \in Fact, EndingsFollowIn(j),
           f.type \in {"StepCompleted", "StepFailed"} =>
                StepStarted(f.about, f.number) \in Range(j)
    PROVE  EndingsFollowIn(Append(j, f))
<1> DEFINE k == Append(j, f)
<1>1. /\ Len(j) \in Nat /\ DOMAIN j = 1..Len(j) /\ DOMAIN k = 1..(Len(j) + 1)
      /\ k[Len(j) + 1] = f
      /\ \A n \in 1..Len(j) : k[n] = j[n]
  BY AppendPositions
<1> HIDE DEF k
<1>2. ASSUME NEW q \in DOMAIN k, k[q].type \in {"StepCompleted", "StepFailed"}
      PROVE  \E p \in 1..(q - 1) : k[p] = StepStarted(k[q].about, k[q].number)
  <2>1. CASE q \in 1..Len(j)
    <3>1. PICK p \in 1..(q - 1) : j[p] = StepStarted(j[q].about, j[q].number)
      BY <1>1, <1>2, <2>1 DEF EndingsFollowIn
    <3>2. p \in 1..Len(j)
      BY <1>1, <2>1
    <3>3. QED
      BY <1>1, <2>1, <3>1, <3>2
  <2>2. CASE q = Len(j) + 1
    <3>1. k[q] = f
      BY <1>1, <2>2
    <3>2. PICK p \in DOMAIN j : j[p] = StepStarted(f.about, f.number)
      BY <1>2, <3>1 DEF Range
    <3>3. p \in 1..(q - 1) /\ k[p] = j[p]
      BY <1>1, <2>2
    <3>4. QED
      BY <3>1, <3>2, <3>3
  <2>3. QED
    BY <1>1, <2>1, <2>2
<1>3. QED
  BY <1>2 DEF EndingsFollowIn, k

\* Facts that are not endings.
LEMMA EndingsAppendOther ==
    ASSUME NEW j \in Seq(Fact), NEW f \in Fact, EndingsFollowIn(j),
           f.type \notin {"StepCompleted", "StepFailed"}
    PROVE  EndingsFollowIn(Append(j, f))
  BY EndingsAppend

\* Every step seals endings only of claimed attempts.
LEMMA EndingsStep ==
    ASSUME TypeOK, JournalAgreesWithSession, EndingFollowsClaim, [Next]_vars
    PROVE  EndingFollowsClaim'
<1>1. EndingsFollowIn(journal) /\ journal \in Seq(Fact)
  BY DEF EndingFollowsClaim, EndingsFollowIn, TypeOK
<1> SUFFICES EndingsFollowIn(journal')
  BY DEF EndingFollowsClaim, EndingsFollowIn
<1>2. CASE OpenSession
  BY <1>1, <1>2, OpenEffect, EndingsAppendOther DEF FactOf
<1>3. CASE ClaimStep
  <2>1. PICK step \in Steps, key \in Keys, t \in Nat : Claims(step, key, t)
    BY <1>3, ClaimEffect
  <2>2. PICK f \in Fact : f.type = "StepStarted" /\ journal' = Append(journal, f)
    BY <2>1 DEF Claims, StepStarted, FactOf
  <2>3. QED
    BY <1>1, <2>2, EndingsAppendOther
<1>4. CASE CompleteStep \/ FinishStep
  <2>1. PICK step \in Steps, status \in ResultStatus, attempt \in Nat \ {0} :
          Reports(step, status, attempt)
    BY <1>4, ResultEffect
  <2> DEFINE f == StepFinished(step, attempt, status)
  <2>2. f.about = step /\ f.number = attempt
    BY DEF StepFinished, FactOf
  <2>3. f \in Fact /\ journal' = Append(journal, f)
    BY <2>1 DEF Reports
  <2> HIDE DEF f
  <2>4. StepStarted(step, attempt) \in Range(journal)
    <3>1. CASE attempt = instance.records[step].attempt
      <4>1. instance \in Instance /\ instance # NoSession
            /\ instance.records[step].status = "InProgress"
        BY <2>1, NoSessionAssumption DEF Reports, CanApplyStepResult
      <4>2. Numbers(journal, "StepStarted", step) = 1..attempt
        BY <3>1, <4>1 DEF JournalAgreesWithSession, StartsAgree
      <4>3. attempt \in Numbers(journal, "StepStarted", step)
        BY <4>2
      <4>4. PICK e \in Range(journal) :
              e.type = "StepStarted" /\ e.about = step /\ e.number = attempt
        BY <4>3 DEF Numbers
      <4>5. e \in Fact
        BY <1>1 DEF Range
      <4>6. e = StepStarted(step, attempt)
        BY <4>4, <4>5 DEF Fact, StepFacts, GuardFacts, SessionFacts, StepStarted, FactOf
      <4>7. QED
        BY <4>4, <4>6
    <3>2. QED
      BY <2>1, <3>1 DEF Reports
  <2>5. QED
    BY <1>1, <2>2, <2>3, <2>4, EndingsAppend
<1>5. CASE ApplyTransition
  <2>1. PICK trigger \in Triggers : Moves(trigger)
    BY <1>5, MoveEffect
  <2> DEFINE n == Len(instance.moves) + 1
             moved == FactOf("TransitionApplied", Session, n)
             ended == FactOf("CeremonyCompleted", Session, n)
             mid == Append(journal, moved)
  <2> HIDE DEF moved, ended
  <2>2. /\ moved \in Fact /\ moved.type = "TransitionApplied"
        /\ ended \in Fact /\ ended.type = "CeremonyCompleted"
    BY <1>1, <2>1, MoveOrdinal DEF moved, ended
  <2>3. journal' = IF IsTerminal(instance') THEN Append(mid, ended) ELSE mid
    BY <1>1, <2>1, MoveOrdinal DEF moved, ended
  <2>4. EndingsFollowIn(mid) /\ mid \in Seq(Fact)
    BY <1>1, <2>2, EndingsAppendOther, AppendOne
  <2> HIDE DEF mid
  <2>5. EndingsFollowIn(Append(mid, ended))
    BY <2>2, <2>4, EndingsAppendOther
  <2>6. QED
    BY <2>3, <2>4, <2>5
<1>6. CASE DecideGuard
  <2>1. PICK g \in Guards : Approves(g) \/ Defers(g)
    BY <1>6, GuardEffect
  <2>2. PICK f \in Fact : /\ f.type \in {"HumanApprovalRecorded", "HumanDeferralRecorded"}
                          /\ journal' = Append(journal, f)
    BY <2>1 DEF Approves, Defers, FactOf
  <2>3. QED
    BY <1>1, <2>2, EndingsAppendOther
<1>7. CASE Tick \/ UNCHANGED vars
  BY <1>1, <1>7 DEF Tick, vars
<1>8. QED
  BY <1>2, <1>3, <1>4, <1>5, <1>6, <1>7 DEF Next

(***************************************************************************)
(* Whoever reports, and however late: the attempt an ending names was      *)
(* sealed as started before it.                                            *)
(***************************************************************************)
THEOREM EndingsFollowClaims == Spec => []EndingFollowsClaim
<1>1. Init => EndingFollowsClaim
  BY DEF Init, EndingFollowsClaim
<1>2. QED
  BY <1>1, TypeCorrect, JournalAlwaysAgrees, EndingsStep, PTL DEF Spec

-----------------------------------------------------------------------------
\* An unfinished session has no ending in its journal.
LEMMA OpenJournal ==
    ASSUME TypeOK, JournalAgreesWithSession, instance # NoSession, ~IsTerminal(instance)
    PROVE  \A p \in DOMAIN journal : journal[p].type # "CeremonyCompleted"
<1> SUFFICES ASSUME NEW p \in DOMAIN journal, journal[p].type = "CeremonyCompleted"
             PROVE  FALSE
  OBVIOUS
<1>1. journal[p] \in Fact /\ journal[p] \in Range(journal)
  BY DEF TypeOK, Range
<1>2. journal[p].about = Session
  BY <1>1 DEF Fact, StepFacts, GuardFacts, SessionFacts
<1>3. journal[p].number \in Numbers(journal, "CeremonyCompleted", Session)
  BY <1>1, <1>2, NumberOfFact
<1>4. QED
  BY <1>3 DEF JournalAgreesWithSession, EndingAgrees

\* Every call but the opening one needs a session that is not finished.
LEMMA OnlyUnfinishedAdvance ==
    ASSUME TypeOK, ClaimStep \/ CompleteStep \/ FinishStep \/ ApplyTransition \/ DecideGuard
    PROVE  instance # NoSession /\ ~IsTerminal(instance)
<1>1. CASE ClaimStep
  BY <1>1, ClaimEffect, NoSessionAssumption DEF Claims, CanStartStep
<1>2. CASE CompleteStep \/ FinishStep
  <2>1. PICK step \in Steps, status \in ResultStatus, attempt \in Nat \ {0} :
          Reports(step, status, attempt)
    BY <1>2, ResultEffect
  <2>2. StepState[step] \notin TerminalStates
    BY StepsAssumption
  <2>3. QED
    BY <2>1, <2>2, NoSessionAssumption DEF Reports, CanApplyStepResult, IsTerminal
<1>3. CASE ApplyTransition
  BY <1>3, MoveEffect, NoSessionAssumption DEF Moves, CanMoveOn
<1>4. CASE DecideGuard
  BY <1>4, GuardEffect, NoSessionAssumption
     DEF Approves, Defers, CanApproveGuard, CanDeferGuard
<1>5. QED
  BY <1>1, <1>2, <1>3, <1>4

ClosedIn(j) == \A p \in DOMAIN j : j[p].type = "CeremonyCompleted" => p = Len(j)

\* While nothing was sealed as finished, one more fact leaves the ending,
\* if any, in the last place.
LEMMA ClosedAppend ==
    ASSUME NEW j \in Seq(Fact), NEW f \in Fact,
           \A p \in DOMAIN j : j[p].type # "CeremonyCompleted"
    PROVE  /\ ClosedIn(Append(j, f))
           /\ f.type # "CeremonyCompleted" =>
                \A p \in DOMAIN Append(j, f) : Append(j, f)[p].type # "CeremonyCompleted"
<1> DEFINE k == Append(j, f)
<1>1. /\ Len(j) \in Nat /\ DOMAIN j = 1..Len(j) /\ DOMAIN k = 1..(Len(j) + 1)
      /\ k[Len(j) + 1] = f /\ Len(k) = Len(j) + 1
      /\ \A n \in 1..Len(j) : k[n] = j[n]
  BY AppendPositions
<1> HIDE DEF k
<1>2. \A p \in DOMAIN k : p \in DOMAIN j \/ p = Len(j) + 1
  BY <1>1
<1>3. ClosedIn(k)
  BY <1>1, <1>2 DEF ClosedIn
<1>4. f.type # "CeremonyCompleted" => \A p \in DOMAIN k : k[p].type # "CeremonyCompleted"
  BY <1>1, <1>2
<1>5. QED
  BY <1>3, <1>4 DEF k

\* Every step but a stutter starts from a journal without an ending.
LEMMA ClosedStep ==
    ASSUME TypeOK, JournalAgreesWithSession, ClosedOnceCompleted, [Next]_vars
    PROVE  ClosedOnceCompleted'
<1>1. ClosedIn(journal) /\ journal \in Seq(Fact)
  BY DEF ClosedOnceCompleted, ClosedIn, TypeOK
<1> SUFFICES ClosedIn(journal')
  BY DEF ClosedOnceCompleted, ClosedIn
<1>2. CASE OpenSession
  <2>1. \A p \in DOMAIN journal : journal[p].type # "CeremonyCompleted"
    BY <1>2, OpenEffect DEF JournalAgreesWithSession
  <2>2. PICK f \in Fact : journal' = Append(journal, f)
    BY <1>2, OpenEffect
  <2>3. QED
    BY <1>1, <2>1, <2>2, ClosedAppend
<1>3. CASE ClaimStep \/ CompleteStep \/ FinishStep \/ DecideGuard
  <2>1. \A p \in DOMAIN journal : journal[p].type # "CeremonyCompleted"
    BY <1>3, OnlyUnfinishedAdvance, OpenJournal
  <2>2. \E f \in Fact : journal' = Append(journal, f)
    <3>1. CASE ClaimStep
      BY <3>1, ClaimEffect DEF Claims
    <3>2. CASE CompleteStep \/ FinishStep
      BY <3>2, ResultEffect DEF Reports
    <3>3. CASE DecideGuard
      BY <3>3, GuardEffect DEF Approves, Defers
    <3>4. QED
      BY <1>3, <3>1, <3>2, <3>3
  <2>3. QED
    BY <1>1, <2>1, <2>2, ClosedAppend
<1>4. CASE ApplyTransition
  <2>1. PICK trigger \in Triggers : Moves(trigger)
    BY <1>4, MoveEffect
  <2>2. \A p \in DOMAIN journal : journal[p].type # "CeremonyCompleted"
    BY <1>4, OnlyUnfinishedAdvance, OpenJournal
  <2> DEFINE n == Len(instance.moves) + 1
             moved == FactOf("TransitionApplied", Session, n)
             ended == FactOf("CeremonyCompleted", Session, n)
             mid == Append(journal, moved)
  <2> HIDE DEF moved, ended
  <2>3. moved \in Fact /\ moved.type = "TransitionApplied" /\ ended \in Fact
    BY <1>1, <2>1, MoveOrdinal DEF moved, ended
  <2>4. journal' = IF IsTerminal(instance') THEN Append(mid, ended) ELSE mid
    BY <1>1, <2>1, MoveOrdinal DEF moved, ended
  <2>5. /\ ClosedIn(mid) /\ mid \in Seq(Fact)
        /\ \A p \in DOMAIN mid : mid[p].type # "CeremonyCompleted"
    BY <1>1, <2>2, <2>3, ClosedAppend, AppendOne
  <2> HIDE DEF mid
  <2>6. ClosedIn(Append(mid, ended))
    BY <2>3, <2>5, ClosedAppend
  <2>7. QED
    BY <2>4, <2>5, <2>6
<1>5. CASE Tick \/ UNCHANGED vars
  BY <1>1, <1>5 DEF Tick, vars
<1>6. QED
  BY <1>2, <1>3, <1>4, <1>5 DEF Next

(***************************************************************************)
(* A finished session is closed: a result, a claim or a decision that      *)
(* arrives after the ending is refused, and nothing follows it.            *)
(***************************************************************************)
THEOREM FinishedIsClosed == Spec => []ClosedOnceCompleted
<1>1. Init => ClosedOnceCompleted
  BY DEF Init, ClosedOnceCompleted
<1>2. QED
  BY <1>1, TypeCorrect, JournalAlwaysAgrees, ClosedStep, PTL DEF Spec

-----------------------------------------------------------------------------
NoDeferralAfterIn(j) ==
    \A p, q \in DOMAIN j :
        /\ j[p].type = "HumanApprovalRecorded"
        /\ j[q].type = "HumanDeferralRecorded"
        /\ j[p].about = j[q].about
        => q < p

\* A deferral of a guard nobody approved yet keeps deferrals before approvals.
LEMMA DeferralsAppend ==
    ASSUME NEW j \in Seq(Fact), NEW f \in Fact, NoDeferralAfterIn(j),
           f.type = "HumanDeferralRecorded" =>
                \A e \in Range(j) : ~(e.type = "HumanApprovalRecorded" /\ e.about = f.about)
    PROVE  NoDeferralAfterIn(Append(j, f))
<1> DEFINE k == Append(j, f)
<1>1. /\ Len(j) \in Nat /\ DOMAIN j = 1..Len(j) /\ DOMAIN k = 1..(Len(j) + 1)
      /\ k[Len(j) + 1] = f
      /\ \A n \in 1..Len(j) : k[n] = j[n] /\ j[n] \in Range(j)
  BY AppendPositions
<1> HIDE DEF k
<1>2. ASSUME NEW p \in DOMAIN k, NEW q \in DOMAIN k, k[p].type = "HumanApprovalRecorded",
             k[q].type = "HumanDeferralRecorded", k[p].about = k[q].about
      PROVE  q < p
  <2>1. CASE p = Len(j) + 1
    <3>1. q # Len(j) + 1
      BY <1>2, <2>1
    <3>2. QED
      BY <1>1, <2>1, <3>1
  <2>2. CASE p \in 1..Len(j) /\ q \in 1..Len(j)
    BY <1>1, <1>2, <2>2 DEF NoDeferralAfterIn
  <2>3. CASE p \in 1..Len(j) /\ q = Len(j) + 1
    <3>1. k[q] = f /\ k[p] \in Range(j)
      BY <1>1, <2>3
    <3>2. QED
      BY <1>2, <3>1
  <2>4. QED
    BY <1>1, <2>1, <2>2, <2>3
<1>3. QED
  BY <1>2 DEF NoDeferralAfterIn, k

\* Facts that are not deferrals.
LEMMA DeferralsAppendOther ==
    ASSUME NEW j \in Seq(Fact), NEW f \in Fact, NoDeferralAfterIn(j),
           f.type # "HumanDeferralRecorded"
    PROVE  NoDeferralAfterIn(Append(j, f))
  BY DeferralsAppend

\* Every step seals a deferral only of a guard that is not approved.
LEMMA DeferralsStep ==
    ASSUME TypeOK, JournalAgreesWithSession, NoDeferralAfterApproval, [Next]_vars
    PROVE  NoDeferralAfterApproval'
<1>1. NoDeferralAfterIn(journal) /\ journal \in Seq(Fact)
  BY DEF NoDeferralAfterApproval, NoDeferralAfterIn, TypeOK
<1> SUFFICES NoDeferralAfterIn(journal')
  BY DEF NoDeferralAfterApproval, NoDeferralAfterIn
<1>2. CASE OpenSession
  BY <1>1, <1>2, OpenEffect, DeferralsAppendOther DEF FactOf
<1>3. CASE ClaimStep
  <2>1. PICK f \in Fact : f.type = "StepStarted" /\ journal' = Append(journal, f)
    BY <1>3, ClaimEffect DEF Claims, StepStarted, FactOf
  <2>2. QED
    BY <1>1, <2>1, DeferralsAppendOther
<1>4. CASE CompleteStep \/ FinishStep
  <2>1. PICK f \in Fact : /\ f.type \in {"StepCompleted", "StepFailed"}
                          /\ journal' = Append(journal, f)
    BY <1>4, ResultEffect DEF Reports, StepFinished, FactOf
  <2>2. QED
    BY <1>1, <2>1, DeferralsAppendOther
<1>5. CASE ApplyTransition
  <2>1. PICK trigger \in Triggers : Moves(trigger)
    BY <1>5, MoveEffect
  <2> DEFINE n == Len(instance.moves) + 1
             moved == FactOf("TransitionApplied", Session, n)
             ended == FactOf("CeremonyCompleted", Session, n)
             mid == Append(journal, moved)
  <2> HIDE DEF moved, ended
  <2>2. /\ moved \in Fact /\ moved.type = "TransitionApplied"
        /\ ended \in Fact /\ ended.type = "CeremonyCompleted"
    BY <1>1, <2>1, MoveOrdinal DEF moved, ended
  <2>3. journal' = IF IsTerminal(instance') THEN Append(mid, ended) ELSE mid
    BY <1>1, <2>1, MoveOrdinal DEF moved, ended
  <2>4. NoDeferralAfterIn(mid) /\ mid \in Seq(Fact)
    BY <1>1, <2>2, DeferralsAppendOther, AppendOne
  <2> HIDE DEF mid
  <2>5. NoDeferralAfterIn(Append(mid, ended))
    BY <2>2, <2>4, DeferralsAppendOther
  <2>6. QED
    BY <2>3, <2>4, <2>5
<1>6. CASE DecideGuard
  <2>1. PICK g \in Guards : Approves(g) \/ Defers(g)
    BY <1>6, GuardEffect
  <2>2. CASE Approves(g)
    <3>1. PICK f \in Fact : /\ f.type = "HumanApprovalRecorded"
                            /\ journal' = Append(journal, f)
      BY <2>2 DEF Approves, FactOf
    <3>2. QED
      BY <1>1, <3>1, DeferralsAppendOther
  <2>3. CASE Defers(g)
    <3> DEFINE f == FactOf("HumanDeferralRecorded", g, 0)
    <3>1. f.about = g
      BY DEF FactOf
    <3>2. f \in Fact /\ journal' = Append(journal, f)
      BY <2>3 DEF Defers
    <3> HIDE DEF f
    <3>3. g \notin instance.approved /\ instance # NoSession
      BY <2>3, NoSessionAssumption DEF Defers, CanDeferGuard
    <3>4. Numbers(journal, "HumanApprovalRecorded", g) = {}
      BY <3>3 DEF JournalAgreesWithSession, DecisionsAgree
    <3>5. \A e \in Range(journal) : ~(e.type = "HumanApprovalRecorded" /\ e.about = g)
      BY <3>4, NumberOfFact
    <3>6. QED
      BY <1>1, <3>1, <3>2, <3>5, DeferralsAppend
  <2>4. QED
    BY <2>1, <2>2, <2>3
<1>7. CASE Tick \/ UNCHANGED vars
  BY <1>1, <1>7 DEF Tick, vars
<1>8. QED
  BY <1>2, <1>3, <1>4, <1>5, <1>6, <1>7 DEF Next

(***************************************************************************)
(* Once a human approved a guard, no deferral of it is ever sealed.        *)
(***************************************************************************)
THEOREM ApprovalsAreFinal == Spec => []NoDeferralAfterApproval
<1>1. Init => NoDeferralAfterApproval
  BY DEF Init, NoDeferralAfterApproval
<1>2. QED
  BY <1>1, TypeCorrect, JournalAlwaysAgrees, DeferralsStep, PTL DEF Spec

-----------------------------------------------------------------------------
\* The moves of a session that does not move stay where they are.
LEMMA PathKept ==
    ASSUME StateAccountedFor, instance # NoSession,
           instance'.state = instance.state, instance'.moves = instance.moves
    PROVE  StateAccountedFor'
  BY DEF StateAccountedFor

\* A move starts where the path ended.
LEMMA PathStep ==
    ASSUME TypeOK, StateAccountedFor, [Next]_vars
    PROVE  StateAccountedFor'
<1>1. CASE OpenSession
  <2>1. instance'.moves = <<>> /\ instance'.state = InitialState
    BY <1>1, OpenEffect DEF Opened
  <2>2. QED
    BY <2>1 DEF StateAccountedFor
<1>2. CASE ClaimStep
  <2>1. PICK step \in Steps, key \in Keys, t \in Nat : Claims(step, key, t)
    BY <1>2, ClaimEffect
  <2>2. QED
    BY <2>1, StartStepFields, PathKept, NoSessionAssumption DEF Claims
<1>3. CASE CompleteStep \/ FinishStep
  <2>1. PICK step \in Steps, status \in ResultStatus, attempt \in Nat \ {0} :
          Reports(step, status, attempt)
    BY <1>3, ResultEffect
  <2>2. QED
    BY <2>1, ApplyStepResultFields, PathKept, NoSessionAssumption DEF Reports
<1>4. CASE ApplyTransition
  <2>1. PICK trigger \in Triggers : Moves(trigger)
    BY <1>4, MoveEffect
  <2> DEFINE t == TransitionForTrigger(instance.state, trigger)
             m == instance.moves
             move == [trigger |-> trigger, from |-> instance.state, to |-> t.to]
             n == Len(m)
  <2>2. instance \in Instance /\ instance # NoSession /\ m \in Seq(Move)
    BY <2>1, NoSessionAssumption DEF Moves, Instance
  <2>3. instance'.moves = Append(m, move) /\ instance'.state = t.to
    BY <2>1, MoveOnFields DEF Moves
  <2>4. t \in Transitions /\ t.from = instance.state /\ t.trigger = trigger
        /\ t.to \in States /\ instance.state \in States
    BY <2>1, <2>2, TransitionFound DEF Moves, Instance
  <2>5. move.from = instance.state /\ move.to = t.to /\ move.trigger = trigger
        /\ move \in Move
    BY <2>4 DEF Move
  <2> HIDE DEF t, move
  <2> DEFINE k == Append(m, move)
  <2>6. /\ n \in Nat /\ DOMAIN m = 1..n /\ DOMAIN k = 1..(n + 1) /\ Len(k) = n + 1
        /\ k[n + 1] = move /\ \A x \in 1..n : k[x] = m[x]
    BY <2>2, <2>5
  <2> HIDE DEF k, m, n
  <2>7. /\ \A x \in DOMAIN m :
             /\ m[x].from = IF x = 1 THEN InitialState ELSE m[x - 1].to
             /\ \E u \in Transitions : /\ u.from = m[x].from
                                       /\ u.to = m[x].to
                                       /\ u.trigger = m[x].trigger
        /\ instance.state = IF n + 1 = 1 THEN InitialState ELSE m[n + 1 - 1].to
    BY <2>2 DEF StateAccountedFor, m, n
  <2>8. ASSUME NEW x \in DOMAIN k
        PROVE  /\ k[x].from = IF x = 1 THEN InitialState ELSE k[x - 1].to
               /\ \E u \in Transitions : /\ u.from = k[x].from
                                         /\ u.to = k[x].to
                                         /\ u.trigger = k[x].trigger
    <3>1. CASE x \in 1..n
      <4>1. k[x] = m[x] /\ x \in DOMAIN m
        BY <2>6, <3>1
      <4>2. x # 1 => k[x - 1] = m[x - 1]
        BY <2>6, <3>1
      <4>3. QED
        BY <2>7, <4>1, <4>2
    <3>2. CASE x = n + 1
      <4>1. k[x] = move
        BY <2>6, <3>2
      <4>2. x # 1 => k[x - 1] = m[n]
        BY <2>6, <3>2
      <4>3. instance.state = IF x = 1 THEN InitialState ELSE k[x - 1].to
        BY <2>6, <2>7, <3>2, <4>2
      <4>4. QED
        BY <2>4, <2>5, <4>1, <4>3
    <3>3. QED
      BY <2>6, <3>1, <3>2
  <2>9. instance'.state = IF Len(k) + 1 = 1 THEN InitialState ELSE k[Len(k) + 1 - 1].to
    BY <2>3, <2>5, <2>6
  <2>10. instance'.moves = k
    BY <2>3 DEF k, m
  <2>11. QED
    BY <2>8, <2>9, <2>10 DEF StateAccountedFor
<1>5. CASE DecideGuard
  <2>1. PICK g \in Guards : Approves(g) \/ Defers(g)
    BY <1>5, GuardEffect
  <2>2. QED
    BY <2>1, ApproveGuardFields, DeferGuardFields, PathKept, NoSessionAssumption
       DEF Approves, Defers
<1>6. CASE Tick \/ UNCHANGED vars
  BY <1>6 DEF Tick, vars, StateAccountedFor
<1>7. QED
  BY <1>1, <1>2, <1>3, <1>4, <1>5, <1>6 DEF Next

(***************************************************************************)
(* The recorded moves are declared transitions and lead, one after the     *)
(* other, from the initial state to the state the session is in.           *)
(***************************************************************************)
THEOREM StateIsAccountedFor == Spec => []StateAccountedFor
<1>1. Init => StateAccountedFor
  BY DEF Init, StateAccountedFor
<1>2. QED
  BY <1>1, TypeCorrect, PathStep, PTL DEF Spec
-----------------------------------------------------------------------------
\* A journal that grew by a fact, or by two, kept what it held.
LEMMA JournalGrew ==
    ASSUME NEW j \in Seq(Fact), NEW f \in Fact, NEW g \in Fact, NEW k \in {Append(j, f), Append(Append(j, f), g)}
    PROVE  Len(j) < Len(k) /\ \A n \in DOMAIN j : k[n] = j[n]
<1> DEFINE l == Append(j, f)
           m == Append(l, g)
<1>1. /\ l \in Seq(Fact) /\ Len(j) \in Nat /\ Len(l) = Len(j) + 1 /\ DOMAIN j = 1..Len(j)
      /\ \A n \in 1..Len(j) : l[n] = j[n]
  BY AppendPositions
<1> HIDE DEF l
<1>2. Len(m) = Len(l) + 1 /\ \A n \in 1..Len(l) : m[n] = l[n]
  BY <1>1, AppendPositions
<1> HIDE DEF m
<1>3. \A n \in 1..Len(j) : n \in 1..Len(l)
  BY <1>1
<1>4. Len(j) < Len(l) /\ Len(j) < Len(m)
  BY <1>1, <1>2
<1>5. \A n \in DOMAIN j : l[n] = j[n] /\ m[n] = j[n]
  BY <1>1, <1>2, <1>3
<1>6. QED
  BY <1>4, <1>5 DEF l, m

\* Each action keeps what there was, and adds to the journal.
LEMMA KeepingStep ==
    ASSUME TypeOK, [Next]_vars
    PROVE  [NothingTakenBack]_<<instance, journal>>
<1> USE DEF TypeOK
<1>0. instance \in Instance => instance # NoSession /\ \A s \in Steps : instance.records[s].attempt \in Nat
  BY NoSessionAssumption DEF Instance, StepRecord
<1>1. CASE Tick \/ UNCHANGED vars
  BY <1>1 DEF Tick, vars
<1>2. CASE OpenSession
  <2>1. instance = NoSession
    BY <1>2, OpenEffect
  <2>2. Len(journal) < Len(journal') /\ \A n \in DOMAIN journal : journal'[n] = journal[n]
    BY <1>2, OpenEffect, JournalGrew
  <2>3. QED
    BY <2>1, <2>2 DEF NothingTakenBack
<1>3. CASE ClaimStep
  <2>1. PICK step \in Steps, key \in Keys, t \in Nat : Claims(step, key, t)
    BY <1>3, ClaimEffect
  <2> DEFINE i == instance
             j == StartStep(i, step, key, t)
  <2>2. i \in Instance /\ instance' = j /\ CanStartStep(i, step, key, t)
    BY <2>1 DEF Claims
  <2>3. Follows(i, j)
    BY <2>2, StartFollows
  <2>4. /\ j.records[step] = WithStarted(i.records[step], key, t)
        /\ \A s \in Steps \ {step} : j.records[s] = i.records[s]
        /\ j.keys = i.keys \cup {key} /\ j.approved = i.approved
    BY <2>2, StartStepFields
  <2>5. i.records[step].attempt <= j.records[step].attempt
    <3>1. i.records[step] \in StepRecord
      BY <2>2 DEF Instance
    <3>2. j.records[step].attempt = NextAttemptForStart(i.records[step])
      BY <2>4, <3>1, RecordFields
    <3>3. QED
      BY <3>1, <3>2 DEF NextAttemptForStart, StepRecord
  <2>6. Len(journal) < Len(journal') /\ \A n \in DOMAIN journal : journal'[n] = journal[n]
    BY <2>1, JournalGrew DEF Claims
  <2> HIDE DEF i, j
  <2>7. \A s \in Steps : i.records[s].attempt <= j.records[s].attempt
    BY <1>0, <2>2, <2>4, <2>5 DEF i
  <2>8. i.keys \subseteq j.keys /\ i.approved \subseteq j.approved
    BY <2>4
  <2>9. QED
    BY <2>2, <2>3, <2>6, <2>7, <2>8 DEF NothingTakenBack, i
<1>4. CASE CompleteStep \/ FinishStep
  <2>1. PICK step \in Steps, status \in ResultStatus, attempt \in Nat \ {0} :
          Reports(step, status, attempt)
    BY <1>4, ResultEffect
  <2> DEFINE i == instance
             j == ApplyStepResult(i, step, status)
  <2>2. i \in Instance /\ instance' = j /\ CanApplyStepResult(i, step)
    BY <2>1 DEF Reports
  <2>3. Follows(i, j)
    BY <2>2, ResultFollows
  <2>4. /\ j.records[step] = WithResult(i.records[step], status)
        /\ \A s \in Steps \ {step} : j.records[s] = i.records[s]
        /\ j.keys = i.keys /\ j.approved = i.approved
    BY <2>2, ApplyStepResultFields
  <2>5. j.records[step].attempt = i.records[step].attempt
    <3>1. i.records[step] \in StepRecord
      BY <2>2 DEF Instance
    <3>2. QED
      BY <2>4, <3>1, RecordFields
  <2>6. Len(journal) < Len(journal') /\ \A n \in DOMAIN journal : journal'[n] = journal[n]
    BY <2>1, JournalGrew DEF Reports
  <2> HIDE DEF i, j
  <2>7. \A s \in Steps : i.records[s].attempt <= j.records[s].attempt
    BY <1>0, <2>2, <2>4, <2>5 DEF i
  <2>8. QED
    BY <2>2, <2>3, <2>4, <2>6, <2>7 DEF NothingTakenBack, i
<1>5. CASE ApplyTransition
  <2>1. PICK trigger \in Triggers : Moves(trigger)
    BY <1>5, MoveEffect
  <2> DEFINE i == instance
             j == MoveOn(i, trigger)
  <2>2. i \in Instance /\ instance' = j /\ CanMoveOn(i, trigger)
    BY <2>1 DEF Moves
  <2>3. Follows(i, j) /\ j \in Instance
    BY <2>2, MoveFollows, MoveOnFields
  <2>4. j.records = i.records /\ j.keys = i.keys /\ j.approved = i.approved
    BY <2>2, MoveOnFields
  <2>5. Len(journal) < Len(journal') /\ \A n \in DOMAIN journal : journal'[n] = journal[n]
    <3>1. Len(j.moves) \in Nat
      BY <2>3 DEF Instance
    <3>2. journal' = journal \o TransitionApplied(j)
      BY <2>1, <2>2 DEF Moves
    <3> HIDE DEF j
    <3>3. \E f, g \in Fact : journal' \in {Append(journal, f), Append(Append(journal, f), g)}
      BY <3>1, <3>2, MoveFacts
    <3>4. QED
      BY <3>3, JournalGrew
  <2> HIDE DEF i, j
  <2>6. \A s \in Steps : i.records[s].attempt <= j.records[s].attempt
    BY <1>0, <2>2, <2>4 DEF i
  <2>7. QED
    BY <2>2, <2>3, <2>4, <2>5, <2>6 DEF NothingTakenBack, i
<1>6. CASE DecideGuard
  <2>1. PICK g \in Guards : Approves(g) \/ Defers(g)
    BY <1>6, GuardEffect
  <2> DEFINE i == instance
             j == instance'
  <2>2. i \in Instance /\ ~IsTerminal(i)
    BY <2>1 DEF Approves, Defers, CanApproveGuard, CanDeferGuard
  <2>3. /\ j \in Instance /\ j.records = i.records /\ j.keys = i.keys
        /\ i.approved \subseteq j.approved
        /\ j.state = i.state /\ j.moves = i.moves /\ j.completed = i.completed
    <3>1. CASE Approves(g)
      BY <2>1, <3>1, ApproveGuardFields DEF Approves
    <3>2. CASE Defers(g)
      BY <2>1, <3>2, DeferGuardFields DEF Defers
    <3>3. QED
      BY <2>1, <3>1, <3>2
  <2>4. Len(i.moves) \in Nat
    BY <2>2 DEF Instance
  <2> HIDE DEF i, j
  <2>5. Follows(i, j)
    BY <2>2, <2>3, <2>4 DEF Follows, Sealed, IsTerminal
  <2>6. Len(journal) < Len(journal') /\ \A n \in DOMAIN journal : journal'[n] = journal[n]
    BY <2>1, JournalGrew DEF Approves, Defers
  <2>7. \A s \in Steps : i.records[s].attempt <= j.records[s].attempt
    BY <1>0, <2>2, <2>3 DEF i
  <2>8. QED
    BY <2>3, <2>5, <2>6, <2>7 DEF NothingTakenBack, i, j
<1>7. QED
  BY <1>1, <1>2, <1>3, <1>4, <1>5, <1>6 DEF Next

(***************************************************************************)
(* Whatever is asked of a session and in whatever order, no change takes   *)
(* anything back, and each is told in a journal that only grows.           *)
(***************************************************************************)
THEOREM NothingIsTakenBack == Spec => [][NothingTakenBack]_<<instance, journal>>
  BY TypeCorrect, KeepingStep, PTL DEF Spec
=============================================================================
