----------------------------- MODULE RunCeremony -----------------------------
(***************************************************************************)
(* The whole-ceremony driver (run_ceremony_use_case.rs): open a session,   *)
(* run the steps of its state in declaration order, take the first         *)
(* transition whose guards hold, and repeat, a bounded number of times.    *)
(* Between its commits the driver carries the session in hand and commits  *)
(* against the revision it carries; only after a handler it reads again.   *)
(* Meanwhile other drivers try to run the same session and clients call    *)
(* the session use cases on it. Their commits are atomic here, which       *)
(* CeremonySession is shown to amount to; a client that runs a step of its *)
(* own (run_ceremony_step) claims it, reports on it and then writes to the *)
(* transcript the driver reads, in three steps.                            *)
(***************************************************************************)
EXTENDS CeremonyInstance, Functions, FiniteSets

CONSTANTS
    StepOrder,        \* the steps in declaration order
    TransitionOrder,  \* the transitions in declaration order
    Drivers,
    Offered,          \* what clients ask of the session
    Contexts,         \* the guards their initial contexts hold as approved
    MaxTime,          \* bound: the clock stops here
    MaxRevision       \* bound: clients are quiet once this many commits landed

\* The definition lists finitely many states, steps and transitions, each once.
ASSUME OrderAssumption ==
    /\ IsFiniteSet(States) /\ IsFiniteSet(Steps) /\ IsFiniteSet(Transitions)
    /\ StepOrder \in Seq(Steps) /\ TransitionOrder \in Seq(Transitions)
    /\ Range(StepOrder) = Steps /\ Len(StepOrder) = Cardinality(Steps)
    /\ Range(TransitionOrder) = Transitions /\ Len(TransitionOrder) = Cardinality(Transitions)

ASSUME CallersAssumption ==
    /\ Steps \X (1..Cardinality(Steps)) \subseteq Keys
    /\ Offered \subseteq ClientCalls
    /\ Contexts \subseteq SUBSET Guards

VARIABLES
    store,       \* revision (0: none), instance, journal
    now,
    transcript,  \* contributions of the steps drivers and clients ran
    workers,     \* the clients that run a step: claimed, or reported and yet to append
    run          \* what each driver holds

vars == <<store, now, transcript, workers, run>>

Fresh ==
    [pc |-> "checking", outcome |-> "running",
     revision |-> 0, session |-> NoSession,  \* the session it carries
     round |-> 1,
     state |-> InitialState,                 \* the state it read at the start of the round
     todo |-> {},                            \* where the steps still to look at are declared
     attempt |-> 0, status |-> "Pending",    \* of the step it is running, StepAt(todo)
     heard |-> <<>>,                         \* the transcript its handler was given
     trace |-> <<>>]                         \* what it ran so far

Init ==
    /\ store = [revision |-> 0, instance |-> NoSession, journal |-> <<>>]
    /\ now = 0
    /\ transcript = <<>>
    /\ workers = {}
    /\ run = [c \in Drivers |-> Fresh]

-----------------------------------------------------------------------------
\* The commit of a session derived from the one in hand.
Commit(next, facts) ==
    store' = [revision |-> store.revision + 1, instance |-> next,
              journal |-> store.journal \o facts]

End(c, outcome) ==
    run' = [run EXCEPT ![c].pc = "ended", ![c].outcome = outcome]

\* Where the steps of a state are declared, and which of them comes next.
StepsForState(state) == {p \in DOMAIN StepOrder : StepState[StepOrder[p]] = state}

FirstOf(todo) == CHOOSE p \in todo : \A q \in todo : p <= q

StepAt(todo) == StepOrder[FirstOf(todo)]

Rest(todo) == todo \ {FirstOf(todo)}

\* The first transition out of `state` whose guards hold, if there is one.
NextSatisfiedTransition(state, i) ==
    LET enabled == {p \in DOMAIN TransitionOrder :
                      /\ TransitionOrder[p].from = state
                      /\ GuardsAreSatisfied(i, TransitionOrder[p])}
    IN {p \in enabled : \A q \in enabled : p <= q}

MaxIterations_OneShort == Cardinality(States) - 1

MaxIterations == Cardinality(States) + Cardinality(Transitions) + 1

\* The top of the loop, with the session `i` at `revision` in hand: out of
\* rounds, finished, or the steps of the state the session is in.
EnterRound(c, i, revision, round) ==
    IF round > MaxIterations THEN End(c, "IterationLimit")
    ELSE IF IsTerminal(i)
    THEN run' = [run EXCEPT ![c].pc = "ended", ![c].outcome = "Completed", ![c].session = i,
                            ![c].revision = revision]
    ELSE run' = [run EXCEPT ![c].pc = "stepping", ![c].round = round, ![c].session = i,
                            ![c].revision = revision, ![c].state = i.state,
                            ![c].todo = StepsForState(i.state)]

-----------------------------------------------------------------------------
\* A courtesy, not the guard: the session must not be there yet.
Check(c) ==
    /\ run[c].pc = "checking"
    /\ IF store.instance = NoSession
       THEN run' = [run EXCEPT ![c].pc = "opening"]
       ELSE End(c, "AlreadyExists")
    /\ UNCHANGED <<store, now, transcript, workers>>

\* The guard proper: the commit expects the session to be new.
OpenRun(c, approved) ==
    /\ run[c].pc = "opening"
    /\ IF store.revision = 0
       THEN /\ Commit(Opened(approved), <<FactOf("CeremonyInstanceStarted", Session, 0)>>)
            /\ EnterRound(c, Opened(approved), 1, 1)
       ELSE End(c, "AlreadyExists") /\ UNCHANGED store
    /\ UNCHANGED <<now, transcript, workers>>

\* A step that already succeeded is not run again.
SkipStep(c) ==
    /\ run[c].pc = "stepping"
    /\ run[c].todo # {}
    /\ run[c].session.records[StepAt(run[c].todo)].status = "Completed"
    /\ run' = [run EXCEPT ![c].todo = Rest(@)]
    /\ UNCHANGED <<store, now, transcript, workers>>

\* The idempotency key of the n-th step of a run.
RunKey(c, step) == <<step, Len(run[c].trace) + 1>>

\* Before each step the transcript is read; then the step is claimed. What a
\* client appends in between might as well be appended after the claim.
HearTranscript_Once(c) ==
    IF run[c].trace = <<>> THEN transcript ELSE run[c].heard

HearTranscript(c) == transcript

ClaimStep_ConflictRetried(c) ==
    LET r == run[c]
        step == StepAt(r.todo)
        next == StartStep(r.session, step, RunKey(c, step), now)
    IN  /\ r.pc = "stepping"
        /\ r.todo # {}
        /\ r.session.records[step].status # "Completed"
        /\ CanStartStep(r.session, step, RunKey(c, step), now)
        /\ r.revision = store.revision
        /\ Commit(next, <<StepStarted(step, next.records[step].attempt)>>)
        /\ run' = [run EXCEPT ![c].pc = "running", ![c].session = next,
                              ![c].revision = store.revision + 1, ![c].heard = HearTranscript(c),
                              ![c].attempt = next.records[step].attempt]
        /\ UNCHANGED <<now, transcript, workers>>

\* The claim, on the session in hand; committed before the handler runs.
ClaimStep(c) ==
    LET r == run[c]
        step == StepAt(r.todo)
        next == StartStep(r.session, step, RunKey(c, step), now)
    IN  /\ r.pc = "stepping"
        /\ r.todo # {}
        /\ r.session.records[step].status # "Completed"
        /\ IF /\ CanStartStep(r.session, step, RunKey(c, step), now)
              /\ r.revision = store.revision
           THEN /\ Commit(next, <<StepStarted(step, next.records[step].attempt)>>)
                /\ run' = [run EXCEPT ![c].pc = "running", ![c].session = next,
                                      ![c].revision = store.revision + 1,
                                      ![c].heard = HearTranscript(c),
                                      ![c].attempt = next.records[step].attempt]
           ELSE End(c, "Failed") /\ UNCHANGED store
        /\ UNCHANGED <<now, transcript, workers>>

\* The handler answers; an error is a failed result.
HandlerReturns(c, status) ==
    /\ run[c].pc = "running"
    /\ run' = [run EXCEPT ![c].pc = "reporting", ![c].status = status]
    /\ UNCHANGED <<store, now, transcript, workers>>

\* Without reading it again.
ReportStep_Carried(c) ==
    LET r == run[c]
        step == StepAt(r.todo)
        next == ApplyStepResult(r.session, step, r.status)
    IN  /\ r.pc = "reporting"
        /\ IF CanApplyStepResult(r.session, step)
           THEN /\ Commit(next, <<StepFinished(step, r.attempt, r.status)>>)
                /\ run' = [run EXCEPT ![c].pc = "recording", ![c].session = next,
                                      ![c].revision = store.revision + 1]
           ELSE End(c, "Failed") /\ UNCHANGED store
        /\ UNCHANGED <<now, transcript, workers>>

\* The session is read again, the result applied and committed under the
\* attempt the claim returned.
ReportStep(c) ==
    LET r == run[c]
        step == StepAt(r.todo)
        next == ApplyStepResult(store.instance, step, r.status)
    IN  /\ r.pc = "reporting"
        /\ IF CanApplyStepResult(store.instance, step)
           THEN /\ Commit(next, <<StepFinished(step, r.attempt, r.status)>>)
                /\ run' = [run EXCEPT ![c].pc = "recording", ![c].session = next,
                                      ![c].revision = store.revision + 1]
           ELSE End(c, "Failed") /\ UNCHANGED store
        /\ UNCHANGED <<now, transcript, workers>>

Traced(c) ==
    Append(run[c].trace, [step |-> StepAt(run[c].todo), attempt |-> run[c].attempt,
                          status |-> run[c].status])

\* A success goes into the transcript and the next step is looked at; any
\* other result ends the run.
RecordStep(c) ==
    /\ run[c].pc = "recording"
    /\ IF run[c].status = "Completed"
       THEN /\ transcript' = Append(transcript, StepAt(run[c].todo))
            /\ run' = [run EXCEPT ![c].pc = "stepping", ![c].todo = Rest(@),
                                  ![c].trace = Traced(c)]
       ELSE /\ run' = [run EXCEPT ![c].pc = "ended", ![c].outcome = "StepFailed",
                                  ![c].trace = Traced(c)]
            /\ UNCHANGED transcript
    /\ UNCHANGED <<store, now, workers>>

\* All steps of the state are done: the first satisfied transition out of
\* the state read at the start of the round, applied to the session in hand.
TakeTransition(c) ==
    LET r == run[c]
        first == NextSatisfiedTransition(r.state, r.session)
        trigger == TransitionOrder[CHOOSE p \in first : TRUE].trigger
        next == MoveOn(r.session, trigger)
    IN  /\ r.pc = "stepping"
        /\ r.todo = {}
        /\ IF first = {} THEN End(c, "NoTransition") /\ UNCHANGED store
           ELSE IF CanMoveOn(r.session, trigger) /\ r.revision = store.revision
           THEN /\ Commit(next, TransitionApplied(next))
                /\ EnterRound(c, next, store.revision + 1, r.round + 1)
           ELSE End(c, "Failed") /\ UNCHANGED store
        /\ UNCHANGED <<now, transcript, workers>>

\* A port fails or the process dies. What was committed stays.
Abandon(c) ==
    /\ run[c].pc # "ended"
    /\ End(c, "Failed")
    /\ UNCHANGED <<store, now, transcript, workers>>

\* Any session use case, called by somebody else (AtomicSession, Perform). A
\* client that runs a step goes on with the attempt its claim returned.
ClientCall(request) ==
    LET next == After(request, store.instance, now) IN
    /\ store.revision < MaxRevision
    /\ Accepts(request, store.instance, now)
    /\ Commit(next, FactsOf(request, next))
    /\ workers' = IF request.kind # "RunStep" THEN workers
                  ELSE workers \cup {[pc |-> "running", step |-> request.step, key |-> request.key,
                                      attempt |-> next.records[request.step].attempt]}
    /\ UNCHANGED <<now, transcript, run>>

\* Its handler answers and the result is committed on the session read again.
ClientReports(w, status) ==
    /\ w.pc = "running"
    /\ store.revision < MaxRevision
    /\ CanApplyStepResult(store.instance, w.step)
    /\ Commit(ApplyStepResult(store.instance, w.step, status),
              <<StepFinished(w.step, w.attempt, status)>>)
    /\ workers' = IF status # "Completed" THEN workers \ {w}
                  ELSE (workers \ {w}) \cup {[w EXCEPT !.pc = "appending"]}
    /\ UNCHANGED <<now, transcript, run>>

\* A success goes into the transcript, after the commit and apart from it.
ClientAppends(w) ==
    /\ w.pc = "appending"
    /\ transcript' = Append(transcript, w.step)
    /\ workers' = workers \ {w}
    /\ UNCHANGED <<store, now, run>>

\* Its report is refused, a port fails or the process dies.
ClientLeaves(w) == workers' = workers \ {w} /\ UNCHANGED <<store, now, transcript, run>>

Tick == now < MaxTime /\ now' = now + 1 /\ UNCHANGED <<store, transcript, workers, run>>

Drive(c) ==
    \/ Check(c)
    \/ \E approved \in Contexts : OpenRun(c, approved)
    \/ SkipStep(c) \/ ClaimStep(c) \/ ReportStep(c) \/ RecordStep(c) \/ TakeTransition(c)

Done == (\A c \in Drivers : run[c].pc = "ended") /\ UNCHANGED vars

Next ==
    \/ \E c \in Drivers :
        \/ Drive(c)
        \/ \E status \in ResultStatus : HandlerReturns(c, status)
        \/ Abandon(c)
    \/ \E request \in Offered : ClientCall(request)
    \/ \E w \in workers :
        \/ \E status \in ResultStatus : ClientReports(w, status)
        \/ ClientAppends(w)
        \/ ClientLeaves(w)
    \/ Tick
    \/ Done

\* The driver is one task that is polled until it returns, and a handler is
\* awaited without a timeout: it is assumed to answer.
Fairness ==
    \A c \in Drivers :
        WF_vars(Drive(c)) /\ WF_vars(\E status \in ResultStatus : HandlerReturns(c, status))

Spec == Init /\ [][Next]_vars /\ Fairness

-----------------------------------------------------------------------------
(***************************************************************************)
(* A run that reports success holds the session as it is stored, finished, *)
(* and whatever it traced is in the journal under the attempt it traced:   *)
(* nobody else's work is reported as its own, and none of its own is lost, *)
(* although clients move and complete steps under it.                      *)
(***************************************************************************)
RunToldTheTruth ==
    \A c \in Drivers :
      LET r == run[c] IN
      /\ r.outcome = "Completed" => r.session = store.instance /\ store.instance.completed
      /\ \A p \in DOMAIN r.trace :
           StepFinished(r.trace[p].step, r.trace[p].attempt, r.trace[p].status)
             \in Range(store.journal)

(***************************************************************************)
(* The round limit stops runs that go round in circles and no others: when *)
(* it is reached the session has been in some state twice. Paths that use  *)
(* every state once fit, counting the round that notices the end.          *)
(***************************************************************************)
LimitMeansLoop ==
    \A c \in Drivers :
      run[c].outcome = "IterationLimit" =>
        \E p, q \in DOMAIN store.instance.moves :
          p # q /\ store.instance.moves[p].to = store.instance.moves[q].to

(***************************************************************************)
(* A run's report is true of the session: what it claims to have done was  *)
(* done, and when it gives up on the rounds the session really is going    *)
(* round in circles.                                                       *)
(***************************************************************************)
RunReportsTruly == RunToldTheTruth /\ LimitMeansLoop

(***************************************************************************)
(* The handler of a step is given the contribution of every step the run   *)
(* completed before it, once each and in the order it ran them. Whatever   *)
(* else it is given was contributed by a client that ran a step of the     *)
(* same session meanwhile: once, too, and only if the session has that     *)
(* step completed, although clients append long after their commit.        *)
(***************************************************************************)
HeardWhatCameBefore ==
    \A c \in Drivers :
      LET heard == run[c].heard
          trace == run[c].trace
      IN  run[c].pc = "running" =>
            /\ \A m, n \in DOMAIN heard : heard[m] = heard[n] => m = n
            /\ \A p \in DOMAIN trace : \E m \in DOMAIN heard : heard[m] = trace[p].step
            /\ \A p, q \in DOMAIN trace, m, n \in DOMAIN heard :
                 p < q /\ heard[m] = trace[p].step /\ heard[n] = trace[q].step => m < n
            /\ \A m \in DOMAIN heard : store.instance.records[heard[m]].status = "Completed"

\* Every run ends: clients that move the session under it, steps that fail
\* and definitions that loop make it fail, and never keep it going.
EveryRunEnds == \A c \in Drivers : <>(run[c].pc = "ended")

-----------------------------------------------------------------------------
Atomic == INSTANCE AtomicSession
            WITH instance <- store.instance, journal <- store.journal

(***************************************************************************)
(* A session that is driven is a session: each commit of a driver amounts  *)
(* to one call applied to the session as it stands, with the facts that    *)
(* call seals, although the driver works on the session it carries and     *)
(* reads it again only after a handler (run_ceremony_use_case.rs).         *)
(***************************************************************************)
DrivenSessionIsAtomic == Atomic!Spec
=============================================================================
