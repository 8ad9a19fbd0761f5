--------------------------- MODULE CeremonySession ---------------------------
(***************************************************************************)
(* One working session in a ceremony store, and the callers that advance   *)
(* it through the use cases of choreo-app. Every use case goes through     *)
(* SessionJournal: it reads the stored revision, then the session, works   *)
(* on its own copy, and commits the copy and its facts against the         *)
(* revision it read. Between any two of these steps other callers run,     *)
(* time passes, or the caller dies. Faulty variants are marked as in       *)
(* CeremonyInstance.                                                       *)
(***************************************************************************)
EXTENDS CeremonyInstance, Functions

CONSTANTS
    Callers,
    Offered,       \* the calls clients make
    Contexts,      \* the guards their initial contexts hold as approved
    MaxTime,       \* bound: the clock stops here
    MaxRevision    \* bound: no call begins once this many commits landed

ASSUME BoundsAssumption ==
    /\ Offered \subseteq ClientCalls
    /\ Contexts \subseteq SUBSET Guards
    /\ MaxTime \in Nat
    /\ MaxRevision \in Nat

VARIABLES
    store,       \* StoredCeremony: revision (0: none), instance, journal
    now,         \* the clock
    transcript,  \* contributions of completed steps, kept outside the store
    pc,          \* where each caller is in its use case
    call,        \* what it was asked to do
    expected,    \* the revision it read, and commits against
    loaded,      \* the session it read
    at           \* the instant it read from the clock

local == <<pc, call, expected, loaded, at>>
vars == <<store, now, transcript, local>>

Phases == {"idle", "loading", "staged", "running", "appending"}

TypeOK ==
    /\ store \in [revision: Nat, instance: Instance \cup {NoSession}, journal: Seq(Fact)]
    /\ now \in Nat
    /\ transcript \in Seq(Steps)
    /\ pc \in [Callers -> Phases]
    /\ call \in [Callers -> Calls]
    /\ expected \in [Callers -> Nat]
    /\ loaded \in [Callers -> Instance \cup {NoSession}]
    /\ at \in [Callers -> Nat]

Init ==
    /\ store = [revision |-> 0, instance |-> NoSession, journal |-> <<>>]
    /\ now = 0
    /\ transcript = <<>>
    /\ pc = [c \in Callers |-> "idle"]
    /\ call = [c \in Callers |-> OpenWith({})]
    /\ expected = [c \in Callers |-> 0]
    /\ loaded = [c \in Callers |-> NoSession]
    /\ at = [c \in Callers |-> 0]

-----------------------------------------------------------------------------
\* The copy of the session a caller worked on is consumed or dropped.
DropSession(c) ==
    /\ expected' = [expected EXCEPT ![c] = 0]
    /\ loaded' = [loaded EXCEPT ![c] = NoSession]
    /\ at' = [at EXCEPT ![c] = 0]

\* The use case returns, with a value or an error, and forgets what it held.
Return(c) ==
    /\ pc' = [pc EXCEPT ![c] = "idle"]
    /\ call' = [call EXCEPT ![c] = OpenWith({})]
    /\ DropSession(c)

\* The first half of SessionJournal::load: the revision, and nothing else.
LoadRevision(c, request) ==
    /\ pc' = [pc EXCEPT ![c] = "loading"]
    /\ call' = [call EXCEPT ![c] = request]
    /\ expected' = [expected EXCEPT ![c] = store.revision]
    /\ UNCHANGED <<loaded, at>>

\* start_ceremony: no load. The session is built, to be stored as New.
StartCeremony(c, approved) ==
    /\ pc[c] = "idle"
    /\ pc' = [pc EXCEPT ![c] = "staged"]
    /\ call' = [call EXCEPT ![c] = OpenWith(approved)]
    /\ at' = [at EXCEPT ![c] = now]
    /\ UNCHANGED <<store, now, transcript, expected, loaded>>

\* Every other use case begins by loading.
Begin(c, request) ==
    /\ pc[c] = "idle"
    /\ store.revision < MaxRevision
    /\ LoadRevision(c, request)
    /\ UNCHANGED <<store, now, transcript>>

\* The second half of the load, the clock, and the operation on the copy in
\* hand. The clock is read after the session; whatever is stored in between
\* makes the commit conflict, so one step stands for the three.
LoadInstance(c) ==
    /\ pc[c] = "loading"
    /\ Accepts(call[c], store.instance, now)
    /\ pc' = [pc EXCEPT ![c] = "staged"]
    /\ loaded' = [loaded EXCEPT ![c] = store.instance]
    /\ at' = [at EXCEPT ![c] = now]
    /\ UNCHANGED <<store, now, transcript, call, expected>>

\* The session is not there, or the aggregate refuses: an error is returned.
Refuse(c) ==
    /\ pc[c] = "loading"
    /\ ~Accepts(call[c], store.instance, now)
    /\ Return(c)
    /\ UNCHANGED <<store, now, transcript>>

Land_ExpectationIgnored(c) ==
    LET next == After(call[c], loaded[c], at[c]) IN
    /\ pc[c] = "staged"
    /\ store' = [revision |-> store.revision + 1,
                 instance |-> next,
                 journal |-> store.journal \o FactsOf(call[c], next)]
    /\ UNCHANGED <<now, transcript>>

Land_RevisionKept(c) ==
    LET next == After(call[c], loaded[c], at[c]) IN
    /\ pc[c] = "staged"
    /\ expected[c] = store.revision
    /\ store' = [store EXCEPT !.instance = next,
                             !.journal = @ \o FactsOf(call[c], next)]
    /\ UNCHANGED <<now, transcript>>

\* CeremonyUnitOfWorkPort::commit, when the expectation holds: revision,
\* session and facts change together, under one lock or transaction.
Land(c) ==
    LET next == After(call[c], loaded[c], at[c]) IN
    /\ pc[c] = "staged"
    /\ expected[c] = store.revision
    /\ store' = [revision |-> store.revision + 1,
                 instance |-> next,
                 journal |-> store.journal \o FactsOf(call[c], next)]
    /\ UNCHANGED <<now, transcript>>

\* A use case that ends with its commit.
Commit(c) ==
    /\ call[c].kind # "RunStep"
    /\ ~(call[c].kind = "FinishStep" /\ call[c].status = "Completed")
    /\ Land(c)
    /\ Return(c)

\* run_ceremony_step, first commit: the claim is durable, the handler starts
\* with the attempt the claim returned.
CommitClaim(c) ==
    /\ call[c].kind = "RunStep"
    /\ Land(c)
    /\ pc' = [pc EXCEPT ![c] = "running"]
    /\ call' = [call EXCEPT ![c] =
                  [kind |-> "FinishStep", step |-> call[c].step, status |-> "Completed",
                   attempt |-> NextAttemptForStart(loaded[c].records[call[c].step])]]
    /\ DropSession(c)

\* The handler answers, after any delay, with any outcome (an error is a
\* failed result), and the session is loaded again.
HandlerReturns(c, status) ==
    /\ pc[c] = "running"
    /\ LoadRevision(c, [call[c] EXCEPT !.status = status])
    /\ UNCHANGED <<store, now, transcript>>

\* run_ceremony_step, second commit, of a successful result.
CommitResult(c) ==
    /\ call[c].kind = "FinishStep"
    /\ call[c].status = "Completed"
    /\ Land(c)
    /\ pc' = [pc EXCEPT ![c] = "appending"]
    /\ DropSession(c)
    /\ UNCHANGED call

\* The contribution goes into the transcript store, outside the commit.
AppendContribution(c) ==
    /\ pc[c] = "appending"
    /\ transcript' = Append(transcript, call[c].step)
    /\ Return(c)
    /\ UNCHANGED <<store, now>>

Conflict_StillAppends(c) ==
    /\ pc[c] = "staged"
    /\ expected[c] # store.revision
    /\ IF call[c].kind = "FinishStep" /\ call[c].status = "Completed"
       THEN pc' = [pc EXCEPT ![c] = "appending"] /\ DropSession(c) /\ UNCHANGED call
       ELSE Return(c)
    /\ UNCHANGED <<store, now, transcript>>

\* The expectation does not hold: nothing is written, the caller is told.
Conflict(c) ==
    /\ pc[c] = "staged"
    /\ expected[c] # store.revision
    /\ Return(c)
    /\ UNCHANGED <<store, now, transcript>>

\* The process dies or a port fails: what the caller held is gone, what was
\* committed stays, and a claim it made stays until its lease runs out.
Abandon(c) ==
    /\ pc[c] # "idle"
    /\ Return(c)
    /\ UNCHANGED <<store, now, transcript>>

Tick ==
    /\ now < MaxTime
    /\ now' = now + 1
    /\ UNCHANGED <<store, transcript, local>>

Next ==
    \/ Tick
    \/ \E c \in Callers :
        \/ \E approved \in Contexts : StartCeremony(c, approved)
        \/ \E request \in Offered : Begin(c, request)
        \/ LoadInstance(c) \/ Refuse(c)
        \/ Commit(c) \/ CommitClaim(c) \/ CommitResult(c) \/ Conflict(c)
        \/ \E status \in ResultStatus : HandlerReturns(c, status)
        \/ AppendContribution(c)
        \/ Abandon(c)

Spec == Init /\ [][Next]_vars

-----------------------------------------------------------------------------
(***************************************************************************)
(* What makes the commit safe. A caller whose expectation still holds has  *)
(* the stored session in hand, and the session accepted the call at an     *)
(* instant that is not in the future, although revision and session were   *)
(* read one after the other; and whoever reports on an attempt reports on  *)
(* one that was sealed as started.                                         *)
(***************************************************************************)
CallerIsCurrent(c) ==
    /\ expected[c] <= store.revision
    /\ at[c] <= now
    /\ pc[c] = "staged" /\ expected[c] = store.revision =>
         loaded[c] = store.instance /\ Accepts(call[c], loaded[c], at[c])
    /\ pc[c] = "idle" =>
         call[c] = OpenWith({}) /\ expected[c] = 0 /\ loaded[c] = NoSession
    /\ pc[c] \in {"running", "appending"} => call[c].kind = "FinishStep"
    /\ call[c].kind = "FinishStep" =>
         StepStarted(call[c].step, call[c].attempt) \in Range(store.journal)

\* The same of every caller, and revision 0 is the revision of no session.
StagedWorkIsCurrent ==
    /\ store.revision = 0 => store.instance = NoSession
    /\ \A c \in Callers : CallerIsCurrent(c)

-----------------------------------------------------------------------------
\* The session as the abstract specification sees it: what the store holds.
Atomic == INSTANCE AtomicSession
            WITH instance <- store.instance, journal <- store.journal

(***************************************************************************)
(* Loading in two reads, computing on a copy and committing against the    *)
(* revision read first amounts to applying every call atomically to the    *)
(* stored session: no update is lost, none is applied to a stale session,  *)
(* and refused or conflicting calls leave no trace (session_journal.rs).   *)
(***************************************************************************)
ImplementsAtomicSession == Atomic!Spec

\* The journal and the stored session never disagree; see AtomicSession.
JournalAgreesWithSession == Atomic!JournalAgreesWithSession

\* Opening, completing a step, a move, finishing: sealed at most once.
OutcomesSealedOnce == Atomic!OutcomesSealedOnce

\* The attempt an ending names was claimed earlier in the journal.
EndingFollowsClaim == Atomic!EndingFollowsClaim

\* The recorded moves lead from the initial state to the current one.
StateAccountedFor == Atomic!StateAccountedFor

\* Nothing is sealed after the session was sealed as finished.
ClosedOnceCompleted == Atomic!ClosedOnceCompleted

\* A deferral that raced an approval and lost is not sealed after it.
NoDeferralAfterApproval == Atomic!NoDeferralAfterApproval

\* Attempts within the retry policy; in progress exactly while leased.
ClaimsWithinPolicy == Atomic!ClaimsWithinPolicy

(***************************************************************************)
(* While a claim is live nobody else's claim replaces it: a lease that has *)
(* not run out goes away only by a result, or stays (start_step: "step     *)
(* lease is still active"). The clock is the one at the commit, later than *)
(* the one the claimant looked at.                                         *)
(***************************************************************************)
KeepsLiveLease(s) ==
    LET r == store.instance.records[s] IN
    /\ store.instance # NoSession
    /\ r.status = "InProgress"
    /\ now < r.lease.expires
    => \/ store'.instance.records[s] = r
       \/ store'.instance.records[s].status \in ResultStatus

\* The same of every step and every commit.
LiveLeaseNotStolen == [][\A s \in Steps : KeepsLiveLease(s)]_store

(***************************************************************************)
(* The transcript names a step at most once and only when the session has  *)
(* it completed, although it is written after the commit and late results  *)
(* of replaced attempts are accepted (run_ceremony_step, lines 152-163).   *)
(***************************************************************************)
TranscriptSound ==
    /\ \A p, q \in DOMAIN transcript : transcript[p] = transcript[q] => p = q
    /\ \A p \in DOMAIN transcript :
         store.instance # NoSession
         /\ store.instance.records[transcript[p]].status = "Completed"
=============================================================================
