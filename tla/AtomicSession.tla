---------------------------- MODULE AtomicSession ----------------------------
(***************************************************************************)
(* What a working session promises: every call that succeeds is applied in *)
(* one indivisible step to the session as it stands, and the facts it      *)
(* produced are sealed in the same step. This is the abstract              *)
(* specification; CeremonySession, in which callers load, compute and      *)
(* commit in separate steps, is shown to implement it. The invariants that *)
(* relate the session to its journal are stated here.                      *)
(***************************************************************************)
EXTENDS CeremonyInstance, Functions

VARIABLES
    instance,   \* the stored session, or NoSession
    journal,    \* the sealed facts, oldest first
    now         \* the clock every caller reads

vars == <<instance, journal, now>>

Init == instance = NoSession /\ journal = <<>> /\ now = 0

Tick == now' = now + 1 /\ UNCHANGED <<instance, journal>>

\* A call evaluated with the clock at `t` takes effect as a whole.
Perform(call, t) ==
    /\ Accepts(call, instance, t)
    /\ instance' = After(call, instance, t)
    /\ journal' = journal \o FactsOf(call, After(call, instance, t))
    /\ UNCHANGED now

OpenSession == \E call \in OpenCalls, t \in 0..now : Perform(call, t)
ClaimStep == \E call \in ClaimCalls, t \in 0..now : Perform(call, t)
CompleteStep == \E call \in CompleteCalls, t \in 0..now : Perform(call, t)
\* A worker reports on an attempt somebody was told is theirs.
FinishStep ==
    \E f \in Range(journal), status \in ResultStatus, t \in 0..now :
        /\ f.type = "StepStarted"
        /\ Perform([kind |-> "FinishStep", step |-> f.about, status |-> status,
                    attempt |-> f.number], t)
ApplyTransition == \E call \in MoveCalls, t \in 0..now : Perform(call, t)
DecideGuard == \E call \in GuardCalls, t \in 0..now : Perform(call, t)

Next ==
    \/ Tick
    \/ OpenSession
    \/ ClaimStep \/ CompleteStep \/ FinishStep
    \/ ApplyTransition
    \/ DecideGuard

Spec == Init /\ [][Next]_vars

-----------------------------------------------------------------------------
TypeOK ==
    /\ instance \in Instance \cup {NoSession}
    /\ journal \in Seq(Fact)
    /\ now \in Nat

\* The numbers under which facts of a type about something are sealed in `j`.
Numbers(j, type, about) ==
    {f.number : f \in {g \in Range(j) : g.type = type /\ g.about = about}}

\* The attempts the journal says were started are the ones the record has
\* been through: all of them up to the current one, none before the first.
StartsAgree ==
    \A s \in Steps :
        LET r == instance.records[s] IN
        Numbers(journal, "StepStarted", s) = IF r.status = "Pending" THEN {} ELSE 1..r.attempt

\* A step is completed in the session exactly when its completion was sealed.
CompletionsAgree ==
    \A s \in Steps :
        instance.records[s].status = "Completed" <=> Numbers(journal, "StepCompleted", s) # {}

\* The moves sealed are the moves made.
MovesAgree == Numbers(journal, "TransitionApplied", Session) = 1..Len(instance.moves)

\* "Finished", "in a terminal state" and "sealed as finished" are one thing.
EndingAgrees ==
    /\ instance.completed <=> IsTerminal(instance)
    /\ instance.completed <=> Numbers(journal, "CeremonyCompleted", Session) # {}

\* Every human decision in the session is in the journal, and the reverse;
\* an approval takes effect. (A guard can be approved without a decision: by
\* the context the session was opened with.)
DecisionsAgree ==
    \A g \in Guards :
        /\ g \in Range(instance.approvals) <=> Numbers(journal, "HumanApprovalRecorded", g) # {}
        /\ g \in Range(instance.approvals) => g \in instance.approved
        /\ g \in Range(instance.deferrals) <=> Numbers(journal, "HumanDeferralRecorded", g) # {}

(***************************************************************************)
(* The journal never disagrees with what is stored (session_journal.rs:    *)
(* state and audit are two claims about the same moment): before the       *)
(* session is opened nothing is sealed, and afterwards attempts,           *)
(* completions, moves, the ending and the human decisions that can be read *)
(* off the journal are those of the stored session.                        *)
(***************************************************************************)
JournalAgreesWithSession ==
    IF instance = NoSession
    THEN journal = <<>>
    ELSE StartsAgree /\ CompletionsAgree /\ MovesAgree /\ EndingAgrees /\ DecisionsAgree

\* Outcomes that can only happen once: opening, completing a step, one
\* particular move, finishing.
SameOutcome(f, g) ==
    /\ f.type = g.type
    /\ f.about = g.about
    /\ \/ f.type \in {"CeremonyInstanceStarted", "StepCompleted", "CeremonyCompleted"}
       \/ f.type = "TransitionApplied" /\ f.number = g.number

(***************************************************************************)
(* No outcome is sealed twice: whatever races or retries there were, a     *)
(* session is opened once and finished once, a step is completed at most   *)
(* once over all its attempts, and every move has its own ordinal.         *)
(***************************************************************************)
OutcomesSealedOnce ==
    \A p, q \in DOMAIN journal : SameOutcome(journal[p], journal[q]) => p = q

(***************************************************************************)
(* An ending is never sealed before the claim it ends: the attempt named   *)
(* by a StepCompleted or StepFailed fact has an earlier StepStarted fact.  *)
(***************************************************************************)
EndingFollowsClaim ==
    \A q \in DOMAIN journal :
        journal[q].type \in {"StepCompleted", "StepFailed"} =>
            \E p \in 1..(q - 1) :
                journal[p] = StepStarted(journal[q].about, journal[q].number)

(***************************************************************************)
(* The current state is accounted for by the recorded moves: they are      *)
(* declared transitions, they form a path from the initial state, and the  *)
(* path ends where the session is (apply_ceremony_transition: no session   *)
(* sits in a state no recorded move can account for).                      *)
(***************************************************************************)
StateAccountedFor ==
    instance # NoSession =>
        LET moves == instance.moves
            before(n) == IF n = 1 THEN InitialState ELSE moves[n - 1].to
        IN  /\ \A n \in DOMAIN moves :
                 /\ moves[n].from = before(n)
                 /\ \E t \in Transitions : /\ t.from = moves[n].from
                                           /\ t.to = moves[n].to
                                           /\ t.trigger = moves[n].trigger
            /\ instance.state = before(Len(moves) + 1)

(***************************************************************************)
(* A finished session is closed: no claim, result, move or guard decision  *)
(* is sealed after CeremonyCompleted, late step results included.          *)
(***************************************************************************)
ClosedOnceCompleted ==
    \A p \in DOMAIN journal :
        journal[p].type = "CeremonyCompleted" => p = Len(journal)

(***************************************************************************)
(* "Approved human guards cannot be deferred" (ceremony_instance.rs), also *)
(* when an approval and a deferral of the same guard race.                 *)
(***************************************************************************)
NoDeferralAfterApproval ==
    \A p, q \in DOMAIN journal :
        /\ journal[p].type = "HumanApprovalRecorded"
        /\ journal[q].type = "HumanDeferralRecorded"
        /\ journal[p].about = journal[q].about
        => q < p

(***************************************************************************)
(* A step is never on an attempt its retry policy does not allow, counts   *)
(* from the first, is in progress exactly while it holds a lease, and the  *)
(* key of that lease is spent for good.                                    *)
(***************************************************************************)
ClaimsWithinPolicy ==
    instance # NoSession =>
        \A s \in Steps :
            LET r == instance.records[s] IN
            /\ r.attempt <= MaxAttempts[s]
            /\ r.status = "Pending" => r.attempt = 1
            /\ r.status = "InProgress" <=> r.lease # NoLease
            /\ r.lease # NoLease => r.lease.key \in instance.keys

(***************************************************************************)
(* A call that changes the session adds to its journal, and takes back     *)
(* nothing: it is not made on a finished session, and a move, a completed  *)
(* step, an attempt, a spent key and an approval stay (ceremony_instance,  *)
(* session_journal.rs).                                                    *)
(***************************************************************************)
NothingTakenBack ==
    /\ Len(journal) < Len(journal')
    /\ \A n \in DOMAIN journal : journal'[n] = journal[n]
    /\ instance # NoSession =>
         /\ Follows(instance, instance')
         /\ instance.keys \subseteq instance'.keys
         /\ instance.approved \subseteq instance'.approved
         /\ \A s \in Steps : instance.records[s].attempt <= instance'.records[s].attempt
=============================================================================
