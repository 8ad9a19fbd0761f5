-------------------------------- MODULE Agenda --------------------------------
(***************************************************************************)
(* The use cases on a session's table (SessionTable), run by callers that  *)
(* interleave: load, work on a copy, await an evidence source where one is *)
(* asked, commit against the revision loaded, and then, outside the        *)
(* commit, leave something in a memory that outlives the session.          *)
(* CeremonySession shows that a caller whose expected revision is still    *)
(* the stored one holds the stored session, however its two reads          *)
(* interleave; so the load is one step here and the copy is not kept.      *)
(***************************************************************************)
EXTENDS SessionTable

CONSTANTS
    Callers,
    Offered,       \* the calls clients make
    MaxRevision    \* bound: no call begins once this many commits landed

VARIABLES
    store,      \* revision, table, journal
    memory,     \* what sessions left behind: notes under their keys
    pc,         \* where each caller is in its use case
    call,       \* what it was asked to do
    expected,   \* the revision it loaded, and commits against
    note        \* what it is about to remember, after its commit

local == <<pc, call, expected, note>>
vars == <<store, memory, local>>

-----------------------------------------------------------------------------
Seating == UNION {[S -> Specialties] : S \in SUBSET Seats}

RequestCalls ==
    [act: {"Request"}, item: Items, by: Seats, target: SUBSET Seats,
     from: Provenance \cup {None}]
AnswerCalls ==
    [act: {"Respond"}, item: Items, by: Seats]
        \cup [act: {"Collect"}, item: Items, by: Seats, source: Sources,
              pack: Sources \cup {None}]
CloseCalls == [act: {"Close"}, item: Items, by: Seats]
AssertCalls == [act: {"Assert"}, from: RecordRef, to: RecordRef, claim: Asserter, by: Seats]
BindCalls == [act: {"Bind"}, seating: Seating]
DecisionCalls == [act: {"Approve", "Defer", "End"}, by: Seats]
NoCall == [act |-> "None"]

Calls ==
    RequestCalls \cup AnswerCalls \cup CloseCalls \cup AssertCalls \cup BindCalls
        \cup DecisionCalls \cup {NoCall}

ASSUME AgendaAssumption == Offered \subseteq Calls \ {NoCall} /\ MaxRevision \in Nat

\* Does the session accept the call? Collect is asked twice of the same copy,
\* before the source is consulted and when its pack is attached.
Allowed(t, c) ==
    CASE c.act = "Request" -> CanRequest(t, c.item, c.by, c.target, c.from)
      [] c.act \in {"Respond", "Collect"} -> CanRespond(t, c.item, c.by)
      [] c.act = "Close" -> CanClose(t, c.item, c.by)
      [] c.act = "Assert" -> CanAssert(t, c.from, c.to, c.claim, c.by)
      [] c.act = "Bind" -> CanBind(t, c.seating)
      [] c.act = "Approve" -> CanApprove(t, c.by)
      [] c.act = "Defer" -> CanDefer(t, c.by)
      [] c.act = "End" -> CanEnd(t, c.by)

\* The table after an accepted call.
After(t, c) ==
    CASE c.act = "Request" -> Request(t, c.item, c.by, c.target, c.from)
      [] c.act = "Respond" -> Respond(t, c.item, c.by, None)
      [] c.act = "Collect" -> Respond(t, c.item, c.by, c.pack)
      [] c.act = "Close" -> Close(t, c.item)
      [] c.act = "Assert" -> AssertReason(t, c.from, c.to, c.claim, c.by)
      [] c.act = "Bind" -> Bind(t, c.seating)
      [] c.act = "Approve" -> [t EXCEPT !.approvals = Append(@, c.by)]
      [] c.act = "Defer" -> [t EXCEPT !.deferrals = Append(@, c.by)]
      [] c.act = "End" -> [t EXCEPT !.moves = Append(@, c.by)]

-----------------------------------------------------------------------------
ItemFact(type, item, by) == [type |-> type, item |-> item, by |-> by]

EvidenceCollected_Alone(c) ==
    <<[type |-> "EvidenceCollected", item |-> c.item, by |-> c.by, source |-> c.source]>>

\* A source was consulted, and the item was answered: two facts.
EvidenceCollected(c) ==
    <<[type |-> "EvidenceCollected", item |-> c.item, by |-> c.by, source |-> c.source],
      ItemFact("InterventionResponded", c.item, c.by)>>

\* Numbered by how many reasons the session holds, this one included.
ReasonAsserted(t, c) == [type |-> "ReasonAsserted", by |-> c.by, ordinal |-> Len(t.reasons)]

SeatFact(type, by) == [type |-> type, by |-> by]

\* The facts sealed with a call; `t` is the table after it.
FactsOf(t, c) ==
    CASE c.act = "Request" -> <<ItemFact("InterventionRequested", c.item, c.by)>>
      [] c.act = "Respond" -> <<ItemFact("InterventionResponded", c.item, c.by)>>
      [] c.act = "Collect" -> EvidenceCollected(c)
      [] c.act = "Close" -> <<ItemFact("InterventionClosed", c.item, c.by)>>
      [] c.act = "Assert" -> <<ReasonAsserted(t, c)>>
      [] c.act = "Bind" -> <<[type |-> "ParticipantsBound", seating |-> c.seating]>>
      [] c.act = "Approve" -> <<SeatFact("HumanApprovalRecorded", c.by)>>
      [] c.act = "Defer" -> <<SeatFact("HumanDeferralRecorded", c.by)>>
      [] c.act = "End" ->
            <<SeatFact("TransitionApplied", c.by), SeatFact("CeremonyCompleted", c.by)>>

-----------------------------------------------------------------------------
(***************************************************************************)
(* What a session leaves behind. An entry is named after the record it is  *)
(* about, a reason after its position, and the name is also the key that   *)
(* makes a repeated write land once (the key adds the ceremony).           *)
(***************************************************************************)
\* Answers, guards and endings are kept under their own names, a reason under
\* its position, from 0.
NoteKey ==
    {r \in RecordRef : r.kind \in {"Answer", "Guard", "Transition"}}
        \cup [kind: {"Reason"}, item: {None}, n: Nat]

\* What memory is told: an answer, a decision, an ending, a reason.
Said ==
    Response
        \cup [decision: {"approved", "deferred"}, by: Seats]
        \cup [finished: {TRUE}, by: Seats]
        \cup [from: RecordRef, to: RecordRef]

Notes == [key: NoteKey, says: Said]

Note(key, says) == [key |-> key, says |-> says]

ContributionEntry(t, item) ==
    LET n == Len(t.items[item].answers) - 1 IN
    Note(Ref("Answer", item, n), t.items[item].answers[n + 1])

\* An approval is a decision, a deferral a constraint; the first approval
\* is found before any deferral.
GuardEntry(t) ==
    Note(Ref("Guard", None, 0),
         IF t.approvals # <<>> THEN [decision |-> "approved", by |-> t.approvals[1]]
                               ELSE [decision |-> "deferred", by |-> t.deferrals[1]])

EndingEntry(t) ==
    Note(Ref("Transition", None, Len(t.moves)), [finished |-> TRUE, by |-> t.moves[Len(t.moves)]])

\* Asked of the session, not of the memory: is the record of a kind that
\* memory keeps?
IsRemembered(t, r) ==
    CASE r.kind \in {"Answer", "Guard"} -> Exists(t, r)
      [] r.kind = "Transition" -> r.n = Len(t.moves) /\ Finished(t)
      [] r.kind \in {"Step", "Item"} -> FALSE

RelationEntry(t) ==
    LET n == Len(t.reasons) - 1
        reason == t.reasons[n + 1] IN
    Note(Ref("Reason", None, n), [from |-> reason.from, to |-> reason.to])

\* The note a committed call leaves, of the table it committed; None if none.
NoteOf(t, c) ==
    CASE c.act \in {"Respond", "Collect"} -> ContributionEntry(t, c.item)
      [] c.act \in {"Approve", "Defer"} -> GuardEntry(t)
      [] c.act = "End" -> EndingEntry(t)
      [] c.act = "Assert" ->
            IF IsRemembered(t, c.from) /\ IsRemembered(t, c.to) THEN RelationEntry(t) ELSE None
      [] c.act \in {"Request", "Close", "Bind"} -> None

Keys(notes) == {n.key : n \in notes}

-----------------------------------------------------------------------------
Init ==
    /\ store = [revision |-> 1, table |-> EmptyTable, journal |-> <<>>]
    /\ memory = {}
    /\ pc = [c \in Callers |-> "idle"]
    /\ call = [c \in Callers |-> NoCall]
    /\ expected = [c \in Callers |-> 0]
    /\ note = [c \in Callers |-> None]

\* The copy of the session, and the call it was for, are used up.
Settle(c) ==
    /\ call' = [call EXCEPT ![c] = NoCall]
    /\ expected' = [expected EXCEPT ![c] = 0]

Return(c) ==
    /\ pc' = [pc EXCEPT ![c] = "idle"]
    /\ note' = [note EXCEPT ![c] = None]
    /\ Settle(c)

\* The operation on the copy is refused, and the copy dropped.
Refuse(c, request) ==
    /\ pc[c] = "idle"
    /\ ~Allowed(store.table, request)
    /\ UNCHANGED vars

\* Load, and the operation on the copy; a collection turns to its source.
Begin(c, request) ==
    /\ pc[c] = "idle"
    /\ store.revision < MaxRevision
    /\ Allowed(store.table, request)
    /\ pc' = [pc EXCEPT ![c] = IF request.act = "Collect" THEN "collecting" ELSE "staged"]
    /\ call' = [call EXCEPT ![c] = request]
    /\ expected' = [expected EXCEPT ![c] = store.revision]
    /\ UNCHANGED <<store, memory, note>>

\* The source answers, after any delay, with a pack of the source asked for.
Collected(c, source) ==
    /\ pc[c] = "collecting"
    /\ source = call[c].source
    /\ pc' = [pc EXCEPT ![c] = "staged"]
    /\ call' = [call EXCEPT ![c].pack = source]
    /\ UNCHANGED <<store, memory, expected, note>>

\* It answers with another's pack, which ensure_matches refuses.
PackRefused(c, source) ==
    /\ pc[c] = "collecting"
    /\ source # call[c].source
    /\ Return(c)
    /\ UNCHANGED <<store, memory>>

\* The expectation holds: table and facts are stored together, and what the
\* call leaves behind is worked out of the committed copy.
Commit(c) ==
    LET next == After(store.table, call[c])
        left == NoteOf(next, call[c]) IN
    /\ pc[c] = "staged"
    /\ expected[c] = store.revision
    /\ store' = [revision |-> store.revision + 1,
                 table |-> next,
                 journal |-> store.journal \o FactsOf(next, call[c])]
    /\ pc' = [pc EXCEPT ![c] = IF left = None THEN "idle" ELSE "remembering"]
    /\ note' = [note EXCEPT ![c] = left]
    /\ Settle(c)
    /\ UNCHANGED memory

\* Somebody else committed first: the call is lost, with its pack if any.
Conflict(c) ==
    /\ pc[c] = "staged"
    /\ expected[c] # store.revision
    /\ Return(c)
    /\ UNCHANGED <<store, memory>>

Remember_Ungated(c) ==
    /\ pc[c] = "remembering"
    /\ memory' = memory \cup {note[c]}
    /\ Return(c)
    /\ UNCHANGED store

\* The backend has not seen the key: it keeps the note.
Remember(c) ==
    /\ pc[c] = "remembering"
    /\ note[c].key \notin Keys(memory)
    /\ memory' = memory \cup {note[c]}
    /\ Return(c)
    /\ UNCHANGED store

\* It has, and answers AlreadyRemembered.
AlreadyRemembered(c) ==
    /\ pc[c] = "remembering"
    /\ note[c].key \in Keys(memory)
    /\ Return(c)
    /\ UNCHANGED <<store, memory>>

\* A crash, or a failed call to a source, a store or the memory: nothing is
\* undone, and a note not yet written is written by nobody.
Abandon(c) ==
    /\ pc[c] # "idle"
    /\ Return(c)
    /\ UNCHANGED <<store, memory>>

Next ==
    \E c \in Callers :
        \/ \E request \in Offered : Begin(c, request) \/ Refuse(c, request)
        \/ \E source \in Sources : Collected(c, source) \/ PackRefused(c, source)
        \/ Commit(c) \/ Conflict(c)
        \/ Remember(c) \/ AlreadyRemembered(c)
        \/ Abandon(c)

Spec == Init /\ [][Next]_vars

-----------------------------------------------------------------------------
table == store.table
journal == store.journal

Fact ==
    [type: {"InterventionRequested", "InterventionResponded", "InterventionClosed"},
     item: Items, by: Seats]
        \cup [type: {"EvidenceCollected"}, item: Items, by: Seats, source: Sources]
        \cup [type: {"ReasonAsserted"}, by: Seats, ordinal: Nat]
        \cup [type: {"ParticipantsBound"}, seating: Seating]
        \cup [type: {"HumanApprovalRecorded", "HumanDeferralRecorded",
                     "TransitionApplied", "CeremonyCompleted"}, by: Seats]

\* Positions in the journal of the facts of a type, and of those on an item.
Sealed(type) == {p \in DOMAIN journal : journal[p].type = type}
SealedOn(type, item) == {p \in Sealed(type) : journal[p].item = item}

\* The k-th smallest of a set of positions lists the facts in their order.
Nth(P, k) == CHOOSE p \in P : Cardinality({q \in P : q <= p}) = k

(***************************************************************************)
(* An item's answers are exactly the response facts sealed on it, in their *)
(* order, one per seat; each is a pack exactly when the source it came     *)
(* from was sealed as consulted by that seat; and the engine recorded of   *)
(* each one that it answers the item (evidence_collected,                  *)
(* record_that_it_answers).                                                *)
(***************************************************************************)
AnswersAccountedFor(i) ==
    LET answers == IF table.items[i] = None THEN <<>> ELSE table.items[i].answers
        sealed == SealedOn("InterventionResponded", i)
        seen == {k \in DOMAIN table.reasons :
                    /\ table.reasons[k].claim = "TheEngine"
                    /\ table.reasons[k].to = Ref("Item", i, 0)} IN
    /\ Cardinality(sealed) = Len(answers)
    /\ Cardinality(seen) = Len(answers)
    /\ \A k \in DOMAIN answers :
         /\ journal[Nth(sealed, k)].by = answers[k].by
         /\ \A l \in DOMAIN answers : answers[l].by = answers[k].by => l = k
         /\ table.reasons[Nth(seen, k)].from = Ref("Answer", i, k - 1)
         /\ \A s \in Sources :
              answers[k].pack = s <=>
                 \E p \in SealedOn("EvidenceCollected", i) :
                    journal[p].by = answers[k].by /\ journal[p].source = s

\* Asked once, closed once, by the seat that asked.
ItemAccountedFor(i) ==
    LET asked == SealedOn("InterventionRequested", i)
        closed == SealedOn("InterventionClosed", i) IN
    IF table.items[i] = None THEN asked = {} /\ closed = {}
    ELSE /\ Cardinality(asked) = 1
         /\ Cardinality(closed) = IF table.items[i].open THEN 0 ELSE 1
         /\ \A p \in asked \cup closed : journal[p].by = table.items[i].by

\* Every reason a seat gave was sealed under its own position, by that seat.
ReasonsAccountedFor ==
    /\ \A p \in Sealed("ReasonAsserted") :
         /\ journal[p].ordinal \in DOMAIN table.reasons
         /\ table.reasons[journal[p].ordinal].by = journal[p].by
    /\ \A k \in DOMAIN table.reasons :
         table.reasons[k].by # None =>
            Cardinality({p \in Sealed("ReasonAsserted") : journal[p].ordinal = k}) = 1

\* A seat is bound to what the last seating that named it says.
SeatsAccountedFor ==
    \A s \in Seats :
        LET named == {p \in Sealed("ParticipantsBound") : s \in DOMAIN journal[p].seating} IN
        table.seated[s] =
            IF named = {} THEN None ELSE journal[Nth(named, Cardinality(named))].seating[s]

(***************************************************************************)
(* No answer is sealed before its question or after the question was       *)
(* closed, even one whose evidence was asked for while it was open; after  *)
(* the ending only reasons are (ensure_can_respond, require_active).       *)
(***************************************************************************)
AnswersInTime ==
    /\ \A i \in Items : \A p \in SealedOn("InterventionResponded", i) :
         /\ \E q \in SealedOn("InterventionRequested", i) : q < p
         /\ \A q \in SealedOn("InterventionClosed", i) : p < q
    /\ \A p \in Sealed("CeremonyCompleted") : \A q \in DOMAIN journal :
         p < q => journal[q].type = "ReasonAsserted"

(***************************************************************************)
(* What the table holds and what the journal says happened at it never     *)
(* disagree, although every call works on a copy and a collection may wait *)
(* for its source while the rest of the table goes on; and what the        *)
(* journal says happened in an order the table allows.                     *)
(***************************************************************************)
AgendaAgreesWithJournal ==
    /\ \A i \in Items : AnswersAccountedFor(i) /\ ItemAccountedFor(i)
    /\ ReasonsAccountedFor
    /\ SeatsAccountedFor
    /\ AnswersInTime

\* The seats that had a hand in a record.
Producers(t, r) ==
    IF r.kind = "Guard" THEN Range(t.approvals) \cup Range(t.deferrals)
    ELSE {AuthorOf(t, r)}

(***************************************************************************)
(* Both ends of every reason exist, and testimony (why one decided it, how *)
(* one did it) comes from a seat that had a hand in what it starts from,   *)
(* also after a later approval took the place of the deferral it was about *)
(* (assert_reason_as).                                                     *)
(***************************************************************************)
TestimonyByProducer ==
    \A k \in DOMAIN table.reasons :
        LET reason == table.reasons[k] IN
        /\ Exists(table, reason.from)
        /\ Exists(table, reason.to)
        /\ reason.claim = "ItsAuthor" => reason.by \in Producers(table, reason.from)

(***************************************************************************)
(* A follow-up's provenance is a thing that happened: the item it names    *)
(* was asked by the same seat and answered, before the follow-up, by the   *)
(* seat it names, and the seat selected is one it is put to. Hence         *)
(* following provenance back ends at an item that has none                 *)
(* (require_intervention_provenance).                                      *)
(***************************************************************************)
ProvenanceGrounded ==
    \A i \in Items : table.items[i] # None /\ table.items[i].from # None =>
        LET from == table.items[i].from IN
        /\ table.items[from.item].by = table.items[i].by
        /\ from.selected \in table.items[i].target \cap MayAnswer
        /\ \E p \in SealedOn("InterventionResponded", from.item) :
             /\ journal[p].by = from.answeredBy
             /\ \A q \in SealedOn("InterventionRequested", i) : p < q

(***************************************************************************)
(* What is claimed at the table can be traced: a follow-up to the answer   *)
(* it follows, a reason to the records it joins and to somebody who was in *)
(* a position to give it.                                                  *)
(***************************************************************************)
ClaimsGrounded == ProvenanceGrounded /\ TestimonyByProducer

\* Does a table bear out what a note says?
BorneOut(t, n) ==
    CASE n.key.kind = "Answer" ->
            /\ Exists(t, n.key)
            /\ t.items[n.key.item].answers[n.key.n + 1] = n.says
      [] n.key.kind = "Guard" ->
            LET decided == IF n.says.decision = "approved" THEN t.approvals
                                                           ELSE t.deferrals IN
            decided # <<>> /\ decided[1] = n.says.by
      [] n.key.kind = "Transition" ->
            Exists(t, n.key) /\ n.says.by = t.moves[n.key.n]
      [] n.key.kind = "Reason" ->
            /\ n.key.n + 1 \in DOMAIN t.reasons
            /\ t.reasons[n.key.n + 1].from = n.says.from
            /\ t.reasons[n.key.n + 1].to = n.says.to
            /\ IsRemembered(t, n.says.from)
            /\ IsRemembered(t, n.says.to)

(***************************************************************************)
(* Memory holds nothing that the session does not: a note is written after *)
(* its commit and of what was committed, stays true of the session however *)
(* it goes on, and no key holds two (session_memory_recorder.rs, 9-21).    *)
(***************************************************************************)
RememberedWasStored ==
    /\ \A n \in memory : BorneOut(table, n)
    /\ \A m, n \in memory : m.key = n.key => m = n

\* Types, of the answers the engine's own reasons point at too: ordinals are
\* counted after the answer is there (record_that_it_answers).
TypeOK ==
    /\ store \in [revision: Nat, table: Table, journal: Seq(Fact)]
    /\ pc \in [Callers -> {"idle", "collecting", "staged", "remembering"}]
    /\ call \in [Callers -> Calls]
    /\ expected \in [Callers -> Nat]
    /\ note \in [Callers -> Notes \cup {None}]
    /\ memory \subseteq Notes
=============================================================================
