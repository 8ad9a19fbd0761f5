----------------------------- MODULE SessionTable -----------------------------
(***************************************************************************)
(* What happens at the table of a working session besides its steps: seats *)
(* ask things of the table and answer them, say why one thing led to       *)
(* another, and are seated. The same aggregate as CeremonyInstance; its    *)
(* state machine is reduced here to one human guard and the one move it    *)
(* guards, which ends the session. Faulty variants are named F_Defect and  *)
(* used by no behaviour of the model.                                      *)
(***************************************************************************)
EXTENDS Integers, Sequences, FiniteSets, Functions

CONSTANTS
    Seats,        \* the roles the definition declares
    MayAsk,       \* those allowed request_intervention
    MayAnswer,    \* those allowed respond_to_intervention
    MayEnd,       \* those allowed the transition that ends the session
    Items,        \* ids of agenda items (interventions)
    Sources,      \* evidence sources
    Specialties,  \* what a seat can be bound to
    None          \* an absent value: no item, no pack, no provenance, no seat

ASSUME TableAssumption ==
    /\ MayAsk \subseteq Seats
    /\ MayAnswer \subseteq Seats
    /\ MayEnd \subseteq Seats
    /\ None \notin Seats \cup Items \cup Sources \cup Specialties

-----------------------------------------------------------------------------
\* Things a session produced that a reason may join; an answer is numbered
\* from 0, a move from 1, as in the code.
RecordRef ==
    [kind: {"Step", "Guard"}, item: {None}, n: {0}]
        \cup [kind: {"Item"}, item: Items, n: {0}]
        \cup [kind: {"Answer"}, item: Items, n: Nat]
        \cup [kind: {"Transition"}, item: {None}, n: Nat]

Ref(kind, item, n) == [kind |-> kind, item |-> item, n |-> n]

Provenance == [item: Items, answeredBy: Seats, selected: Seats]

Response == [by: Seats, pack: Sources \cup {None}]

\* `target` is the set of seats the item is put to; the whole table is Seats.
Intervention ==
    [by: Seats, target: SUBSET Seats, from: Provenance \cup {None},
     answers: Seq(Response), open: BOOLEAN]

\* A kind of reason is abstracted to who may assert it.
Asserter == {"TheEngine", "ItsAuthor", "AnySeat"}

Reason == [from: RecordRef, to: RecordRef, claim: Asserter, by: Seats \cup {None}]

Table ==
    [items: [Items -> Intervention \cup {None}],
     reasons: Seq(Reason),
     seated: [Seats -> Specialties \cup {None}],
     approvals: Seq(Seats), deferrals: Seq(Seats),
     moves: Seq(Seats)]

ASSUME AbsenceAssumption == None \notin Intervention

EmptyTable ==
    [items |-> [i \in Items |-> None], reasons |-> <<>>,
     seated |-> [s \in Seats |-> None],
     approvals |-> <<>>, deferrals |-> <<>>, moves |-> <<>>]

\* One move, and it ends the session.
Finished(t) == t.moves # <<>>

-----------------------------------------------------------------------------
\* Asking.
Accepts(target, seat) == seat \in target

TargetAllowed(target) == target = Seats \/ (target # {} /\ target \subseteq MayAnswer)

ProvenanceAllowed_AnySelector(t, by, target, from) ==
    from # None =>
       /\ t.items[from.item] # None
       /\ \E k \in DOMAIN t.items[from.item].answers :
            t.items[from.item].answers[k].by = from.answeredBy
       /\ from.selected \in MayAnswer
       /\ Accepts(target, from.selected)

\* A follow-up names an answer the same seat received, and is put to a seat
\* that was selected on the strength of it.
ProvenanceAllowed(t, by, target, from) ==
    from # None =>
       /\ t.items[from.item] # None
       /\ t.items[from.item].by = by
       /\ \E k \in DOMAIN t.items[from.item].answers :
            t.items[from.item].answers[k].by = from.answeredBy
       /\ from.selected \in MayAnswer
       /\ Accepts(target, from.selected)

CanRequest(t, item, by, target, from) ==
    /\ ~Finished(t)
    /\ by \in MayAsk
    /\ TargetAllowed(target)
    /\ ProvenanceAllowed(t, by, target, from)
    /\ t.items[item] = None

Request(t, item, by, target, from) ==
    [t EXCEPT !.items[item] =
        [by |-> by, target |-> target, from |-> from, answers |-> <<>>, open |-> TRUE]]

-----------------------------------------------------------------------------
\* Answering, in words or out of a configured source; the engine records that
\* the contribution answers the item.
CanRespond(t, item, by) ==
    /\ ~Finished(t)
    /\ by \in MayAnswer
    /\ t.items[item] # None
    /\ t.items[item].open
    /\ Accepts(t.items[item].target, by)
    /\ \A k \in DOMAIN t.items[item].answers : t.items[item].answers[k].by # by

\* `t` already holds the answer.
ItAnswers(t, item) ==
    [from |-> Ref("Answer", item, Len(t.items[item].answers) - 1),
     to |-> Ref("Item", item, 0), claim |-> "TheEngine", by |-> None]

Respond(t, item, by, pack) ==
    LET answered == [t EXCEPT !.items[item].answers = Append(@, [by |-> by, pack |-> pack])] IN
    [answered EXCEPT !.reasons = Append(@, ItAnswers(answered, item))]

CanClose(t, item, by) ==
    /\ ~Finished(t)
    /\ by \in MayAsk
    /\ t.items[item] # None
    /\ t.items[item].open
    /\ by = t.items[item].by

Close(t, item) == [t EXCEPT !.items[item].open = FALSE]

-----------------------------------------------------------------------------
\* Saying why.
Exists(t, r) ==
    CASE r.kind = "Step" -> TRUE
      [] r.kind = "Item" -> t.items[r.item] # None
      [] r.kind = "Answer" -> t.items[r.item] # None /\ Len(t.items[r.item].answers) > r.n
      [] r.kind = "Guard" -> t.approvals # <<>> \/ t.deferrals # <<>>
      [] r.kind = "Transition" -> r.n \in 1..Len(t.moves)

\* Who produced an existing record: the first approval speaks for a guard,
\* and only without one the first deferral; nobody produced a step.
AuthorOf(t, r) ==
    CASE r.kind = "Step" -> None
      [] r.kind = "Item" -> t.items[r.item].by
      [] r.kind = "Answer" -> t.items[r.item].answers[r.n + 1].by
      [] r.kind = "Guard" -> IF t.approvals # <<>> THEN t.approvals[1] ELSE t.deferrals[1]
      [] r.kind = "Transition" -> t.moves[r.n]

\* Not asked: whether the session is still running. Understanding may come
\* after the ending.
CanAssert(t, from, to, claim, by) ==
    /\ by \in Seats
    /\ Exists(t, from)
    /\ Exists(t, to)
    /\ claim # "TheEngine"
    /\ claim = "ItsAuthor" => AuthorOf(t, from) = by
    /\ from # to

AssertReason(t, from, to, claim, by) ==
    [t EXCEPT !.reasons = Append(@, [from |-> from, to |-> to, claim |-> claim, by |-> by])]

-----------------------------------------------------------------------------
\* Seating: every seat named in the seating, or none of them.
CanBind(t, seating) == ~Finished(t) /\ DOMAIN seating \subseteq Seats

Bind(t, seating) ==
    [t EXCEPT !.seated = [s \in Seats |-> IF s \in DOMAIN seating THEN seating[s] ELSE @[s]]]

\* Deciding the guard and ending the session; see CeremonyInstance.
CanApprove(t, by) == ~Finished(t) /\ by \in Seats
CanDefer(t, by) == ~Finished(t) /\ by \in Seats /\ t.approvals = <<>>
CanEnd(t, by) == ~Finished(t) /\ by \in MayEnd /\ t.approvals # <<>>
=============================================================================
