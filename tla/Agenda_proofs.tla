---------------------------- MODULE Agenda_proofs ----------------------------
(***************************************************************************)
(* Proofs about Agenda, for any seats, items, sources and callers. The     *)
(* argument: a commit that lands has the stored table in hand, so the call *)
(* it applies is one that table allows (InHandIsCurrent). From there each  *)
(* accepted call is followed through the table and the facts it seals.     *)
(***************************************************************************)
EXTENDS Agenda, FiniteSetTheorems, WellFoundedInduction, TLAPS

-----------------------------------------------------------------------------
\* A call is a record of the kind its act says.
LEMMA CallTypes ==
    ASSUME NEW c \in Calls
    PROVE  /\ c.act \in {"Request", "Respond", "Collect", "Close", "Assert", "Bind",
                         "Approve", "Defer", "End", "None"}
           /\ c.act = "Request" =>
                /\ c.item \in Items /\ c.by \in Seats /\ c.target \in SUBSET Seats
                /\ c.from \in Provenance \cup {None}
           /\ c.act \in {"Respond", "Collect", "Close"} => c.item \in Items /\ c.by \in Seats
           /\ c.act = "Collect" => c.source \in Sources /\ c.pack \in Sources \cup {None}
           /\ c.act = "Assert" =>
                /\ c.from \in RecordRef /\ c.to \in RecordRef
                /\ c.claim \in Asserter /\ c.by \in Seats
           /\ c.act = "Bind" => c.seating \in Seating
           /\ c.act \in {"Approve", "Defer", "End"} => c.by \in Seats
           /\ c.act = "None" => c = NoCall
  BY DEF Calls, RequestCalls, AnswerCalls, CloseCalls, AssertCalls, BindCalls,
         DecisionCalls, NoCall

\* What a table holds.
LEMMA TableFields ==
    ASSUME NEW t \in Table
    PROVE  /\ t.items \in [Items -> Intervention \cup {None}]
           /\ t.reasons \in Seq(Reason)
           /\ t.seated \in [Seats -> Specialties \cup {None}]
           /\ t.approvals \in Seq(Seats) /\ t.deferrals \in Seq(Seats)
           /\ t.moves \in Seq(Seats)
  BY DEF Table

\* Asking puts an item on the table and changes nothing else.
LEMMA RequestEffect ==
    ASSUME NEW t \in Table, NEW c \in Calls, c.act = "Request"
    PROVE  LET u == After(t, c) IN
           /\ u \in Table
           /\ u.items = [t.items EXCEPT ![c.item] =
                            [by |-> c.by, target |-> c.target, from |-> c.from,
                             answers |-> <<>>, open |-> TRUE]]
           /\ u.items[c.item] # None
           /\ u.reasons = t.reasons /\ u.seated = t.seated /\ u.approvals = t.approvals
           /\ u.deferrals = t.deferrals /\ u.moves = t.moves
<1> DEFINE asked == [by |-> c.by, target |-> c.target, from |-> c.from,
                     answers |-> <<>>, open |-> TRUE]
<1>1. asked \in Intervention
  BY CallTypes DEF Intervention
<1>2. After(t, c) = [t EXCEPT !.items[c.item] = asked]
  BY DEF After, Request
<1> HIDE DEF asked
<1>3. c.item \in Items
  BY CallTypes
<1> DEFINE u == After(t, c)
<1>4. /\ u.items = [t.items EXCEPT ![c.item] = asked]
      /\ u.reasons = t.reasons /\ u.seated = t.seated /\ u.approvals = t.approvals
      /\ u.deferrals = t.deferrals /\ u.moves = t.moves
  BY <1>2 DEF Table
<1>5. u \in Table
  BY <1>1, <1>2, <1>3 DEF Table
<1>6. u.items[c.item] # None
  BY <1>1, <1>3, <1>4, TableFields, AbsenceAssumption
<1> QED
  BY <1>4, <1>5, <1>6, Zenon DEF asked

\* Answering adds one answer to an item on the table, and the engine's reason.
LEMMA AnswerEffect ==
    ASSUME NEW t \in Table, NEW c \in Calls, c.act \in {"Respond", "Collect"},
           t.items[c.item] # None
    PROVE  LET u == After(t, c)
               n == Len(t.items[c.item].answers)
               said == [by |-> c.by, pack |-> IF c.act = "Collect" THEN c.pack ELSE None] IN
           /\ u \in Table
           /\ u.items = [t.items EXCEPT ![c.item].answers = Append(@, said)]
           /\ u.items[c.item] # None
           /\ u.reasons = Append(t.reasons, [from |-> Ref("Answer", c.item, n),
                                             to |-> Ref("Item", c.item, 0),
                                             claim |-> "TheEngine", by |-> None])
           /\ u.seated = t.seated /\ u.approvals = t.approvals
           /\ u.deferrals = t.deferrals /\ u.moves = t.moves
<1> DEFINE said == [by |-> c.by, pack |-> IF c.act = "Collect" THEN c.pack ELSE None]
           n == Len(t.items[c.item].answers)
           v == [t EXCEPT !.items[c.item].answers = Append(@, said)]
           r == [from |-> Ref("Answer", c.item, n), to |-> Ref("Item", c.item, 0),
                 claim |-> "TheEngine", by |-> None]
<1>1. /\ c.item \in Items /\ c.by \in Seats /\ said \in Response
      /\ t.items[c.item] \in Intervention
  BY CallTypes, TableFields DEF Response
<1>2. /\ t.items[c.item].answers \in Seq(Response)
      /\ n \in Nat
  BY <1>1 DEF Intervention
<1>3. After(t, c) = Respond(t, c.item, c.by, said.pack)
  BY DEF After
<1>4. /\ [t.items[c.item] EXCEPT !.answers = Append(@, said)] \in Intervention
      /\ v.items = [t.items EXCEPT ![c.item].answers = Append(@, said)]
      /\ v.items[c.item] = [t.items[c.item] EXCEPT !.answers = Append(@, said)]
      /\ v \in Table
      /\ v.reasons = t.reasons /\ v.seated = t.seated /\ v.approvals = t.approvals
      /\ v.deferrals = t.deferrals /\ v.moves = t.moves
  <2> HIDE DEF said
  <2>1. Append(t.items[c.item].answers, said) \in Seq(Response)
    BY <1>1, <1>2
  <2>2. [t.items[c.item] EXCEPT !.answers = Append(@, said)] \in Intervention
    BY <1>1, <2>1 DEF Intervention
  <2>3. QED
    BY <2>2, <1>1 DEF Table
<1>5. Len(v.items[c.item].answers) - 1 = n
  <2>1. v.items[c.item].answers = Append(t.items[c.item].answers, said)
    BY <1>1, <1>4 DEF Intervention
  <2> HIDE DEF v
  <2>2. QED
    BY <2>1, <1>1, <1>2
<1>6. ItAnswers(v, c.item) = r
  BY <1>5 DEF ItAnswers
<1>7. r \in Reason
  BY <1>1, <1>2 DEF Reason, RecordRef, Ref, Asserter
<1>8. Respond(t, c.item, c.by, said.pack) = [v EXCEPT !.reasons = Append(@, ItAnswers(v, c.item))]
  BY DEF Respond
<1> HIDE DEF v, r, said
<1>9. After(t, c) = [v EXCEPT !.reasons = Append(@, r)]
  BY <1>3, <1>6, <1>8
<1>10. v.items[c.item] # None
  BY <1>4, AbsenceAssumption
<1>11. Append(v.reasons, r) \in Seq(Reason)
  BY <1>4, <1>7, TableFields
<1>12. /\ After(t, c) \in Table /\ After(t, c).items = v.items
       /\ After(t, c).reasons = Append(v.reasons, r)
       /\ After(t, c).seated = v.seated /\ After(t, c).approvals = v.approvals
       /\ After(t, c).deferrals = v.deferrals /\ After(t, c).moves = v.moves
  BY <1>4, <1>9, <1>11 DEF Table
<1> QED
  BY <1>4, <1>10, <1>12 DEF r, said

\* Closing touches one item's being open.
LEMMA CloseEffect ==
    ASSUME NEW t \in Table, NEW c \in Calls, c.act = "Close", t.items[c.item] # None
    PROVE  LET u == After(t, c) IN
           /\ u \in Table
           /\ u.items = [t.items EXCEPT ![c.item].open = FALSE]
           /\ u.items[c.item] # None
           /\ u.reasons = t.reasons /\ u.seated = t.seated /\ u.approvals = t.approvals
           /\ u.deferrals = t.deferrals /\ u.moves = t.moves
<1>1. c.item \in Items /\ t.items[c.item] \in Intervention
  BY CallTypes, TableFields
<1>2. [t.items[c.item] EXCEPT !.open = FALSE] \in Intervention
  BY <1>1 DEF Intervention
<1> DEFINE f == [t.items EXCEPT ![c.item].open = FALSE]
<1>3. After(t, c) = [t EXCEPT !.items = f]
  BY DEF After, Close, Table
<1>4. f \in [Items -> Intervention \cup {None}] /\ f[c.item] # None
  BY <1>1, <1>2, TableFields, AbsenceAssumption
<1> HIDE DEF f
<1>5. /\ After(t, c) \in Table /\ After(t, c).items = f
      /\ After(t, c).reasons = t.reasons /\ After(t, c).seated = t.seated
      /\ After(t, c).approvals = t.approvals
      /\ After(t, c).deferrals = t.deferrals /\ After(t, c).moves = t.moves
  BY <1>3, <1>4 DEF Table
<1> QED
  BY <1>4, <1>5 DEF f

\* A reason is added at the end.
LEMMA AssertEffect ==
    ASSUME NEW t \in Table, NEW c \in Calls, c.act = "Assert"
    PROVE  LET u == After(t, c)
               r == [from |-> c.from, to |-> c.to, claim |-> c.claim, by |-> c.by] IN
           /\ u \in Table
           /\ r \in Reason
           /\ u.reasons = Append(t.reasons, r)
           /\ u.items = t.items /\ u.seated = t.seated /\ u.approvals = t.approvals
           /\ u.deferrals = t.deferrals /\ u.moves = t.moves
<1> DEFINE r == [from |-> c.from, to |-> c.to, claim |-> c.claim, by |-> c.by]
<1>1. r \in Reason
  BY CallTypes DEF Reason
<1>2. After(t, c) = [t EXCEPT !.reasons = Append(@, r)]
  BY DEF After, AssertReason
<1> HIDE DEF r
<1>3. Append(t.reasons, r) \in Seq(Reason)
  BY <1>1, TableFields
<1>4. /\ After(t, c) \in Table
      /\ After(t, c).reasons = Append(t.reasons, r)
      /\ After(t, c).items = t.items /\ After(t, c).seated = t.seated
      /\ After(t, c).approvals = t.approvals
      /\ After(t, c).deferrals = t.deferrals /\ After(t, c).moves = t.moves
  BY <1>2, <1>3 DEF Table
<1> QED
  BY <1>1, <1>4 DEF r

\* A seating changes the seats it names.
LEMMA BindEffect ==
    ASSUME NEW t \in Table, NEW c \in Calls, c.act = "Bind"
    PROVE  LET u == After(t, c) IN
           /\ u \in Table
           /\ u.seated = [s \in Seats |-> IF s \in DOMAIN c.seating THEN c.seating[s]
                                                                  ELSE t.seated[s]]
           /\ u.items = t.items /\ u.reasons = t.reasons /\ u.approvals = t.approvals
           /\ u.deferrals = t.deferrals /\ u.moves = t.moves
<1> DEFINE f == [s \in Seats |-> IF s \in DOMAIN c.seating THEN c.seating[s] ELSE t.seated[s]]
<1>1. c.seating \in Seating
  BY CallTypes
<1>2. ASSUME NEW s \in DOMAIN c.seating PROVE c.seating[s] \in Specialties
  BY <1>1 DEF Seating
<1>3. f \in [Seats -> Specialties \cup {None}]
  BY <1>2, TableFields
<1>4. After(t, c) = [t EXCEPT !.seated = f]
  BY DEF After, Bind
<1> HIDE DEF f
<1>5. /\ After(t, c) \in Table /\ After(t, c).seated = f
      /\ After(t, c).items = t.items /\ After(t, c).reasons = t.reasons
      /\ After(t, c).approvals = t.approvals
      /\ After(t, c).deferrals = t.deferrals /\ After(t, c).moves = t.moves
  BY <1>3, <1>4 DEF Table
<1> QED
  BY <1>5 DEF f

\* A decision, or the ending, is added to its list.
LEMMA DecisionEffect ==
    ASSUME NEW t \in Table, NEW c \in Calls, c.act \in {"Approve", "Defer", "End"}
    PROVE  LET u == After(t, c) IN
           /\ u \in Table
           /\ u.approvals = IF c.act = "Approve" THEN Append(t.approvals, c.by) ELSE t.approvals
           /\ u.deferrals = IF c.act = "Defer" THEN Append(t.deferrals, c.by) ELSE t.deferrals
           /\ u.moves = IF c.act = "End" THEN Append(t.moves, c.by) ELSE t.moves
           /\ u.items = t.items /\ u.reasons = t.reasons /\ u.seated = t.seated
<1>1. c.by \in Seats
  BY CallTypes
<1>2. CASE c.act = "Approve"
  <2>1. Append(t.approvals, c.by) \in Seq(Seats)
    BY <1>1, TableFields
  <2>2. After(t, c) = [t EXCEPT !.approvals = Append(@, c.by)]
    BY <1>2 DEF After
  <2> QED BY <1>2, <2>1, <2>2 DEF Table
<1>3. CASE c.act = "Defer"
  <2>1. Append(t.deferrals, c.by) \in Seq(Seats)
    BY <1>1, TableFields
  <2>2. After(t, c) = [t EXCEPT !.deferrals = Append(@, c.by)]
    BY <1>3 DEF After
  <2> QED BY <1>3, <2>1, <2>2 DEF Table
<1>4. CASE c.act = "End"
  <2>1. Append(t.moves, c.by) \in Seq(Seats)
    BY <1>1, TableFields
  <2>2. After(t, c) = [t EXCEPT !.moves = Append(@, c.by)]
    BY <1>4 DEF After
  <2> QED BY <1>4, <2>1, <2>2 DEF Table
<1> QED
  BY <1>2, <1>3, <1>4

-----------------------------------------------------------------------------
\* The facts a call seals: one, or two of different types.
LEMMA FactTypes ==
    ASSUME NEW t \in Table, NEW c \in Calls, c # NoCall
    PROVE  FactsOf(t, c) \in Seq(Fact)
<1>1. c.act # "None"
  BY CallTypes
<1>2. ASSUME NEW f, NEW g, f \in Fact, g \in Fact PROVE <<f>> \in Seq(Fact) /\ <<f, g>> \in Seq(Fact)
  BY <1>2
<1>3. CASE c.act \in {"Request", "Respond", "Close"}
  <2>1. \A type \in {"InterventionRequested", "InterventionResponded", "InterventionClosed"} :
          ItemFact(type, c.item, c.by) \in Fact
    BY <1>3, CallTypes DEF ItemFact, Fact
  <2> QED BY <1>2, <1>3, <2>1 DEF FactsOf
<1>4. CASE c.act = "Collect"
  <2>1. /\ ItemFact("InterventionResponded", c.item, c.by) \in Fact
        /\ [type |-> "EvidenceCollected", item |-> c.item, by |-> c.by, source |-> c.source] \in Fact
    BY <1>4, CallTypes DEF ItemFact, Fact
  <2> QED BY <1>2, <1>4, <2>1 DEF FactsOf, EvidenceCollected
<1>5. CASE c.act = "Assert"
  <2>1. ReasonAsserted(t, c) \in Fact
    BY <1>5, CallTypes, TableFields DEF ReasonAsserted, Fact
  <2> QED BY <1>2, <1>5, <2>1 DEF FactsOf
<1>6. CASE c.act = "Bind"
  <2>1. [type |-> "ParticipantsBound", seating |-> c.seating] \in Fact
    BY <1>6, CallTypes DEF Fact
  <2> QED BY <1>2, <1>6, <2>1 DEF FactsOf
<1>7. CASE c.act \in {"Approve", "Defer", "End"}
  <2>1. \A type \in {"HumanApprovalRecorded", "HumanDeferralRecorded", "TransitionApplied",
                     "CeremonyCompleted"} : SeatFact(type, c.by) \in Fact
    BY <1>7, CallTypes DEF SeatFact, Fact
  <2> QED BY <1>2, <1>7, <2>1 DEF FactsOf
<1> QED
  BY <1>1, <1>3, <1>4, <1>5, <1>6, <1>7, CallTypes

-----------------------------------------------------------------------------
(***************************************************************************)
(* What a caller has in hand. Whoever finds the revision unchanged finds   *)
(* the table unchanged, so the call it was allowed is still allowed; a     *)
(* pack that is about to be attached is of the source that was asked.      *)
(***************************************************************************)
CallerIsCurrent(c) ==
    /\ pc[c] \in {"collecting", "staged"} =>
        /\ call[c] # NoCall
        /\ expected[c] <= store.revision
        /\ expected[c] = store.revision => Allowed(table, call[c])
        /\ pc[c] = "collecting" => call[c].act = "Collect"
        /\ pc[c] = "staged" /\ call[c].act = "Collect" => call[c].pack = call[c].source
    /\ pc[c] = "remembering" => note[c] # None

InHandIsCurrent == \A c \in Callers : CallerIsCurrent(c)

\* An answer or a closing is about an item that is on the table.
LEMMA AllowedItems ==
    ASSUME NEW t, NEW c, Allowed(t, c), c.act \in {"Respond", "Collect", "Close"}
    PROVE  t.items[c.item] # None
<1>1. CASE c.act \in {"Respond", "Collect"}
  <2>1. CanRespond(t, c.item, c.by)
    BY <1>1 DEF Allowed
  <2> QED BY <2>1 DEF CanRespond
<1>2. CASE c.act = "Close"
  <2>1. CanClose(t, c.item, c.by)
    BY <1>2 DEF Allowed
  <2> QED BY <2>1 DEF CanClose
<1> QED
  BY <1>1, <1>2

\* An allowed call leaves a table.
LEMMA AfterType ==
    ASSUME NEW t \in Table, NEW c \in Calls, c # NoCall, Allowed(t, c)
    PROVE  After(t, c) \in Table
<1>1. c.act # "None"
  BY CallTypes
<1>2. CASE c.act = "Request"
  BY <1>2, RequestEffect
<1>3. CASE c.act \in {"Respond", "Collect"}
  <2>1. t.items[c.item] # None
    BY <1>3, AllowedItems
  <2> QED BY <1>3, <2>1, AnswerEffect
<1>4. CASE c.act = "Close"
  <2>1. t.items[c.item] # None
    BY <1>4, AllowedItems
  <2> QED BY <1>4, <2>1, CloseEffect
<1>5. CASE c.act = "Assert"
  BY <1>5, AssertEffect
<1>6. CASE c.act = "Bind"
  BY <1>6, BindEffect
<1>7. CASE c.act \in {"Approve", "Defer", "End"}
  BY <1>7, DecisionEffect
<1> QED
  BY <1>1, <1>2, <1>3, <1>4, <1>5, <1>6, <1>7, CallTypes

\* The last element of what was appended to.
LEMMA AppendFacts ==
    ASSUME NEW S, NEW s \in Seq(S), NEW x \in S
    PROVE  /\ Append(s, x) \in Seq(S)
           /\ Len(s) \in Nat
           /\ Len(Append(s, x)) = Len(s) + 1
           /\ Append(s, x)[Len(s) + 1] = x
           /\ \A n \in 1..Len(s) : Append(s, x)[n] = s[n]
           /\ DOMAIN s = 1..Len(s)
           /\ DOMAIN Append(s, x) = 1..(Len(s) + 1)
           /\ Append(s, x) # <<>>
  OBVIOUS

\* The note a call leaves is one.
LEMMA NoteTypes ==
    ASSUME NEW t \in Table, NEW c \in Calls, c # NoCall, Allowed(t, c)
    PROVE  NoteOf(After(t, c), c) \in Notes \cup {None}
<1> DEFINE u == After(t, c)
<1>1. c.act # "None"
  BY CallTypes
<1>2. CASE c.act \in {"Request", "Close", "Bind"}
  BY <1>2 DEF NoteOf
<1>3. CASE c.act \in {"Respond", "Collect"}
  <2> DEFINE old == t.items[c.item].answers
             said == [by |-> c.by, pack |-> IF c.act = "Collect" THEN c.pack ELSE None]
  <2>0. t.items[c.item] # None
    BY <1>3, AllowedItems
  <2>1. c.item \in Items /\ t.items[c.item] \in Intervention /\ said \in Response
    BY <1>3, <2>0, CallTypes, TableFields DEF Response
  <2>2. u.items = [t.items EXCEPT ![c.item].answers = Append(@, said)]
    BY <1>3, <2>0, AnswerEffect
  <2>3. u.items[c.item].answers = Append(old, said)
    BY <2>1, <2>2, TableFields DEF Intervention
  <2>4. old \in Seq(Response)
    BY <2>1 DEF Intervention
  <2> HIDE DEF u, old, said
  <2>5. /\ Len(Append(old, said)) - 1 = Len(old) /\ Len(old) \in Nat
        /\ Append(old, said)[Len(old) + 1] = said
    BY <2>1, <2>4, AppendFacts
  <2>6. NoteOf(u, c) = Note(Ref("Answer", c.item, Len(old)), said)
    BY <1>3, <2>3, <2>5 DEF NoteOf, ContributionEntry
  <2>7. Ref("Answer", c.item, Len(old)) \in NoteKey
    BY <2>1, <2>5 DEF NoteKey, RecordRef, Ref
  <2>8. said \in Said
    BY <2>1 DEF Said
  <2>9. NoteOf(u, c) \in Notes
    BY <2>6, <2>7, <2>8 DEF Notes, Note
  <2> QED
    BY <2>9 DEF u
<1>4. CASE c.act \in {"Approve", "Defer"}
  <2> DEFINE says == IF u.approvals # <<>> THEN [decision |-> "approved", by |-> u.approvals[1]]
                                           ELSE [decision |-> "deferred", by |-> u.deferrals[1]]
  <2>1. /\ u.approvals \in Seq(Seats) /\ u.deferrals \in Seq(Seats)
        /\ u.approvals = IF c.act = "Approve" THEN Append(t.approvals, c.by) ELSE t.approvals
        /\ u.deferrals = IF c.act = "Defer" THEN Append(t.deferrals, c.by) ELSE t.deferrals
        /\ c.by \in Seats /\ t.approvals \in Seq(Seats) /\ t.deferrals \in Seq(Seats)
    BY <1>4, DecisionEffect, TableFields, CallTypes
  <2>2. u.approvals # <<>> \/ u.deferrals # <<>>
    BY <1>4, <2>1, AppendFacts
  <2>6. ASSUME NEW s \in Seq(Seats), s # <<>> PROVE s[1] \in Seats
    BY <2>6
  <2> HIDE DEF u
  <2>3. says \in [decision: {"approved", "deferred"}, by: Seats]
    <3>1. CASE u.approvals # <<>>
      <4>1. u.approvals[1] \in Seats
        BY <2>1, <2>6, <3>1
      <4> QED BY <3>1, <4>1
    <3>2. CASE u.approvals = <<>>
      <4>1. u.deferrals[1] \in Seats
        BY <2>1, <2>2, <2>6, <3>2
      <4> QED BY <3>2, <4>1
    <3> QED BY <3>1, <3>2
  <2>4. NoteOf(u, c) = Note(Ref("Guard", None, 0), says)
    BY <1>4 DEF NoteOf, GuardEntry
  <2>5. Ref("Guard", None, 0) \in NoteKey
    BY DEF NoteKey, RecordRef, Ref
  <2> HIDE DEF says
  <2>7. says \in Said
    BY <2>3 DEF Said
  <2>8. NoteOf(u, c) \in Notes
    BY <2>4, <2>5, <2>7 DEF Notes, Note
  <2> QED BY <2>8 DEF u
<1>5. CASE c.act = "End"
  <2>1. /\ u.moves = Append(t.moves, c.by) /\ c.by \in Seats /\ t.moves \in Seq(Seats)
    BY <1>5, DecisionEffect, TableFields, CallTypes
  <2> HIDE DEF u
  <2>2. u.moves[Len(u.moves)] = c.by /\ Len(u.moves) \in Nat
    BY <2>1, AppendFacts
  <2>3. NoteOf(u, c) = Note(Ref("Transition", None, Len(u.moves)), [finished |-> TRUE, by |-> c.by])
    BY <1>5, <2>2 DEF NoteOf, EndingEntry
  <2>4. Ref("Transition", None, Len(u.moves)) \in NoteKey
    BY <2>2 DEF NoteKey, RecordRef, Ref
  <2>5. [finished |-> TRUE, by |-> c.by] \in Said
    BY <2>1 DEF Said
  <2>6. NoteOf(u, c) \in Notes
    BY <2>3, <2>4, <2>5 DEF Notes, Note
  <2> QED BY <2>6 DEF u
<1>6. CASE c.act = "Assert"
  <2> DEFINE r == [from |-> c.from, to |-> c.to, claim |-> c.claim, by |-> c.by]
  <2>1. u.reasons = Append(t.reasons, r) /\ r \in Reason /\ t.reasons \in Seq(Reason)
    BY <1>6, AssertEffect, TableFields
  <2> HIDE DEF r, u
  <2>2. /\ Len(u.reasons) - 1 \in Nat /\ u.reasons[Len(u.reasons)] = r
        /\ Len(u.reasons) - 1 + 1 = Len(u.reasons)
    BY <2>1, AppendFacts
  <2>3. RelationEntry(u) = Note(Ref("Reason", None, Len(u.reasons) - 1), [from |-> r.from, to |-> r.to])
    BY <2>2 DEF RelationEntry
  <2>4. NoteOf(u, c) \in {RelationEntry(u), None}
    BY <1>6 DEF NoteOf
  <2>5. Ref("Reason", None, Len(u.reasons) - 1) \in NoteKey /\ r.from \in RecordRef /\ r.to \in RecordRef
    BY <2>1, <2>2 DEF NoteKey, Ref, Reason
  <2>6. [from |-> r.from, to |-> r.to] \in Said
    BY <2>5 DEF Said
  <2>7. RelationEntry(u) \in Notes
    BY <2>3, <2>5, <2>6 DEF Notes, Note
  <2> QED BY <2>4, <2>7 DEF u
<1> QED
  BY <1>1, <1>2, <1>3, <1>4, <1>5, <1>6, CallTypes

-----------------------------------------------------------------------------
Current == TypeOK /\ InHandIsCurrent

\* What a commit that lands does to the store.
LEMMA CommitEffect ==
    ASSUME Current, NEW c \in Callers, Commit(c)
    PROVE  /\ call[c] \in Calls /\ call[c] # NoCall
           /\ Allowed(table, call[c])
           /\ call[c].act = "Collect" => call[c].pack = call[c].source
           /\ table \in Table /\ journal \in Seq(Fact)
           /\ table' = After(table, call[c]) /\ table' \in Table
           /\ FactsOf(table', call[c]) \in Seq(Fact)
           /\ journal' = journal \o FactsOf(table', call[c])
           /\ journal' \in Seq(Fact)
           /\ store' \in [revision: Nat, table: Table, journal: Seq(Fact)]
           /\ store'.revision = store.revision + 1
<1>1. /\ call[c] \in Calls /\ table \in Table /\ journal \in Seq(Fact) /\ store.revision \in Nat
      /\ pc[c] = "staged" /\ expected[c] = store.revision
  BY DEF Current, TypeOK, Commit, table, journal
<1>2. /\ call[c] # NoCall /\ Allowed(table, call[c])
      /\ call[c].act = "Collect" => call[c].pack = call[c].source
  BY <1>1 DEF Current, InHandIsCurrent, CallerIsCurrent
<1> DEFINE u == After(table, call[c])
           facts == FactsOf(u, call[c])
<1>3. store' = [revision |-> store.revision + 1, table |-> u, journal |-> journal \o facts]
  BY DEF Commit, table, journal
<1>4. u \in Table
  BY <1>1, <1>2, AfterType
<1>5. facts \in Seq(Fact)
  BY <1>1, <1>2, <1>4, FactTypes
<1> HIDE DEF u, facts
<1>6. journal \o facts \in Seq(Fact)
  BY <1>1, <1>5
<1>7. table' = u /\ journal' = journal \o facts /\ store'.revision = store.revision + 1
  BY <1>3 DEF table, journal
<1>8. store' \in [revision: Nat, table: Table, journal: Seq(Fact)]
  BY <1>1, <1>3, <1>4, <1>6
<1>9. facts = FactsOf(table', call[c])
  BY <1>7 DEF facts
<1> QED
  BY <1>1, <1>2, <1>4, <1>5, <1>6, <1>7, <1>8, <1>9 DEF u

\* Somebody whose variables did not change stays current.
LEMMA OthersStayCurrent ==
    ASSUME TypeOK, NEW d \in Callers, CallerIsCurrent(d),
           pc'[d] = pc[d], call'[d] = call[d], expected'[d] = expected[d],
           note'[d] = note[d],
           \/ store' = store
           \/ store'.revision = store.revision + 1
    PROVE  CallerIsCurrent(d)'
<1>1. expected[d] \in Nat /\ store.revision \in Nat
  BY DEF TypeOK
<1> QED
  BY <1>1 DEF CallerIsCurrent, table

\* A caller that is done with its call holds nothing.
LEMMA SettledCallers ==
    ASSUME TypeOK, InHandIsCurrent, NEW c \in Callers, Settle(c),
           NEW where \in {"idle", "remembering"}, pc' = [pc EXCEPT ![c] = where],
           NEW left \in Notes \cup {None}, note' = [note EXCEPT ![c] = left],
           where = "remembering" => left # None,
           memory' \subseteq Notes,
           store' \in [revision: Nat, table: Table, journal: Seq(Fact)],
           \/ store' = store
           \/ store'.revision = store.revision + 1
    PROVE  Current'
<1>1. NoCall \in Calls
  BY DEF Calls
<1>2. TypeOK'
  BY <1>1 DEF TypeOK, Settle
<1>3. ASSUME NEW d \in Callers PROVE CallerIsCurrent(d)'
  <2>1. CASE d = c
    BY <2>1 DEF CallerIsCurrent, TypeOK
  <2>2. CASE d # c
    <3>1. /\ pc'[d] = pc[d] /\ call'[d] = call[d] /\ expected'[d] = expected[d]
          /\ note'[d] = note[d]
      BY <2>2 DEF TypeOK, Settle
    <3> QED BY <3>1, OthersStayCurrent DEF InHandIsCurrent
  <2> QED BY <2>1, <2>2
<1> QED
  BY <1>2, <1>3 DEF Current, InHandIsCurrent

\* Returning, whatever became of the call.
LEMMA ReturnKeeps ==
    ASSUME Current, NEW c \in Callers, Return(c), store' = store, memory' \subseteq Notes
    PROVE  Current'
<1>1. store' \in [revision: Nat, table: Table, journal: Seq(Fact)]
  BY DEF Current, TypeOK
<1> QED
  BY <1>1, SettledCallers DEF Current, Return

\* Loading, and the operation on the copy.
LEMMA BeginKeeps ==
    ASSUME Current, NEW c \in Callers, NEW request \in Offered, Begin(c, request)
    PROVE  Current'
<1>1. request \in Calls /\ request # NoCall
  BY AgendaAssumption
<1>2. request.act = "Collect" => pc'[c] = "collecting"
  BY DEF Begin, Current, TypeOK
<1>3. request.act # "Collect" => pc'[c] = "staged"
  BY DEF Begin, Current, TypeOK
<1>4. TypeOK'
  BY <1>1 DEF Current, TypeOK, Begin
<1>5. ASSUME NEW d \in Callers PROVE CallerIsCurrent(d)'
  <2>1. CASE d = c
    <3>1. call'[c] = request /\ expected'[c] = store.revision /\ store' = store
      BY DEF Begin, Current, TypeOK
    <3>2. Allowed(table, request)
      BY DEF Begin, table
    <3>3. store.revision <= store.revision
      BY DEF Current, TypeOK
    <3> QED BY <1>1, <1>2, <1>3, <2>1, <3>1, <3>2, <3>3 DEF CallerIsCurrent, table
  <2>2. CASE d # c
    <3>1. /\ pc'[d] = pc[d] /\ call'[d] = call[d] /\ expected'[d] = expected[d]
          /\ note'[d] = note[d] /\ store' = store
      BY <2>2 DEF Current, TypeOK, Begin
    <3> QED BY <3>1, OthersStayCurrent DEF Current, InHandIsCurrent
  <2> QED BY <2>1, <2>2
<1> QED
  BY <1>4, <1>5 DEF Current, InHandIsCurrent

\* The source's pack arrives.
LEMMA CollectedKeeps ==
    ASSUME Current, NEW c \in Callers, NEW source \in Sources, Collected(c, source)
    PROVE  Current'
<1> DEFINE was == call[c]
           is == [was EXCEPT !.pack = source]
<1>1. was \in Calls /\ was.act = "Collect" /\ pc[c] = "collecting" /\ source = was.source
  BY DEF Collected, Current, TypeOK, InHandIsCurrent, CallerIsCurrent
<1>2. was \in [act: {"Collect"}, item: Items, by: Seats, source: Sources,
               pack: Sources \cup {None}]
  BY <1>1 DEF Calls, RequestCalls, AnswerCalls, CloseCalls, AssertCalls, BindCalls,
              DecisionCalls, NoCall
<1>3. /\ is \in [act: {"Collect"}, item: Items, by: Seats, source: Sources,
                 pack: Sources \cup {None}]
      /\ is.act = was.act /\ is.item = was.item /\ is.by = was.by /\ is.source = was.source
      /\ is.pack = source
  BY <1>2
<1>4. is \in Calls /\ is # NoCall
  <2>1. is \in Calls
    BY <1>3 DEF Calls, AnswerCalls
  <2>2. is.act # NoCall.act
    BY <1>3 DEF NoCall
  <2> QED BY <2>1, <2>2
<1>5. /\ call' = [call EXCEPT ![c] = is] /\ pc' = [pc EXCEPT ![c] = "staged"]
      /\ UNCHANGED <<store, memory, expected, note>>
  BY DEF Collected
<1>6. Allowed(table, was) <=> Allowed(table, is)
  BY <1>1, <1>3 DEF Allowed
<1>7. TypeOK'
  BY <1>4, <1>5 DEF Current, TypeOK
<1>8. ASSUME NEW d \in Callers PROVE CallerIsCurrent(d)'
  <2>1. CASE d = c
    <3>1. /\ expected[c] <= store.revision
          /\ expected[c] = store.revision => Allowed(table, was)
      BY <1>1 DEF Current, InHandIsCurrent, CallerIsCurrent
    <3>2. /\ call'[c] = is /\ pc'[c] = "staged" /\ expected'[c] = expected[c]
          /\ store' = store
      BY <1>5 DEF Current, TypeOK
    <3>3. is.pack = is.source
      BY <1>1, <1>3
    <3> HIDE DEF is
    <3> QED
      BY <1>4, <1>6, <2>1, <3>1, <3>2, <3>3 DEF CallerIsCurrent, table
  <2>2. CASE d # c
    <3>1. /\ pc'[d] = pc[d] /\ call'[d] = call[d] /\ expected'[d] = expected[d]
          /\ note'[d] = note[d] /\ store' = store
      BY <2>2, <1>5 DEF Current, TypeOK
    <3> QED BY <3>1, OthersStayCurrent DEF Current, InHandIsCurrent
  <2> QED BY <2>1, <2>2
<1> QED
  BY <1>7, <1>8 DEF Current, InHandIsCurrent

LEMMA CommitKeeps ==
    ASSUME Current, NEW c \in Callers, Commit(c)
    PROVE  Current'
<1> DEFINE left == NoteOf(After(table, call[c]), call[c])
<1>1. left \in Notes \cup {None}
  BY CommitEffect, NoteTypes
<1>2. /\ pc' = [pc EXCEPT ![c] = IF left = None THEN "idle" ELSE "remembering"]
      /\ note' = [note EXCEPT ![c] = left]
      /\ Settle(c) /\ memory' = memory
  BY DEF Commit, table
<1> HIDE DEF left
<1>3. /\ store' \in [revision: Nat, table: Table, journal: Seq(Fact)]
      /\ store'.revision = store.revision + 1
  BY CommitEffect
<1>4. \E where \in {"idle", "remembering"} :
        pc' = [pc EXCEPT ![c] = where] /\ (where = "remembering" => left # None)
  BY <1>2
<1>5. memory' \subseteq Notes
  BY <1>2 DEF Current, TypeOK
<1> QED
  BY <1>1, <1>2, <1>3, <1>4, <1>5, SettledCallers DEF Current

\* A step of the table's store is a landing commit, and nothing else.
LEMMA StepKinds ==
    ASSUME Current, [Next]_vars
    PROVE  /\ Current'
           /\ store' = store \/ \E c \in Callers : Commit(c)
<1>1. CASE UNCHANGED vars
  BY <1>1 DEF vars, local, Current, TypeOK, InHandIsCurrent, CallerIsCurrent, table
<1>2. ASSUME NEW c \in Callers, NEW request \in Offered, Begin(c, request) \/ Refuse(c, request)
      PROVE  Current' /\ store' = store
  <2>1. CASE Begin(c, request)
    BY <2>1, BeginKeeps DEF Begin
  <2>2. CASE Refuse(c, request)
    BY <2>2 DEF Refuse, vars, local, Current, TypeOK, InHandIsCurrent, CallerIsCurrent, table
  <2> QED BY <1>2, <2>1, <2>2
<1>3. ASSUME NEW c \in Callers, NEW source \in Sources,
             Collected(c, source) \/ PackRefused(c, source)
      PROVE  Current' /\ store' = store
  <2>1. CASE Collected(c, source)
    BY <2>1, CollectedKeeps DEF Collected
  <2>2. CASE PackRefused(c, source)
    <3>1. Return(c) /\ store' = store /\ memory' \subseteq Notes
      BY <2>2 DEF PackRefused, Current, TypeOK
    <3> QED BY <3>1, ReturnKeeps
  <2> QED BY <1>3, <2>1, <2>2
<1>4. ASSUME NEW c \in Callers, Commit(c) PROVE Current'
  BY <1>4, CommitKeeps
<1>5. ASSUME NEW c \in Callers,
             Conflict(c) \/ Remember(c) \/ AlreadyRemembered(c) \/ Abandon(c)
      PROVE  Current' /\ store' = store
  <2>1. Return(c) /\ store' = store
    BY <1>5 DEF Conflict, Remember, AlreadyRemembered, Abandon
  <2>2. memory' \subseteq Notes
    <3>1. CASE Remember(c)
      <4>1. note[c] \in Notes
        BY <3>1 DEF Current, TypeOK, InHandIsCurrent, CallerIsCurrent, Remember
      <4> QED BY <3>1, <4>1 DEF Current, TypeOK, Remember
    <3>2. CASE Conflict(c) \/ AlreadyRemembered(c) \/ Abandon(c)
      BY <3>2 DEF Current, TypeOK, Conflict, AlreadyRemembered, Abandon
    <3> QED BY <1>5, <3>1, <3>2
  <2> QED BY <2>1, <2>2, ReturnKeeps
<1> QED
  BY <1>1, <1>2, <1>3, <1>4, <1>5 DEF Next

\* Before the first call nobody has anything in hand.
LEMMA CurrentAtFirst == Init => Current
<1> SUFFICES ASSUME Init PROVE Current
  OBVIOUS
<1>1. EmptyTable \in Table
  BY DEF EmptyTable, Table
<1>2. NoCall \in Calls
  BY DEF Calls
<1>3. TypeOK
  BY <1>1, <1>2 DEF Init, TypeOK
<1> QED
  BY <1>3 DEF Current, InHandIsCurrent, CallerIsCurrent, Init

(***************************************************************************)
(* Types hold, and a caller that commits has the stored table in hand.     *)
(***************************************************************************)
THEOREM AgendaTypeCorrect == Spec => []TypeOK /\ []InHandIsCurrent
<1>1. Init => Current
  BY CurrentAtFirst
<1>2. Current /\ [Next]_vars => Current'
  BY StepKinds
<1>3. Current => TypeOK /\ InHandIsCurrent
  BY DEF Current
<1> QED
  BY <1>1, <1>2, <1>3, PTL DEF Spec

-----------------------------------------------------------------------------
(***************************************************************************)
(* Positions in order. A set of positions that has a k-th member for every *)
(* k up to its size goes on having one when a larger position is added,    *)
(* and the ones it had stay where they were.                               *)
(***************************************************************************)
UpTo(P, p) == {q \in P : q <= p}

Ordered(P) ==
    /\ P \subseteq Nat
    /\ IsFiniteSet(P)
    /\ \A k \in 1..Cardinality(P) : \E p \in P : Cardinality(UpTo(P, p)) = k

\* At most one position is the k-th.
LEMMA NthIsUnique ==
    ASSUME NEW P \in SUBSET Nat, IsFiniteSet(P), NEW p \in P
    PROVE  Nth(P, Cardinality(UpTo(P, p))) = p
<1>1. ASSUME NEW r \in P, NEW s \in P, r < s
      PROVE  Cardinality(UpTo(P, r)) # Cardinality(UpTo(P, s))
  <2>1. UpTo(P, r) \subseteq UpTo(P, s) /\ UpTo(P, s) \subseteq P
    <3>1. ASSUME NEW q \in P, q <= r PROVE q <= s
      <4>1. q \in Nat /\ r \in Nat /\ s \in Nat
        OBVIOUS
      <4> QED BY <1>1, <3>1, <4>1
    <3> QED BY <3>1 DEF UpTo
  <2>2. s \in UpTo(P, s) /\ s \notin UpTo(P, r)
    BY <1>1 DEF UpTo
  <2>3. IsFiniteSet(UpTo(P, s))
    BY <2>1, FS_Subset
  <2> QED BY <2>1, <2>2, <2>3, FS_Subset
<1>2. \A r, s \in P : Cardinality(UpTo(P, r)) = Cardinality(UpTo(P, s)) => r = s
  BY <1>1
<1>3. Nth(P, Cardinality(UpTo(P, p))) =
        CHOOSE r \in P : Cardinality(UpTo(P, r)) = Cardinality(UpTo(P, p))
  BY DEF Nth, UpTo
<1> QED
  BY <1>2, <1>3

LEMMA GrownOrder ==
    ASSUME NEW P, Ordered(P), NEW m \in Nat, \A p \in P : p < m
    PROVE  LET Q == P \cup {m} IN
           /\ Ordered(Q)
           /\ Cardinality(P) \in Nat
           /\ Cardinality(Q) = Cardinality(P) + 1
           /\ Nth(Q, Cardinality(P) + 1) = m
           /\ \A k \in 1..Cardinality(P) : Nth(Q, k) = Nth(P, k) /\ Nth(P, k) \in P
<1> DEFINE Q == P \cup {m}
<1>1. P \subseteq Nat /\ Q \subseteq Nat /\ IsFiniteSet(P) /\ m \notin P
  BY DEF Ordered
<1>2. /\ Cardinality(P) \in Nat /\ IsFiniteSet(Q)
      /\ Cardinality(Q) = Cardinality(P) + 1
  BY <1>1, FS_CardinalityType, FS_AddElement
<1>3. UpTo(Q, m) = Q
  <2>1. ASSUME NEW q \in Q PROVE q <= m
    <3>1. q \in Nat
      BY <1>1
    <3> QED BY <3>1
  <2> QED BY <2>1 DEF UpTo
<1>4. ASSUME NEW p \in P PROVE UpTo(Q, p) = UpTo(P, p)
  BY <1>1 DEF UpTo
<1>5. Nth(Q, Cardinality(P) + 1) = m
  BY <1>1, <1>2, <1>3, NthIsUnique
<1>6. ASSUME NEW k \in 1..Cardinality(P)
      PROVE  /\ Nth(Q, k) = Nth(P, k) /\ Nth(P, k) \in P
             /\ \E p \in Q : Cardinality(UpTo(Q, p)) = k
  <2>1. PICK p \in P : Cardinality(UpTo(P, p)) = k
    BY <1>6 DEF Ordered
  <2>2. Nth(P, k) = p
    BY <1>1, <2>1, NthIsUnique
  <2>3. p \in Q /\ Cardinality(UpTo(Q, p)) = k
    BY <1>4, <2>1
  <2>4. Nth(Q, k) = p
    BY <1>1, <1>2, <2>3, NthIsUnique
  <2> QED BY <2>2, <2>3, <2>4
<1>7. Ordered(Q)
  <2>1. ASSUME NEW k \in 1..Cardinality(Q) PROVE \E p \in Q : Cardinality(UpTo(Q, p)) = k
    <3>1. CASE k \in 1..Cardinality(P)
      BY <1>6, <3>1
    <3>2. CASE k = Cardinality(P) + 1
      BY <1>2, <1>3, <3>2
    <3> QED BY <1>2, <2>1, <3>1, <3>2
  <2> QED BY <1>1, <1>2, <2>1 DEF Ordered
<1> QED
  BY <1>2, <1>5, <1>6, <1>7

LEMMA EmptyOrdered == Ordered({}) /\ Cardinality({}) = 0
  BY FS_EmptySet DEF Ordered

\* The k-th of an ordered set is one of its members.
LEMMA NthInOrdered ==
    ASSUME NEW P, Ordered(P), NEW k \in 1..Cardinality(P)
    PROVE  Nth(P, k) \in P
<1>1. PICK p \in P : Cardinality(UpTo(P, p)) = k
  BY DEF Ordered
<1> QED
  BY <1>1, NthIsUnique DEF Ordered

(***************************************************************************)
(* Every set of positions up to some n is in order: the least n for which  *)
(* one is not would have a smaller one.                                    *)
(***************************************************************************)
LEMMA PositionsOrdered ==
    ASSUME NEW n \in Nat, NEW P \in SUBSET (1..n)
    PROVE  Ordered(P)
<1> DEFINE T == {m \in Nat : \E S \in SUBSET (1..m) : ~Ordered(S)}
<1> SUFFICES ASSUME T # {} PROVE FALSE
  OBVIOUS
<1>1. PICK m \in T : \A k \in T : ~(<<k, m>> \in OpToRel(<, Nat))
  <2>1. T \subseteq Nat
    OBVIOUS
  <2> QED BY <2>1, NatLessThanWellFounded, WFMin, Zenon
<1>2. PICK S \in SUBSET (1..m) : ~Ordered(S)
  OBVIOUS
<1>3. \A k \in T : ~(k < m)
  BY <1>1 DEF OpToRel
<1>4. m # 0
  <2>1. SUFFICES ASSUME m = 0 PROVE FALSE
    OBVIOUS
  <2>2. S = {}
    BY <2>1
  <2> QED BY <1>2, <2>2, EmptyOrdered
<1>5. m - 1 \in Nat /\ m - 1 < m
  BY <1>4
<1>6. m - 1 \notin T
  BY <1>3, <1>5
<1>7. \A R \in SUBSET (1..(m - 1)) : Ordered(R)
  BY <1>5, <1>6
<1> DEFINE R == S \ {m}
<1>8. R \in SUBSET (1..(m - 1)) /\ \A p \in R : p < m
  OBVIOUS
<1>9. Ordered(R)
  BY <1>7, <1>8
<1>10. S = R \/ S = R \cup {m}
  OBVIOUS
<1>11. Ordered(R \cup {m})
  BY <1>8, <1>9, GrownOrder
<1> QED
  BY <1>2, <1>9, <1>10, <1>11

-----------------------------------------------------------------------------
(***************************************************************************)
(* What agrees with the journal, in parts that a step can be followed      *)
(* through; `Seen` and `Named` are the sets the properties count.          *)
(***************************************************************************)
AnswersOf(i) == IF table.items[i] = None THEN <<>> ELSE table.items[i].answers

Seen(i) ==
    {k \in DOMAIN table.reasons :
        table.reasons[k].claim = "TheEngine" /\ table.reasons[k].to = Ref("Item", i, 0)}

Named(s) == {p \in Sealed("ParticipantsBound") : s \in DOMAIN journal[p].seating}

GivenAs(k) == {p \in Sealed("ReasonAsserted") : journal[p].ordinal = k}

Evidence(i, by, s) ==
    \E p \in SealedOn("EvidenceCollected", i) : journal[p].by = by /\ journal[p].source = s

AnswerAttested(i, k) ==
    LET answer == AnswersOf(i)[k] IN
    /\ journal[Nth(SealedOn("InterventionResponded", i), k)].by = answer.by
    /\ \A l \in DOMAIN AnswersOf(i) : AnswersOf(i)[l].by = answer.by => l = k
    /\ table.reasons[Nth(Seen(i), k)].from = Ref("Answer", i, k - 1)
    /\ \A s \in Sources : answer.pack = s <=>
         \E p \in SealedOn("EvidenceCollected", i) :
            journal[p].by = answer.by /\ journal[p].source = s

AnswersCounted(i) ==
    /\ Cardinality(SealedOn("InterventionResponded", i)) = Len(AnswersOf(i))
    /\ Cardinality(Seen(i)) = Len(AnswersOf(i))
    /\ \A k \in DOMAIN AnswersOf(i) : AnswerAttested(i, k)

\* It is the property, in parts; so it is after a step.
LEMMA AnswersParts ==
    ASSUME NEW i
    PROVE  /\ AnswersAccountedFor(i) <=> AnswersCounted(i)
           /\ AnswersAccountedFor(i)' <=> AnswersCounted(i)'
<1>1. AnswersAccountedFor(i) <=> AnswersCounted(i)
  BY DEF AnswersAccountedFor, AnswersCounted, AnswersOf, Seen, AnswerAttested
<1>2. AnswersAccountedFor(i)' <=> AnswersCounted(i)'
  BY DEF AnswersAccountedFor, AnswersCounted, AnswersOf, Seen, AnswerAttested
<1> QED
  BY <1>1, <1>2

\* Nobody consulted a source on the item without answering it.
EvidenceOwned(i) ==
    \A p \in SealedOn("EvidenceCollected", i) :
        \E k \in DOMAIN AnswersOf(i) : AnswersOf(i)[k].by = journal[p].by

\* Answered after it was asked and before it was closed.
Timely(i) ==
    \A p \in SealedOn("InterventionResponded", i) :
        /\ \E q \in SealedOn("InterventionRequested", i) : q < p
        /\ \A q \in SealedOn("InterventionClosed", i) : p < q

ItemAgrees(i) ==
    AnswersAccountedFor(i) /\ ItemAccountedFor(i) /\ Timely(i) /\ EvidenceOwned(i)

\* There is one ending, sealed of a session that ended; only reasons follow.
EndingSealed ==
    /\ Sealed("CeremonyCompleted") # {} => Finished(table)
    /\ Len(table.moves) <= 1
    /\ \A p \in Sealed("CeremonyCompleted") : \A q \in DOMAIN journal :
         p < q => journal[q].type = "ReasonAsserted"

\* The inductive invariant.
Agreement ==
    /\ \A i \in Items : ItemAgrees(i)
    /\ ReasonsAccountedFor
    /\ SeatsAccountedFor
    /\ EndingSealed

LEMMA AgreementIsEnough == Agreement => AgendaAgreesWithJournal
  BY DEF Agreement, AgendaAgreesWithJournal, ItemAgrees, Timely, EndingSealed, AnswersInTime

-----------------------------------------------------------------------------
\* Positions of the facts of a type in a journal, and of those on an item.
Of(j, type) == {p \in DOMAIN j : j[p].type = type}
OfItem(j, type, item) == {p \in Of(j, type) : j[p].item = item}

LEMMA SealedIsOf ==
    /\ \A type : Sealed(type) = Of(journal, type) /\ Sealed(type)' = Of(journal', type)
    /\ \A type, i : /\ SealedOn(type, i) = OfItem(journal, type, i)
                    /\ SealedOn(type, i)' = OfItem(journal', type, i)
  BY DEF Sealed, SealedOn, Of, OfItem

\* A journal keeps what it holds.
Keeps(j, l) == \A p \in DOMAIN j : p \in DOMAIN l /\ l[p] = j[p]

\* One more fact: it is the last, and only the sets it belongs to grow.
LEMMA OneFact ==
    ASSUME NEW j \in Seq(Fact), NEW f \in Fact
    PROVE  LET l == j \o <<f>>
               m == Len(j) + 1 IN
           /\ l \in Seq(Fact) /\ Len(l) = m /\ m \in Nat
           /\ Keeps(j, l)
           /\ DOMAIN j = 1..Len(j) /\ DOMAIN l = DOMAIN j \cup {m} /\ l[m] = f
           /\ \A p \in DOMAIN j : p \in Nat /\ p < m
           /\ \A type : Of(l, type) = IF f.type = type THEN Of(j, type) \cup {m}
                                                       ELSE Of(j, type)
           /\ \A type, i : OfItem(l, type, i) =
                IF f.type = type /\ f.item = i THEN OfItem(j, type, i) \cup {m}
                                               ELSE OfItem(j, type, i)
<1> DEFINE l == j \o <<f>>
           m == Len(j) + 1
<1>1. /\ l \in Seq(Fact) /\ Len(l) = m /\ m \in Nat
      /\ DOMAIN j = 1..Len(j) /\ DOMAIN l = DOMAIN j \cup {m} /\ l[m] = f
      /\ \A p \in DOMAIN j : p \in Nat /\ p < m /\ p \in DOMAIN l /\ l[p] = j[p]
  <2>1. Len(j) \in Nat /\ <<f>> \in Seq(Fact)
    OBVIOUS
  <2>2. /\ l \in Seq(Fact) /\ Len(l) = m /\ m \in Nat
        /\ DOMAIN j = 1..Len(j) /\ DOMAIN l = 1..m
    BY <2>1
  <2>3. \A p \in DOMAIN j : l[p] = j[p]
    BY <2>1
  <2>4. l[m] = f
    BY <2>1
  <2>5. 1..m = 1..Len(j) \cup {m} /\ \A p \in 1..Len(j) : p \in Nat /\ p < m
    BY <2>1
  <2> QED BY <2>2, <2>3, <2>4, <2>5
<1> HIDE DEF l, m
<1>2. ASSUME NEW type
      PROVE  Of(l, type) = IF f.type = type THEN Of(j, type) \cup {m} ELSE Of(j, type)
  BY <1>1 DEF Of
<1>3. ASSUME NEW type, NEW i
      PROVE  OfItem(l, type, i) =
               IF f.type = type /\ f.item = i THEN OfItem(j, type, i) \cup {m}
                                              ELSE OfItem(j, type, i)
  BY <1>1 DEF Of, OfItem
<1> QED
  BY <1>1, <1>2, <1>3 DEF Keeps, l, m

LEMMA TwoFacts ==
    ASSUME NEW j \in Seq(Fact), NEW f \in Fact, NEW g \in Fact
    PROVE  LET k == j \o <<f>> IN
           /\ j \o <<f, g>> = k \o <<g>>
           /\ k \in Seq(Fact) /\ Len(k) = Len(j) + 1
<1> DEFINE k == j \o <<f>>
           l == j \o <<f, g>>
           n == Len(j) + 2
<1>1. k \in Seq(Fact) /\ Len(k) = Len(j) + 1 /\ Len(j) \in Nat
  OBVIOUS
<1>2. DOMAIN l = 1..n /\ DOMAIN (k \o <<g>>) = 1..n
  BY <1>1
<1>3. ASSUME NEW p \in 1..n PROVE l[p] = (k \o <<g>>)[p]
  <2>1. CASE p \in 1..Len(j)
    BY <1>1, <2>1
  <2>2. CASE p = Len(j) + 1
    BY <1>1, <2>2
  <2>3. CASE p = Len(j) + 2
    BY <1>1, <2>3
  <2> QED BY <1>1, <2>1, <2>2, <2>3
<1>4. l = [p \in DOMAIN l |-> l[p]] /\ k \o <<g>> = [p \in DOMAIN (k \o <<g>>) |-> (k \o <<g>>)[p]]
  OBVIOUS
<1> QED
  BY <1>1, <1>2, <1>3, <1>4

\* Positions in a journal, and in the reasons, are in order.
LEMMA SealedOrdered ==
    ASSUME NEW j \in Seq(Fact), NEW P \in SUBSET (DOMAIN j)
    PROVE  Ordered(P)
<1>1. Len(j) \in Nat /\ DOMAIN j = 1..Len(j)
  OBVIOUS
<1> QED
  BY <1>1, PositionsOrdered

LEMMA ReasonsOrdered ==
    ASSUME NEW r \in Seq(Reason), NEW P \in SUBSET (DOMAIN r)
    PROVE  Ordered(P)
<1>1. Len(r) \in Nat /\ DOMAIN r = 1..Len(r)
  OBVIOUS
<1> QED
  BY <1>1, PositionsOrdered

-----------------------------------------------------------------------------
Stored == table \in Table /\ journal \in Seq(Fact)

\* Both what was sealed and what was given as a reason stay as they were.
NothingIsTakenBack == Keeps(journal, journal') /\ Keeps(table.reasons, table'.reasons)

LEMMA AnswersType ==
    ASSUME table \in Table, NEW i \in Items
    PROVE  /\ AnswersOf(i) \in Seq(Response)
           /\ Len(AnswersOf(i)) \in Nat
           /\ DOMAIN AnswersOf(i) = 1..Len(AnswersOf(i))
           /\ \A k \in DOMAIN AnswersOf(i) : AnswersOf(i)[k] \in Response
<1>1. table.items[i] \in Intervention \cup {None}
  BY TableFields
<1>2. AnswersOf(i) \in Seq(Response)
  BY <1>1 DEF AnswersOf, Intervention
<1> QED
  BY <1>2

\* The sets counted for an item are in order, and within what they index.
LEMMA CountedInOrder ==
    ASSUME Stored, NEW i
    PROVE  /\ Ordered(SealedOn("InterventionResponded", i)) /\ Ordered(Seen(i))
           /\ SealedOn("InterventionResponded", i) \subseteq DOMAIN journal
           /\ Seen(i) \subseteq DOMAIN table.reasons
<1>1. /\ SealedOn("InterventionResponded", i) \subseteq DOMAIN journal
      /\ Seen(i) \subseteq DOMAIN table.reasons
  BY DEF SealedOn, Sealed, Seen
<1>2. table.reasons \in Seq(Reason) /\ journal \in Seq(Fact)
  BY TableFields DEF Stored
<1> QED
  BY <1>1, <1>2, SealedOrdered, ReasonsOrdered

\* Nothing about the item changed.
LEMMA AnswersStand ==
    ASSUME Stored, NothingIsTakenBack, NEW i \in Items, AnswersAccountedFor(i),
           AnswersOf(i)' = AnswersOf(i), Seen(i)' = Seen(i),
           SealedOn("InterventionResponded", i)' = SealedOn("InterventionResponded", i),
           SealedOn("EvidenceCollected", i)' = SealedOn("EvidenceCollected", i)
    PROVE  AnswersAccountedFor(i)'
<1> DEFINE A == AnswersOf(i)
           P == SealedOn("InterventionResponded", i)
           E == SealedOn("EvidenceCollected", i)
           S == Seen(i)
<1>1. /\ Cardinality(P) = Len(A) /\ Cardinality(S) = Len(A)
      /\ \A k \in DOMAIN A : AnswerAttested(i, k)
  BY AnswersParts DEF AnswersCounted
<1>2. Ordered(P) /\ Ordered(S) /\ P \subseteq DOMAIN journal /\ S \subseteq DOMAIN table.reasons
  BY CountedInOrder
<1>3. Len(A) \in Nat /\ DOMAIN A = 1..Len(A)
  BY AnswersType DEF Stored
<1>4. E \subseteq DOMAIN journal
  BY DEF SealedOn, Sealed
<1>5. ASSUME NEW k \in DOMAIN A PROVE AnswerAttested(i, k)'
  <2>1. Nth(P, k) \in P /\ Nth(S, k) \in S
    BY <1>1, <1>2, <1>3, NthInOrdered
  <2>2. /\ journal'[Nth(P, k)] = journal[Nth(P, k)]
        /\ table'.reasons[Nth(S, k)] = table.reasons[Nth(S, k)]
    BY <1>2, <2>1 DEF NothingIsTakenBack, Keeps
  <2>3. \A p \in E : journal'[p] = journal[p]
    BY <1>4 DEF NothingIsTakenBack, Keeps
  <2>4. AnswerAttested(i, k)
    BY <1>1
  <2> QED BY <2>2, <2>3, <2>4 DEF AnswerAttested
<1>6. AnswersCounted(i)'
  BY <1>1, <1>5 DEF AnswersCounted
<1> QED
  BY <1>6, AnswersParts

\* One more answer, sealed last and recorded last, by a seat that had not
\* answered; a source is sealed with it exactly when it is that source's pack.
LEMMA AnswersGrow ==
    ASSUME Stored, Stored', NothingIsTakenBack, NEW i \in Items, AnswersAccountedFor(i),
           EvidenceOwned(i),
           NEW said \in Response, AnswersOf(i)' = Append(AnswersOf(i), said),
           \A k \in DOMAIN AnswersOf(i) : AnswersOf(i)[k].by # said.by,
           NEW m \in Nat, \A p \in DOMAIN journal : p < m, journal'[m].by = said.by,
           SealedOn("InterventionResponded", i)' = SealedOn("InterventionResponded", i) \cup {m},
           \A by \in Seats, s \in Sources :
              Evidence(i, by, s)' <=> Evidence(i, by, s) \/ (by = said.by /\ s = said.pack),
           NEW n \in Nat, \A k \in DOMAIN table.reasons : k < n,
           table'.reasons[n].from = Ref("Answer", i, Len(AnswersOf(i))),
           Seen(i)' = Seen(i) \cup {n}
    PROVE  AnswersAccountedFor(i)'
<1> DEFINE A == AnswersOf(i)
           B == Append(A, said)
           P == SealedOn("InterventionResponded", i)
           S == Seen(i)
<1>1. /\ Cardinality(P) = Len(A) /\ Cardinality(S) = Len(A)
      /\ \A k \in DOMAIN A : AnswerAttested(i, k)
  BY AnswersParts DEF AnswersCounted
<1>2. Ordered(P) /\ Ordered(S) /\ P \subseteq DOMAIN journal /\ S \subseteq DOMAIN table.reasons
  BY CountedInOrder
<1>3. A \in Seq(Response) /\ Len(A) \in Nat /\ DOMAIN A = 1..Len(A)
      /\ \A k \in DOMAIN A : A[k] \in Response
  BY AnswersType DEF Stored
<1>4. /\ Len(B) = Len(A) + 1 /\ DOMAIN B = 1..(Len(A) + 1) /\ B[Len(A) + 1] = said
      /\ \A k \in 1..Len(A) : B[k] = A[k]
  BY <1>3, AppendFacts
<1>5. /\ Cardinality(P \cup {m}) = Len(A) + 1 /\ Nth(P \cup {m}, Len(A) + 1) = m
      /\ \A k \in 1..Len(A) : Nth(P \cup {m}, k) = Nth(P, k) /\ Nth(P, k) \in P
  <2>1. \A p \in P : p < m
    BY <1>2
  <2> HIDE DEF P, A
  <2>2. /\ Cardinality(P \cup {m}) = Cardinality(P) + 1
        /\ Nth(P \cup {m}, Cardinality(P) + 1) = m
        /\ \A k \in 1..Cardinality(P) : Nth(P \cup {m}, k) = Nth(P, k) /\ Nth(P, k) \in P
    BY <1>2, <2>1, GrownOrder
  <2> QED BY <1>1, <2>2
<1>6. /\ Cardinality(S \cup {n}) = Len(A) + 1 /\ Nth(S \cup {n}, Len(A) + 1) = n
      /\ \A k \in 1..Len(A) : Nth(S \cup {n}, k) = Nth(S, k) /\ Nth(S, k) \in S
  <2>1. \A p \in S : p < n
    BY <1>2
  <2> HIDE DEF S, A
  <2>2. /\ Cardinality(S \cup {n}) = Cardinality(S) + 1
        /\ Nth(S \cup {n}, Cardinality(S) + 1) = n
        /\ \A k \in 1..Cardinality(S) : Nth(S \cup {n}, k) = Nth(S, k) /\ Nth(S, k) \in S
    BY <1>2, <2>1, GrownOrder
  <2> QED BY <1>1, <2>2
<1> HIDE DEF A, B, P, S
<1>7. AnswersOf(i)' = B
  BY DEF A, B
<1>8. ASSUME NEW k \in 1..Len(A) PROVE AnswerAttested(i, k)'
  <2>1. /\ journal'[Nth(P, k)] = journal[Nth(P, k)]
        /\ table'.reasons[Nth(S, k)] = table.reasons[Nth(S, k)]
    BY <1>2, <1>5, <1>6 DEF NothingIsTakenBack, Keeps
  <2>2. /\ journal[Nth(P, k)].by = A[k].by
        /\ \A l \in DOMAIN A : A[l].by = A[k].by => l = k
        /\ table.reasons[Nth(S, k)].from = Ref("Answer", i, k - 1)
        /\ \A s \in Sources : A[k].pack = s <=>
             \E p \in SealedOn("EvidenceCollected", i) :
                journal[p].by = A[k].by /\ journal[p].source = s
    BY <1>1, <1>3 DEF AnswerAttested, A, P, S
  <2>3. B[k] = A[k] /\ A[k].by \in Seats /\ A[k].by # said.by
    BY <1>3, <1>4 DEF Response, A
  <2>4. ASSUME NEW by, NEW s \in Sources, by = B[k].by
        PROVE  B[k].pack = s <=> Evidence(i, by, s)'
    <3>1. by \in Seats /\ by # said.by /\ (B[k].pack = s <=> Evidence(i, by, s))
      BY <2>2, <2>3, <2>4 DEF Evidence
    <3> QED BY <3>1
  <2>5. journal'[Nth(SealedOn("InterventionResponded", i)', k)].by = B[k].by
    BY <1>5, <2>1, <2>2, <2>3 DEF P
  <2>6. table'.reasons[Nth(Seen(i)', k)].from = Ref("Answer", i, k - 1)
    BY <1>6, <2>1, <2>2 DEF S
  <2>7. ASSUME NEW l \in DOMAIN B, B[l].by = B[k].by PROVE l = k
    <3>1. l # Len(A) + 1
      BY <1>4, <2>3, <2>7
    <3>2. l \in 1..(Len(A) + 1)
      BY <1>4, <2>7
    <3>3. l \in 1..Len(A)
      BY <1>3, <3>1, <3>2, SMTT(30)
    <3> QED BY <1>3, <1>4, <2>2, <2>3, <2>7, <3>3
  <2>8. \A s \in Sources : B[k].pack = s <=>
          \E p \in SealedOn("EvidenceCollected", i)' :
             journal'[p].by = B[k].by /\ journal'[p].source = s
    BY <2>4 DEF Evidence
  <2> QED BY <1>7, <2>5, <2>6, <2>7, <2>8 DEF AnswerAttested
<1>9. ASSUME NEW k, k = Len(A) + 1 PROVE AnswerAttested(i, k)'
  <2>1. ASSUME NEW s \in Sources PROVE ~Evidence(i, said.by, s)
    <3>1. SUFFICES ASSUME Evidence(i, said.by, s) PROVE FALSE
      OBVIOUS
    <3>2. PICK p \in SealedOn("EvidenceCollected", i) : journal[p].by = said.by
      BY <3>1 DEF Evidence
    <3> QED BY <3>2 DEF EvidenceOwned
  <2>2. ASSUME NEW by, NEW s \in Sources, by = B[k].by
        PROVE  B[k].pack = s <=> Evidence(i, by, s)'
    <3>1. by = said.by /\ by \in Seats /\ B[k] = said
      BY <1>4, <1>9, <2>2 DEF Response
    <3> QED BY <2>1, <3>1
  <2>3. journal'[Nth(SealedOn("InterventionResponded", i)', k)].by = B[k].by
    BY <1>4, <1>5, <1>9 DEF P
  <2>4. table'.reasons[Nth(Seen(i)', k)].from = Ref("Answer", i, k - 1)
    <3>1. k - 1 = Len(A)
      BY <1>3, <1>9
    <3> QED BY <1>6, <1>9, <3>1 DEF S, A
  <2>5. ASSUME NEW l \in DOMAIN B, B[l].by = B[k].by PROVE l = k
    <3>1. SUFFICES ASSUME l \in 1..Len(A) PROVE FALSE
      BY <1>3, <1>4, <1>9
    <3>2. B[l] = A[l] /\ B[k] = said /\ l \in DOMAIN A
      BY <1>3, <1>4, <1>9, <3>1
    <3> QED BY <2>5, <3>2 DEF A
  <2>6. \A s \in Sources : B[k].pack = s <=>
          \E p \in SealedOn("EvidenceCollected", i)' :
             journal'[p].by = B[k].by /\ journal'[p].source = s
    BY <2>2 DEF Evidence
  <2> QED BY <1>7, <2>3, <2>4, <2>5, <2>6 DEF AnswerAttested
<1>10. \A k \in DOMAIN B : AnswerAttested(i, k)'
  BY <1>3, <1>4, <1>8, <1>9
<1>11. /\ Cardinality(SealedOn("InterventionResponded", i)') = Len(B)
       /\ Cardinality(Seen(i)') = Len(B)
  BY <1>4, <1>5, <1>6 DEF P, S
<1>12. AnswersCounted(i)'
  BY <1>7, <1>10, <1>11 DEF AnswersCounted
<1> QED
  BY <1>12, AnswersParts

\* An item whose record and facts are as they were.
LEMMA ItemStands ==
    ASSUME Stored, NothingIsTakenBack, NEW i \in Items, ItemAgrees(i),
           table'.items[i] = table.items[i], Seen(i)' = Seen(i),
           \A type \in {"InterventionRequested", "InterventionResponded",
                        "InterventionClosed", "EvidenceCollected"} :
              SealedOn(type, i)' = SealedOn(type, i)
    PROVE  ItemAgrees(i)'
<1>1. AnswersOf(i)' = AnswersOf(i)
  BY DEF AnswersOf
<1>2. /\ SealedOn("InterventionRequested", i)' = SealedOn("InterventionRequested", i)
      /\ SealedOn("InterventionResponded", i)' = SealedOn("InterventionResponded", i)
      /\ SealedOn("InterventionClosed", i)' = SealedOn("InterventionClosed", i)
      /\ SealedOn("EvidenceCollected", i)' = SealedOn("EvidenceCollected", i)
  OBVIOUS
<1>3. \A type : \A p \in SealedOn(type, i) : journal'[p] = journal[p]
  BY DEF SealedOn, Sealed, NothingIsTakenBack, Keeps
<1>4. AnswersAccountedFor(i)'
  BY <1>1, <1>2, AnswersStand DEF ItemAgrees
<1>5. ItemAccountedFor(i)'
  BY <1>2, <1>3 DEF ItemAgrees, ItemAccountedFor
<1>6. Timely(i)'
  BY <1>2 DEF ItemAgrees, Timely
<1>7. EvidenceOwned(i)'
  BY <1>1, <1>2, <1>3 DEF ItemAgrees, EvidenceOwned
<1> QED
  BY <1>4, <1>5, <1>6, <1>7 DEF ItemAgrees

\* Reasons added by the engine, or none.
LEMMA ReasonsStand ==
    ASSUME Stored, NothingIsTakenBack, ReasonsAccountedFor,
           Sealed("ReasonAsserted")' = Sealed("ReasonAsserted"),
           \A k \in DOMAIN table'.reasons :
              k \in DOMAIN table.reasons \/ table'.reasons[k].by = None
    PROVE  ReasonsAccountedFor'
<1> DEFINE F == Sealed("ReasonAsserted")
<1>1. /\ \A p \in F : journal'[p] = journal[p]
      /\ \A k \in DOMAIN table.reasons :
           k \in DOMAIN table'.reasons /\ table'.reasons[k] = table.reasons[k]
  BY DEF Sealed, NothingIsTakenBack, Keeps
<1>2. \A k : GivenAs(k)' = GivenAs(k)
  BY <1>1 DEF GivenAs
<1>3. ASSUME NEW p \in F
      PROVE  /\ journal'[p].ordinal \in DOMAIN table'.reasons
             /\ table'.reasons[journal'[p].ordinal].by = journal'[p].by
  BY <1>1 DEF ReasonsAccountedFor
<1>4. ASSUME NEW k \in DOMAIN table'.reasons, table'.reasons[k].by # None
      PROVE  Cardinality(GivenAs(k)') = 1
  <2>1. k \in DOMAIN table.reasons /\ table.reasons[k].by # None
    BY <1>1, <1>4
  <2>2. Cardinality(GivenAs(k)) = 1
    BY <2>1 DEF ReasonsAccountedFor, GivenAs
  <2> QED BY <1>2, <2>2
<1> QED
  BY <1>3, <1>4 DEF ReasonsAccountedFor, GivenAs

\* Seats nobody was put in.
LEMMA SeatsStand ==
    ASSUME Stored, NothingIsTakenBack, SeatsAccountedFor, table'.seated = table.seated,
           Sealed("ParticipantsBound")' = Sealed("ParticipantsBound")
    PROVE  SeatsAccountedFor'
<1>1. \A p \in Sealed("ParticipantsBound") : journal'[p] = journal[p]
  BY DEF Sealed, NothingIsTakenBack, Keeps
<1>2. ASSUME NEW s \in Seats
      PROVE  table'.seated[s] =
               IF Named(s)' = {} THEN None
               ELSE journal'[Nth(Named(s)', Cardinality(Named(s)'))].seating[s]
  <2>1. Named(s)' = Named(s)
    BY <1>1 DEF Named
  <2>2. CASE Named(s) = {}
    BY <2>1, <2>2 DEF SeatsAccountedFor, Named
  <2>3. CASE Named(s) # {}
    <3> DEFINE N == Named(s)
    <3>1. N \subseteq DOMAIN journal /\ N \subseteq Sealed("ParticipantsBound")
      BY DEF Named, Sealed
    <3>2. Ordered(N) /\ IsFiniteSet(N)
      BY <3>1, SealedOrdered DEF Stored, Ordered
    <3>3. Cardinality(N) \in 1..Cardinality(N)
      BY <2>3, <3>2, FS_CardinalityType, FS_EmptySet
    <3>4. Nth(N, Cardinality(N)) \in N
      BY <3>2, <3>3, NthInOrdered
    <3>5. table.seated[s] = journal[Nth(N, Cardinality(N))].seating[s]
      BY <2>3 DEF SeatsAccountedFor, Named
    <3> HIDE DEF N
    <3>6. journal'[Nth(N, Cardinality(N))] = journal[Nth(N, Cardinality(N))]
      BY <1>1, <3>1, <3>4
    <3>7. Named(s)' = N /\ N # {}
      BY <2>1, <2>3 DEF N
    <3> QED BY <3>5, <3>6, <3>7
  <2> QED BY <2>2, <2>3
<1> QED
  BY <1>2 DEF SeatsAccountedFor, Named

-----------------------------------------------------------------------------
(***************************************************************************)
(* A call that lands, seen from the table and the journal; then the        *)
(* invariant through each kind of call.                                    *)
(***************************************************************************)
Lands(cl) ==
    /\ cl \in Calls /\ cl # NoCall
    /\ Allowed(table, cl)
    /\ cl.act = "Collect" => cl.pack = cl.source
    /\ table \in Table /\ table' \in Table
    /\ journal \in Seq(Fact) /\ journal' \in Seq(Fact)
    /\ table' = After(table, cl)
    /\ journal' = journal \o FactsOf(table', cl)

LEMMA CommitLands ==
    ASSUME Current, NEW c \in Callers, Commit(c)
    PROVE  \E cl \in Calls : Lands(cl)
<1>1. call[c] \in Calls /\ Lands(call[c])
  BY CommitEffect DEF Lands
<1> QED
  BY <1>1

ItemTypes ==
    {"InterventionRequested", "InterventionResponded", "InterventionClosed", "EvidenceCollected"}

\* What one sealed fact does to the sets the properties are about.
LEMMA SealsOne ==
    ASSUME journal \in Seq(Fact), NEW f \in Fact, journal' = journal \o <<f>>
    PROVE  LET m == Len(journal) + 1 IN
           /\ Keeps(journal, journal') /\ m \in Nat
           /\ DOMAIN journal' = DOMAIN journal \cup {m} /\ journal'[m] = f
           /\ \A p \in DOMAIN journal : p \in Nat /\ p < m
           /\ \A type : Sealed(type)' = IF f.type = type THEN Sealed(type) \cup {m}
                                                         ELSE Sealed(type)
           /\ \A type, i : SealedOn(type, i)' =
                IF f.type = type /\ f.item = i THEN SealedOn(type, i) \cup {m}
                                               ELSE SealedOn(type, i)
<1> DEFINE m == Len(journal) + 1
<1> DEFINE l == journal \o <<f>>
<1>0. /\ Keeps(journal, l) /\ m \in Nat
      /\ DOMAIN l = DOMAIN journal \cup {m} /\ l[m] = f
      /\ \A p \in DOMAIN journal : p \in Nat /\ p < m
      /\ \A type : Of(l, type) = IF f.type = type THEN Of(journal, type) \cup {m}
                                                  ELSE Of(journal, type)
      /\ \A type, i : OfItem(l, type, i) =
           IF f.type = type /\ f.item = i THEN OfItem(journal, type, i) \cup {m}
                                          ELSE OfItem(journal, type, i)
  BY OneFact, Zenon
<1> HIDE DEF l
<1>a. journal' = l
  BY DEF l
<1>1. /\ Keeps(journal, journal') /\ m \in Nat
      /\ DOMAIN journal' = DOMAIN journal \cup {m} /\ journal'[m] = f
      /\ \A p \in DOMAIN journal : p \in Nat /\ p < m
      /\ \A type : Of(journal', type) = IF f.type = type THEN Of(journal, type) \cup {m}
                                                  ELSE Of(journal, type)
      /\ \A type, i : OfItem(journal', type, i) =
           IF f.type = type /\ f.item = i THEN OfItem(journal, type, i) \cup {m}
                                          ELSE OfItem(journal, type, i)
  BY <1>0, <1>a
<1> HIDE DEF m
<1>2. \A type : Sealed(type)' = IF f.type = type THEN Sealed(type) \cup {m} ELSE Sealed(type)
  BY <1>1, SealedIsOf
<1>3. \A type, i : SealedOn(type, i)' =
        IF f.type = type /\ f.item = i THEN SealedOn(type, i) \cup {m} ELSE SealedOn(type, i)
  BY <1>1, SealedIsOf
<1> QED
  BY <1>1, <1>2, <1>3 DEF m

\* A list of reasons that is the same, or one longer.
LEMMA ReasonsKept ==
    ASSUME table \in Table, NEW x \in Reason, table'.reasons = Append(table.reasons, x)
    PROVE  LET n == Len(table.reasons) + 1 IN
           /\ Keeps(table.reasons, table'.reasons)
           /\ n \in Nat /\ \A k \in DOMAIN table.reasons : k \in Nat /\ k < n
           /\ DOMAIN table'.reasons = DOMAIN table.reasons \cup {n} /\ table'.reasons[n] = x
           /\ Len(table'.reasons) = n
           /\ \A i : Seen(i)' = IF x.claim = "TheEngine" /\ x.to = Ref("Item", i, 0)
                                THEN Seen(i) \cup {n} ELSE Seen(i)
<1> DEFINE r == table.reasons
           n == Len(r) + 1
<1>1. r \in Seq(Reason)
  BY TableFields
<1> HIDE DEF r
<1>2. /\ Len(r) \in Nat /\ DOMAIN r = 1..Len(r) /\ DOMAIN Append(r, x) = 1..n
      /\ Append(r, x)[n] = x /\ \A k \in 1..Len(r) : Append(r, x)[k] = r[k]
      /\ Len(Append(r, x)) = n
  BY <1>1, AppendFacts
<1>3. 1..n = 1..Len(r) \cup {n} /\ n \in Nat /\ \A k \in 1..Len(r) : k \in Nat /\ k < n
  BY <1>2
<1>4. table'.reasons = Append(r, x)
  BY DEF r
<1> HIDE DEF n
<1>5. /\ DOMAIN table'.reasons = DOMAIN r \cup {n} /\ table'.reasons[n] = x
      /\ \A k \in DOMAIN r : table'.reasons[k] = r[k]
      /\ Len(table'.reasons) = n
  BY <1>2, <1>3, <1>4
<1>6. ASSUME NEW i
      PROVE  Seen(i)' = IF x.claim = "TheEngine" /\ x.to = Ref("Item", i, 0)
                        THEN Seen(i) \cup {n} ELSE Seen(i)
  BY <1>5 DEF Seen, r
<1>7. Keeps(table.reasons, table'.reasons)
  BY <1>5 DEF Keeps, r
<1> QED
  BY <1>2, <1>3, <1>5, <1>6, <1>7 DEF n, r

\* The reasons as they were.
LEMMA ReasonsSame ==
    ASSUME table'.reasons = table.reasons
    PROVE  /\ Keeps(table.reasons, table'.reasons)
           /\ \A i : Seen(i)' = Seen(i)
           /\ \A k \in DOMAIN table'.reasons : k \in DOMAIN table.reasons
  BY DEF Keeps, Seen

\* A session that goes on and seals something other than an ending.
LEMMA EndingStands ==
    ASSUME EndingSealed, Keeps(journal, journal'),
           NEW m, DOMAIN journal' = DOMAIN journal \cup {m},
           ~Finished(table) \/ journal'[m].type = "ReasonAsserted",
           Sealed("CeremonyCompleted")' = Sealed("CeremonyCompleted"),
           table'.moves = table.moves
    PROVE  EndingSealed'
<1>1. ASSUME NEW p \in Sealed("CeremonyCompleted"), NEW q \in DOMAIN journal', p < q
      PROVE  journal'[q].type = "ReasonAsserted"
  <2>1. Finished(table)
    BY DEF EndingSealed
  <2>2. CASE q = m
    BY <2>1, <2>2
  <2>3. CASE q \in DOMAIN journal
    BY <1>1, <2>3 DEF EndingSealed, Keeps
  <2> QED BY <2>2, <2>3
<1> QED
  BY <1>1 DEF EndingSealed, Finished

\* What the other conjuncts need of a step that seals facts on an item only.
LEMMA RestStands ==
    ASSUME Agreement, Stored, NothingIsTakenBack,
           \A k \in DOMAIN table'.reasons :
              k \in DOMAIN table.reasons \/ table'.reasons[k].by = None,
           table'.seated = table.seated,
           \A type \in {"ReasonAsserted", "ParticipantsBound"} : Sealed(type)' = Sealed(type)
    PROVE  ReasonsAccountedFor' /\ SeatsAccountedFor'
<1>1. /\ Sealed("ReasonAsserted")' = Sealed("ReasonAsserted")
      /\ Sealed("ParticipantsBound")' = Sealed("ParticipantsBound")
  OBVIOUS
<1> QED
  BY <1>1, ReasonsStand, SeatsStand DEF Agreement

\* Asking.
LEMMA RequestAgrees ==
    ASSUME Agreement, NEW cl, Lands(cl), cl.act = "Request"
    PROVE  Agreement'
<1> DEFINE f == ItemFact("InterventionRequested", cl.item, cl.by)
           m == Len(journal) + 1
<1>1. /\ cl \in Calls /\ cl.item \in Items /\ cl.by \in Seats /\ Stored
      /\ table.items[cl.item] = None /\ ~Finished(table)
  BY CallTypes DEF Lands, Allowed, CanRequest, Stored
<1>2. /\ table'.items = [table.items EXCEPT ![cl.item] =
                            [by |-> cl.by, target |-> cl.target, from |-> cl.from,
                             answers |-> <<>>, open |-> TRUE]]
      /\ table'.items[cl.item] # None
      /\ table'.reasons = table.reasons /\ table'.seated = table.seated
      /\ table'.moves = table.moves
  BY <1>1, RequestEffect DEF Lands
<1>3. /\ f \in Fact /\ f.type = "InterventionRequested" /\ f.item = cl.item /\ f.by = cl.by
      /\ journal' = journal \o <<f>>
  BY <1>1 DEF Lands, FactsOf, ItemFact, Fact
<1> HIDE DEF f
<1>4. /\ Keeps(journal, journal') /\ m \in Nat
      /\ DOMAIN journal' = DOMAIN journal \cup {m} /\ journal'[m] = f
      /\ \A type : Sealed(type)' = IF f.type = type THEN Sealed(type) \cup {m}
                                                    ELSE Sealed(type)
      /\ \A type, i : SealedOn(type, i)' =
           IF f.type = type /\ f.item = i THEN SealedOn(type, i) \cup {m}
                                          ELSE SealedOn(type, i)
  BY <1>1, <1>3, SealsOne DEF Stored
<1> HIDE DEF m
<1>5. /\ NothingIsTakenBack /\ \A i : Seen(i)' = Seen(i)
      /\ \A k \in DOMAIN table'.reasons : k \in DOMAIN table.reasons
  BY <1>2, <1>4, ReasonsSame DEF NothingIsTakenBack
<1>6. ASSUME NEW i \in Items, i # cl.item PROVE ItemAgrees(i)'
  <2>1. table'.items[i] = table.items[i]
    BY <1>1, <1>2, <1>6, TableFields DEF Stored
  <2>2. \A type \in ItemTypes : SealedOn(type, i)' = SealedOn(type, i)
    BY <1>3, <1>4, <1>6
  <2> QED BY <1>1, <1>5, <2>1, <2>2, ItemStands DEF Agreement, ItemTypes
<1>7. ItemAgrees(cl.item)'
  <2> DEFINE i == cl.item
  <2>1. table'.items[i].by = cl.by /\ table'.items[i].open /\ table'.items[i].answers = <<>>
    BY <1>1, <1>2, TableFields DEF Stored
  <2>2. AnswersOf(i)' = AnswersOf(i)
    BY <1>1, <1>2, <2>1 DEF AnswersOf
  <2>3. /\ SealedOn("InterventionRequested", i)' = SealedOn("InterventionRequested", i) \cup {m}
        /\ SealedOn("InterventionResponded", i)' = SealedOn("InterventionResponded", i)
        /\ SealedOn("InterventionClosed", i)' = SealedOn("InterventionClosed", i)
        /\ SealedOn("EvidenceCollected", i)' = SealedOn("EvidenceCollected", i)
    BY <1>3, <1>4
  <2>4. ItemAgrees(i)
    BY <1>1 DEF Agreement
  <2>5. AnswersAccountedFor(i)'
    BY <1>1, <1>5, <2>2, <2>3, <2>4, AnswersStand DEF ItemAgrees
  <2>6. SealedOn("InterventionRequested", i) = {} /\ SealedOn("InterventionClosed", i) = {}
    BY <1>1, <2>4 DEF ItemAgrees, ItemAccountedFor
  <2>7. ItemAccountedFor(i)'
    <3>1. Cardinality({m}) = 1 /\ Cardinality({}) = 0
      BY FS_Singleton, FS_EmptySet
    <3>2. /\ SealedOn("InterventionRequested", i)' = {m}
          /\ SealedOn("InterventionClosed", i)' = {}
      BY <2>3, <2>6
    <3>3. journal'[m].by = table'.items[i].by /\ table'.items[i] # None
      BY <1>2, <1>3, <1>4, <2>1, Zenon
    <3> HIDE DEF i
    <3> QED BY <2>1, <3>1, <3>2, <3>3 DEF ItemAccountedFor
  <2>8. Timely(i)'
    BY <2>3, <2>4 DEF ItemAgrees, Timely
  <2>9. EvidenceOwned(i)'
    <3>1. \A p \in SealedOn("EvidenceCollected", i) : journal'[p] = journal[p]
      BY <1>4 DEF SealedOn, Sealed, Keeps
    <3> QED BY <2>2, <2>3, <2>4, <3>1 DEF ItemAgrees, EvidenceOwned
  <2> QED BY <2>5, <2>7, <2>8, <2>9 DEF ItemAgrees
<1>8. ReasonsAccountedFor' /\ SeatsAccountedFor'
  <2>1. \A type \in {"ReasonAsserted", "ParticipantsBound"} : Sealed(type)' = Sealed(type)
    BY <1>3, <1>4
  <2> QED BY <1>1, <1>2, <1>5, <2>1, RestStands
<1>9. EndingSealed'
  <2>1. Sealed("CeremonyCompleted")' = Sealed("CeremonyCompleted")
    BY <1>3, <1>4
  <2> QED BY <1>1, <1>2, <1>4, <2>1, EndingStands DEF Agreement
<1> QED
  BY <1>6, <1>7, <1>8, <1>9 DEF Agreement

\* Closing.
LEMMA CloseAgrees ==
    ASSUME Agreement, NEW cl, Lands(cl), cl.act = "Close"
    PROVE  Agreement'
<1> DEFINE f == ItemFact("InterventionClosed", cl.item, cl.by)
           m == Len(journal) + 1
<1>1. /\ cl \in Calls /\ cl.item \in Items /\ cl.by \in Seats /\ Stored
      /\ table.items[cl.item] # None /\ ~Finished(table)
      /\ table.items[cl.item].open /\ cl.by = table.items[cl.item].by
  BY CallTypes DEF Lands, Allowed, CanClose, Stored
<1>2. /\ table'.items = [table.items EXCEPT ![cl.item].open = FALSE]
      /\ table'.items[cl.item] # None
      /\ table'.reasons = table.reasons /\ table'.seated = table.seated
      /\ table'.moves = table.moves
  BY <1>1, CloseEffect DEF Lands
<1>3. /\ f \in Fact /\ f.type = "InterventionClosed" /\ f.item = cl.item /\ f.by = cl.by
      /\ journal' = journal \o <<f>>
  BY <1>1 DEF Lands, FactsOf, ItemFact, Fact
<1> HIDE DEF f
<1>4. /\ Keeps(journal, journal') /\ m \in Nat
      /\ DOMAIN journal' = DOMAIN journal \cup {m} /\ journal'[m] = f
      /\ \A p \in DOMAIN journal : p \in Nat /\ p < m
      /\ \A type : Sealed(type)' = IF f.type = type THEN Sealed(type) \cup {m}
                                                    ELSE Sealed(type)
      /\ \A type, i : SealedOn(type, i)' =
           IF f.type = type /\ f.item = i THEN SealedOn(type, i) \cup {m}
                                          ELSE SealedOn(type, i)
  BY <1>1, <1>3, SealsOne DEF Stored
<1> HIDE DEF m
<1>5. /\ NothingIsTakenBack /\ \A i : Seen(i)' = Seen(i)
      /\ \A k \in DOMAIN table'.reasons : k \in DOMAIN table.reasons
  BY <1>2, <1>4, ReasonsSame DEF NothingIsTakenBack
<1>6. ASSUME NEW i \in Items, i # cl.item PROVE ItemAgrees(i)'
  <2>1. table'.items[i] = table.items[i]
    BY <1>1, <1>2, <1>6, TableFields DEF Stored
  <2>2. \A type \in ItemTypes : SealedOn(type, i)' = SealedOn(type, i)
    BY <1>3, <1>4, <1>6
  <2> QED BY <1>1, <1>5, <2>1, <2>2, ItemStands DEF Agreement, ItemTypes
<1>7. ItemAgrees(cl.item)'
  <2> DEFINE i == cl.item
  <2>1. /\ table'.items[i].by = table.items[i].by /\ ~table'.items[i].open
        /\ table'.items[i].answers = table.items[i].answers
    BY <1>1, <1>2, TableFields DEF Stored, Intervention
  <2>2. AnswersOf(i)' = AnswersOf(i)
    BY <1>1, <1>2, <2>1 DEF AnswersOf
  <2>3. /\ SealedOn("InterventionRequested", i)' = SealedOn("InterventionRequested", i)
        /\ SealedOn("InterventionResponded", i)' = SealedOn("InterventionResponded", i)
        /\ SealedOn("InterventionClosed", i)' = SealedOn("InterventionClosed", i) \cup {m}
        /\ SealedOn("EvidenceCollected", i)' = SealedOn("EvidenceCollected", i)
    BY <1>3, <1>4
  <2>4. ItemAgrees(i)
    BY <1>1 DEF Agreement
  <2>5. AnswersAccountedFor(i)'
    BY <1>1, <1>5, <2>2, <2>3, <2>4, AnswersStand DEF ItemAgrees
  <2>6. SealedOn("InterventionClosed", i) = {}
    <3>1. Cardinality(SealedOn("InterventionClosed", i)) = 0
      BY <1>1, <2>4 DEF ItemAgrees, ItemAccountedFor
    <3>2. SealedOn("InterventionClosed", i) \subseteq DOMAIN journal
      BY DEF SealedOn, Sealed
    <3>3. IsFiniteSet(SealedOn("InterventionClosed", i))
      BY <1>1, <3>2, SealedOrdered DEF Stored, Ordered
    <3> QED BY <3>1, <3>3, FS_EmptySet
  <2>7. \A type : \A p \in SealedOn(type, i) : journal'[p] = journal[p] /\ p < m
    BY <1>4 DEF SealedOn, Sealed, Keeps
  <2>8. ItemAccountedFor(i)'
    <3>1. Cardinality({m}) = 1
      BY FS_Singleton
    <3>2. SealedOn("InterventionClosed", i)' = {m}
      BY <2>3, <2>6
    <3>3. /\ Cardinality(SealedOn("InterventionRequested", i)) = 1
          /\ \A p \in SealedOn("InterventionRequested", i) : journal[p].by = table.items[i].by
      BY <1>1, <2>4 DEF ItemAgrees, ItemAccountedFor
    <3>4. journal'[m].by = table.items[i].by
      BY <1>1, <1>3, <1>4
    <3>5. \A p \in SealedOn("InterventionRequested", i) \cup {m} :
            journal'[p].by = table'.items[i].by
      BY <2>1, <2>7, <3>3, <3>4
    <3> HIDE DEF i
    <3> QED BY <1>2, <2>1, <2>3, <3>1, <3>2, <3>3, <3>5 DEF ItemAccountedFor, i
  <2>9. Timely(i)'
    BY <2>3, <2>4, <2>7 DEF ItemAgrees, Timely
  <2>10. EvidenceOwned(i)'
    BY <2>2, <2>3, <2>4, <2>7 DEF ItemAgrees, EvidenceOwned
  <2> QED BY <2>5, <2>8, <2>9, <2>10 DEF ItemAgrees
<1>8. ReasonsAccountedFor' /\ SeatsAccountedFor'
  <2>1. \A type \in {"ReasonAsserted", "ParticipantsBound"} : Sealed(type)' = Sealed(type)
    BY <1>3, <1>4
  <2> QED BY <1>1, <1>2, <1>5, <2>1, RestStands
<1>9. EndingSealed'
  <2>1. Sealed("CeremonyCompleted")' = Sealed("CeremonyCompleted")
    BY <1>3, <1>4
  <2> QED BY <1>1, <1>2, <1>4, <2>1, EndingStands DEF Agreement
<1> QED
  BY <1>6, <1>7, <1>8, <1>9 DEF Agreement

\* What two sealed facts of different types do to them.
LEMMA SealsTwo ==
    ASSUME journal \in Seq(Fact), NEW e \in Fact, NEW f \in Fact, e.type # f.type,
           journal' = journal \o <<e, f>>
    PROVE  LET m == Len(journal) + 1
               n == Len(journal) + 2 IN
           /\ Keeps(journal, journal') /\ m \in Nat /\ n \in Nat /\ m < n
           /\ DOMAIN journal' = DOMAIN journal \cup {m, n}
           /\ journal'[m] = e /\ journal'[n] = f
           /\ \A p \in DOMAIN journal : p \in Nat /\ p < m /\ p < n
           /\ \A type : Sealed(type)' =
                IF e.type = type THEN Sealed(type) \cup {m}
                ELSE IF f.type = type THEN Sealed(type) \cup {n} ELSE Sealed(type)
           /\ \A type, i : SealedOn(type, i)' =
                IF e.type = type /\ e.item = i THEN SealedOn(type, i) \cup {m}
                ELSE IF f.type = type /\ f.item = i THEN SealedOn(type, i) \cup {n}
                ELSE SealedOn(type, i)
<1> DEFINE k == journal \o <<e>>
           l == k \o <<f>>
           m == Len(journal) + 1
           n == Len(journal) + 2
<1>1. journal' = l /\ k \in Seq(Fact) /\ Len(k) = m
  BY TwoFacts
<1>2. /\ Keeps(journal, k) /\ m \in Nat
      /\ DOMAIN k = DOMAIN journal \cup {m} /\ k[m] = e
      /\ \A p \in DOMAIN journal : p \in Nat /\ p < m
      /\ \A type : Of(k, type) = IF e.type = type THEN Of(journal, type) \cup {m}
                                                  ELSE Of(journal, type)
      /\ \A type, i : OfItem(k, type, i) =
           IF e.type = type /\ e.item = i THEN OfItem(journal, type, i) \cup {m}
                                          ELSE OfItem(journal, type, i)
  BY OneFact, Zenon
<1> HIDE DEF k
<1>3. /\ Keeps(k, l) /\ Len(k) + 1 \in Nat
      /\ DOMAIN l = DOMAIN k \cup {Len(k) + 1} /\ l[Len(k) + 1] = f
      /\ \A p \in DOMAIN k : p \in Nat /\ p < Len(k) + 1
      /\ \A type : Of(l, type) = IF f.type = type THEN Of(k, type) \cup {Len(k) + 1}
                                                  ELSE Of(k, type)
      /\ \A type, i : OfItem(l, type, i) =
           IF f.type = type /\ f.item = i THEN OfItem(k, type, i) \cup {Len(k) + 1}
                                          ELSE OfItem(k, type, i)
  BY <1>1, OneFact, Zenon
<1>4. Len(k) + 1 = n
  BY <1>1, <1>2
<1> HIDE DEF l, m, n
<1>5. /\ DOMAIN l = DOMAIN journal \cup {m, n} /\ Keeps(journal, l)
      /\ l[m] = e /\ l[n] = f /\ m < n /\ n \in Nat
  BY <1>2, <1>3, <1>4 DEF Keeps
<1>6. ASSUME NEW p \in DOMAIN journal PROVE p < n
  BY <1>2, <1>3, <1>4
<1>7. \A type : Sealed(type)' =
         IF e.type = type THEN Sealed(type) \cup {m}
         ELSE IF f.type = type THEN Sealed(type) \cup {n} ELSE Sealed(type)
  BY <1>1, <1>2, <1>3, <1>4, SealedIsOf
<1>8. ASSUME NEW type, NEW i
      PROVE  SealedOn(type, i)' =
               IF e.type = type /\ e.item = i THEN SealedOn(type, i) \cup {m}
               ELSE IF f.type = type /\ f.item = i THEN SealedOn(type, i) \cup {n}
               ELSE SealedOn(type, i)
  <2>1. SealedOn(type, i) = OfItem(journal, type, i) /\ SealedOn(type, i)' = OfItem(l, type, i)
    BY <1>1, SealedIsOf
  <2>2. OfItem(l, type, i) =
          IF f.type = type /\ f.item = i THEN OfItem(k, type, i) \cup {n} ELSE OfItem(k, type, i)
    BY <1>3, <1>4
  <2>3. OfItem(k, type, i) =
          IF e.type = type /\ e.item = i THEN OfItem(journal, type, i) \cup {m}
                                         ELSE OfItem(journal, type, i)
    BY <1>2
  <2> QED BY <2>1, <2>2, <2>3
<1> QED
  BY <1>1, <1>2, <1>5, <1>6, <1>7, <1>8 DEF m, n

\* What answering seals, with or without a source: the response at position m.
AnswerSealedAt(cl, m) ==
    /\ Keeps(journal, journal') /\ m \in Nat
    /\ \A p \in DOMAIN journal : p < m
    /\ journal'[m].by = cl.by
    /\ \A i : SealedOn("InterventionResponded", i)' =
         IF i = cl.item THEN SealedOn("InterventionResponded", i) \cup {m}
                        ELSE SealedOn("InterventionResponded", i)
    /\ \A type \in {"InterventionRequested", "InterventionClosed"} : \A i :
         SealedOn(type, i)' = SealedOn(type, i)
    /\ \A type \in {"ReasonAsserted", "ParticipantsBound", "CeremonyCompleted"} :
         Sealed(type)' = Sealed(type)
    /\ \A i : i # cl.item => SealedOn("EvidenceCollected", i)' = SealedOn("EvidenceCollected", i)
    /\ \A p \in SealedOn("EvidenceCollected", cl.item)' :
         p \in SealedOn("EvidenceCollected", cl.item) \/ journal'[p].by = cl.by
    /\ \A by, s : s \in Sources =>
         (Evidence(cl.item, by, s)' <=>
            Evidence(cl.item, by, s) \/ (by = cl.by /\ cl.act = "Collect" /\ s = cl.pack))

LEMMA AnswerSeals ==
    ASSUME NEW cl, Lands(cl), cl.act \in {"Respond", "Collect"}
    PROVE  \E m : AnswerSealedAt(cl, m)
<1> DEFINE f == ItemFact("InterventionResponded", cl.item, cl.by)
<1>1. /\ cl \in Calls /\ cl.item \in Items /\ cl.by \in Seats /\ journal \in Seq(Fact)
      /\ f \in Fact /\ f.type = "InterventionResponded" /\ f.item = cl.item /\ f.by = cl.by
  BY CallTypes DEF Lands, ItemFact, Fact
<1>2. CASE cl.act = "Respond"
  <2> DEFINE m == Len(journal) + 1
  <2>1. journal' = journal \o <<f>>
    BY <1>2 DEF Lands, FactsOf
  <2> HIDE DEF f
  <2>2. /\ Keeps(journal, journal') /\ m \in Nat /\ journal'[m] = f
        /\ \A p \in DOMAIN journal : p \in Nat /\ p < m
        /\ \A type : Sealed(type)' = IF f.type = type THEN Sealed(type) \cup {m}
                                                      ELSE Sealed(type)
        /\ \A type, i : SealedOn(type, i)' =
             IF f.type = type /\ f.item = i THEN SealedOn(type, i) \cup {m}
                                            ELSE SealedOn(type, i)
    BY <1>1, <2>1, SealsOne
  <2> HIDE DEF m
  <2>3. \A i : SealedOn("EvidenceCollected", i)' = SealedOn("EvidenceCollected", i)
    BY <1>1, <2>2
  <2>4. \A i : \A p \in SealedOn("EvidenceCollected", i) : journal'[p] = journal[p]
    BY <2>2 DEF SealedOn, Sealed, Keeps
  <2>5. \A by, s : Evidence(cl.item, by, s)' <=> Evidence(cl.item, by, s)
    BY <2>3, <2>4 DEF Evidence
  <2>6. \A i : SealedOn("InterventionResponded", i)' =
          IF i = cl.item THEN SealedOn("InterventionResponded", i) \cup {m}
                         ELSE SealedOn("InterventionResponded", i)
    BY <1>1, <2>2
  <2>7. \A type \in {"InterventionRequested", "InterventionClosed"} : \A i :
          SealedOn(type, i)' = SealedOn(type, i)
    BY <1>1, <2>2
  <2>8. \A type \in {"ReasonAsserted", "ParticipantsBound", "CeremonyCompleted"} :
          Sealed(type)' = Sealed(type)
    BY <1>1, <2>2
  <2>9. AnswerSealedAt(cl, m)
    BY <1>1, <1>2, <2>2, <2>3, <2>5, <2>6, <2>7, <2>8 DEF AnswerSealedAt
  <2> QED BY <2>9
<1>3. CASE cl.act = "Collect"
  <2> DEFINE e == [type |-> "EvidenceCollected", item |-> cl.item, by |-> cl.by,
                   source |-> cl.source]
             l == Len(journal) + 1
             m == Len(journal) + 2
  <2>1. /\ journal' = journal \o <<e, f>> /\ e \in Fact
        /\ e.type = "EvidenceCollected" /\ e.item = cl.item /\ e.by = cl.by
        /\ e.source = cl.source /\ cl.pack = cl.source
    BY <1>1, <1>3, CallTypes DEF Lands, FactsOf, EvidenceCollected, Fact
  <2> HIDE DEF e, f
  <2>2. /\ Keeps(journal, journal') /\ m \in Nat /\ journal'[l] = e /\ journal'[m] = f
        /\ \A p \in DOMAIN journal : p \in Nat /\ p < m
        /\ \A type : Sealed(type)' =
             IF e.type = type THEN Sealed(type) \cup {l}
             ELSE IF f.type = type THEN Sealed(type) \cup {m} ELSE Sealed(type)
        /\ \A type, i : SealedOn(type, i)' =
             IF e.type = type /\ e.item = i THEN SealedOn(type, i) \cup {l}
             ELSE IF f.type = type /\ f.item = i THEN SealedOn(type, i) \cup {m}
             ELSE SealedOn(type, i)
    BY <1>1, <2>1, SealsTwo
  <2> HIDE DEF l, m
  <2>3. \A i : SealedOn("EvidenceCollected", i)' =
          IF i = cl.item THEN SealedOn("EvidenceCollected", i) \cup {l}
                         ELSE SealedOn("EvidenceCollected", i)
    BY <1>1, <2>1, <2>2
  <2>4. \A i : \A p \in SealedOn("EvidenceCollected", i) : journal'[p] = journal[p]
    BY <2>2 DEF SealedOn, Sealed, Keeps
  <2>5. ASSUME NEW by, NEW s
        PROVE  Evidence(cl.item, by, s)' <=>
                 Evidence(cl.item, by, s) \/ (by = cl.by /\ cl.act = "Collect" /\ s = cl.pack)
    <3>1. SealedOn("EvidenceCollected", cl.item)' = SealedOn("EvidenceCollected", cl.item) \cup {l}
      BY <2>3
    <3>2. journal'[l].by = cl.by /\ journal'[l].source = cl.pack
      BY <2>1, <2>2
    <3> QED BY <1>3, <2>4, <3>1, <3>2 DEF Evidence
  <2>6. \A i : SealedOn("InterventionResponded", i)' =
          IF i = cl.item THEN SealedOn("InterventionResponded", i) \cup {m}
                         ELSE SealedOn("InterventionResponded", i)
    BY <1>1, <2>1, <2>2
  <2>7. \A type \in {"InterventionRequested", "InterventionClosed"} : \A i :
          SealedOn(type, i)' = SealedOn(type, i)
    BY <1>1, <2>1, <2>2
  <2>8. \A type \in {"ReasonAsserted", "ParticipantsBound", "CeremonyCompleted"} :
          Sealed(type)' = Sealed(type)
    BY <1>1, <2>1, <2>2
  <2>9. \A p \in SealedOn("EvidenceCollected", cl.item)' :
          p \in SealedOn("EvidenceCollected", cl.item) \/ journal'[p].by = cl.by
    BY <2>1, <2>2, <2>3
  <2>10. AnswerSealedAt(cl, m)
    BY <1>1, <2>2, <2>3, <2>5, <2>6, <2>7, <2>8, <2>9 DEF AnswerSealedAt
  <2> QED BY <2>10
<1> QED
  BY <1>2, <1>3

\* Answering, in words or out of a source.
LEMMA AnswerAgrees ==
    ASSUME Agreement, NEW cl, Lands(cl), cl.act \in {"Respond", "Collect"}
    PROVE  Agreement'
<1> DEFINE said == [by |-> cl.by, pack |-> IF cl.act = "Collect" THEN cl.pack ELSE None]
           x == [from |-> Ref("Answer", cl.item, Len(table.items[cl.item].answers)),
                 to |-> Ref("Item", cl.item, 0), claim |-> "TheEngine", by |-> None]
           n == Len(table.reasons) + 1
<1>1. /\ cl \in Calls /\ cl.item \in Items /\ cl.by \in Seats /\ Stored /\ Stored'
      /\ table.items[cl.item] # None /\ ~Finished(table) /\ table.items[cl.item].open
      /\ \A k \in DOMAIN table.items[cl.item].answers :
           table.items[cl.item].answers[k].by # cl.by
  BY CallTypes DEF Lands, Allowed, CanRespond, Stored
<1>2. /\ table'.items = [table.items EXCEPT ![cl.item].answers = Append(@, said)]
      /\ table'.items[cl.item] # None
      /\ table'.reasons = Append(table.reasons, x) /\ table'.seated = table.seated
      /\ table'.moves = table.moves
  BY <1>1, AnswerEffect DEF Lands
<1>3. said \in Response /\ x \in Reason
  <2>1. said \in Response
    BY <1>1, CallTypes DEF Response
  <2>2. Len(table.items[cl.item].answers) \in Nat
    BY <1>1, TableFields DEF Stored, Intervention
  <2>3. x \in Reason
    BY <1>1, <2>2 DEF Reason, RecordRef, Ref, Asserter
  <2> QED BY <2>1, <2>3
<1>4. PICK m : AnswerSealedAt(cl, m)
  BY AnswerSeals
<1>5. /\ x.claim = "TheEngine" /\ x.to = Ref("Item", cl.item, 0) /\ x.by = None
      /\ x.from = Ref("Answer", cl.item, Len(table.items[cl.item].answers))
      /\ \A i : x.to = Ref("Item", i, 0) <=> i = cl.item
  BY DEF Ref
<1> HIDE DEF x
<1>6. /\ Keeps(table.reasons, table'.reasons)
      /\ n \in Nat /\ \A k \in DOMAIN table.reasons : k \in Nat /\ k < n
      /\ DOMAIN table'.reasons = DOMAIN table.reasons \cup {n} /\ table'.reasons[n] = x
      /\ \A i : Seen(i)' = IF x.claim = "TheEngine" /\ x.to = Ref("Item", i, 0)
                           THEN Seen(i) \cup {n} ELSE Seen(i)
  BY <1>1, <1>2, <1>3, ReasonsKept DEF Stored
<1> HIDE DEF n
<1>7. NothingIsTakenBack
  BY <1>4, <1>6 DEF NothingIsTakenBack, AnswerSealedAt
<1>8. ASSUME NEW i \in Items, i # cl.item PROVE ItemAgrees(i)'
  <2>1. table'.items[i] = table.items[i]
    BY <1>1, <1>2, <1>8, TableFields DEF Stored
  <2>2. \A type \in ItemTypes : SealedOn(type, i)' = SealedOn(type, i)
    BY <1>4, <1>8 DEF AnswerSealedAt, ItemTypes
  <2>3. Seen(i)' = Seen(i)
    BY <1>5, <1>6, <1>8
  <2> QED BY <1>1, <1>7, <2>1, <2>2, <2>3, ItemStands DEF Agreement, ItemTypes
<1>9. ASSUME NEW i, i = cl.item PROVE ItemAgrees(i)'
  <2>1. i \in Items /\ ItemAgrees(i)
    BY <1>1, <1>9 DEF Agreement
  <2>2. /\ table'.items[i].by = table.items[i].by /\ table'.items[i].open = table.items[i].open
        /\ table'.items[i].answers = Append(table.items[i].answers, said)
    <3> HIDE DEF said
    <3>1. table.items \in [Items -> Intervention \cup {None}] /\ table.items[i] # None
      BY <1>1, <1>9, TableFields DEF Stored
    <3>2. /\ table.items[i] \in Intervention
          /\ table'.items[i] = [table.items[i] EXCEPT !.answers = Append(@, said)]
      BY <1>2, <1>9, <2>1, <3>1
    <3> QED BY <3>2 DEF Intervention
  <2> HIDE DEF said
  <2>3. /\ AnswersOf(i) = table.items[i].answers
        /\ AnswersOf(i)' = Append(AnswersOf(i), said)
    BY <1>1, <1>2, <1>9, <2>2 DEF AnswersOf
  <2>4. said.by = cl.by /\ said.pack = IF cl.act = "Collect" THEN cl.pack ELSE None
    BY DEF said
  <2>5. /\ SealedOn("InterventionRequested", i)' = SealedOn("InterventionRequested", i)
        /\ SealedOn("InterventionResponded", i)' = SealedOn("InterventionResponded", i) \cup {m}
        /\ SealedOn("InterventionClosed", i)' = SealedOn("InterventionClosed", i)
    BY <1>4, <1>9 DEF AnswerSealedAt
  <2>6. m \in Nat /\ journal'[m].by = said.by /\ \A p \in DOMAIN journal : p < m
    BY <1>4, <2>4 DEF AnswerSealedAt
  <2>7. AnswersAccountedFor(i)'
    <3>1. ASSUME NEW by \in Seats, NEW s \in Sources
          PROVE  Evidence(i, by, s)' <=>
                   Evidence(i, by, s) \/ (by = said.by /\ s = said.pack)
      <4>1. Evidence(i, by, s)' <=>
              Evidence(i, by, s) \/ (by = cl.by /\ cl.act = "Collect" /\ s = cl.pack)
        BY <1>4, <1>9 DEF AnswerSealedAt
      <4>2. s # None
        BY TableAssumption
      <4> QED BY <2>4, <4>1, <4>2
    <3>2. Seen(i)' = Seen(i) \cup {n} /\ table'.reasons[n].from = Ref("Answer", i, Len(AnswersOf(i)))
      BY <1>5, <1>6, <1>9, <2>3
    <3>3. \A k \in DOMAIN AnswersOf(i) : AnswersOf(i)[k].by # said.by
      BY <1>1, <1>9, <2>3, <2>4
    <3>4. AnswersAccountedFor(i) /\ EvidenceOwned(i)
      BY <2>1 DEF ItemAgrees
    <3> QED
      BY <1>1, <1>3, <1>6, <1>7, <2>1, <2>3, <2>5, <2>6, <3>1, <3>2, <3>3, <3>4, AnswersGrow
  <2>8. \A type : \A p \in SealedOn(type, i) : journal'[p] = journal[p] /\ p < m
    BY <1>4 DEF SealedOn, Sealed, Keeps, AnswerSealedAt
  <2>9. /\ Cardinality(SealedOn("InterventionRequested", i)) = 1
        /\ Cardinality(SealedOn("InterventionClosed", i)) = 0
    BY <1>1, <1>9, <2>1 DEF ItemAgrees, ItemAccountedFor
  <2>10. SealedOn("InterventionRequested", i) # {} /\ SealedOn("InterventionClosed", i) = {}
    <3>1. SealedOn("InterventionClosed", i) \subseteq DOMAIN journal
      BY DEF SealedOn, Sealed
    <3>2. IsFiniteSet(SealedOn("InterventionClosed", i))
      BY <1>1, <3>1, SealedOrdered DEF Stored, Ordered
    <3> QED BY <2>9, <3>2, FS_EmptySet
  <2>11. ItemAccountedFor(i)'
    <3>1. ItemAccountedFor(i)
      BY <2>1 DEF ItemAgrees
    <3>2. \A p \in SealedOn("InterventionRequested", i) \cup SealedOn("InterventionClosed", i) :
            journal'[p].by = table'.items[i].by
      BY <1>1, <1>9, <2>2, <2>8, <3>1 DEF ItemAccountedFor
    <3> QED BY <1>1, <1>2, <1>9, <2>2, <2>5, <2>9, <3>2 DEF ItemAccountedFor
  <2>12. Timely(i)'
    <3>1. Timely(i)
      BY <2>1 DEF ItemAgrees
    <3> QED BY <2>5, <2>8, <2>10, <3>1 DEF Timely
  <2>13. EvidenceOwned(i)'
    <3> DEFINE A == AnswersOf(i)
    <3>1. A \in Seq(Response)
      BY <1>1, <2>1, AnswersType DEF Stored
    <3>2. /\ Len(A) \in Nat /\ DOMAIN A = 1..Len(A)
          /\ DOMAIN Append(A, said) = 1..(Len(A) + 1) /\ Append(A, said)[Len(A) + 1] = said
          /\ \A k \in 1..Len(A) : Append(A, said)[k] = A[k]
      BY <1>3, <3>1, AppendFacts
    <3>3. 1..Len(A) \subseteq 1..(Len(A) + 1) /\ Len(A) + 1 \in 1..(Len(A) + 1)
      BY <3>2
    <3>4. ASSUME NEW p \in SealedOn("EvidenceCollected", i)'
          PROVE  \E k \in DOMAIN Append(A, said) : Append(A, said)[k].by = journal'[p].by
      <4>1. CASE p \in SealedOn("EvidenceCollected", i)
        <5>1. PICK k \in DOMAIN A : A[k].by = journal[p].by
          BY <2>1, <4>1 DEF ItemAgrees, EvidenceOwned
        <5>2. k \in DOMAIN Append(A, said) /\ Append(A, said)[k].by = journal'[p].by
          BY <2>8, <3>2, <3>3, <4>1, <5>1
        <5> QED BY <5>2
      <4>2. CASE journal'[p].by = cl.by
        BY <2>4, <3>2, <3>3, <4>2
      <4> QED BY <1>4, <1>9, <3>4, <4>1, <4>2 DEF AnswerSealedAt
    <3> QED BY <2>3, <3>4 DEF EvidenceOwned
  <2> QED BY <2>7, <2>11, <2>12, <2>13 DEF ItemAgrees
<1>10. ReasonsAccountedFor' /\ SeatsAccountedFor'
  <2>1. \A type \in {"ReasonAsserted", "ParticipantsBound"} : Sealed(type)' = Sealed(type)
    BY <1>4 DEF AnswerSealedAt
  <2>2. \A k \in DOMAIN table'.reasons : k \in DOMAIN table.reasons \/ table'.reasons[k].by = None
    BY <1>5, <1>6
  <2> QED BY <1>1, <1>2, <1>7, <2>1, <2>2, RestStands
<1>11. EndingSealed'
  <2>1. Sealed("CeremonyCompleted")' = Sealed("CeremonyCompleted")
    BY <1>4 DEF AnswerSealedAt
  <2>2. Sealed("CeremonyCompleted") = {}
    BY <1>1 DEF Agreement, EndingSealed
  <2> QED BY <1>2, <2>1, <2>2 DEF Agreement, EndingSealed
<1> QED
  BY <1>8, <1>9, <1>10, <1>11 DEF Agreement

\* A step that touches no item leaves what was sealed on them alone.
LEMMA ItemsStand ==
    ASSUME Agreement, Stored, NothingIsTakenBack, table'.items = table.items,
           \A i : Seen(i)' = Seen(i),
           \A type \in ItemTypes : Sealed(type)' = Sealed(type)
    PROVE  \A i \in Items : ItemAgrees(i)'
<1>1. ASSUME NEW i \in Items PROVE ItemAgrees(i)'
  <2>1. \A type \in ItemTypes : SealedOn(type, i)' = SealedOn(type, i)
    BY DEF SealedOn, Sealed, NothingIsTakenBack, Keeps
  <2>2. table'.items[i] = table.items[i] /\ Seen(i)' = Seen(i)
    OBVIOUS
  <2> QED BY <2>1, <2>2, ItemStands DEF Agreement, ItemTypes
<1> QED
  BY <1>1

\* Saying why.
LEMMA AssertAgrees ==
    ASSUME Agreement, NEW cl, Lands(cl), cl.act = "Assert"
    PROVE  Agreement'
<1> DEFINE x == [from |-> cl.from, to |-> cl.to, claim |-> cl.claim, by |-> cl.by]
           n == Len(table.reasons) + 1
           m == Len(journal) + 1
           f == [type |-> "ReasonAsserted", by |-> cl.by, ordinal |-> n]
<1>1. /\ cl \in Calls /\ cl.by \in Seats /\ Stored /\ cl.claim # "TheEngine"
  BY CallTypes DEF Lands, Allowed, CanAssert, Stored
<1>2. /\ table'.reasons = Append(table.reasons, x) /\ x \in Reason
      /\ table'.items = table.items /\ table'.seated = table.seated
      /\ table'.moves = table.moves
  BY <1>1, AssertEffect DEF Lands
<1>3. x.by = cl.by /\ x.claim # "TheEngine"
  BY <1>1
<1> HIDE DEF x
<1>4. /\ Keeps(table.reasons, table'.reasons)
      /\ n \in Nat /\ \A k \in DOMAIN table.reasons : k \in Nat /\ k < n
      /\ DOMAIN table'.reasons = DOMAIN table.reasons \cup {n} /\ table'.reasons[n] = x
      /\ Len(table'.reasons) = n
      /\ \A i : Seen(i)' = IF x.claim = "TheEngine" /\ x.to = Ref("Item", i, 0)
                           THEN Seen(i) \cup {n} ELSE Seen(i)
  BY <1>1, <1>2, ReasonsKept DEF Stored
<1> HIDE DEF n
<1>5. /\ f \in Fact /\ f.type = "ReasonAsserted" /\ f.by = cl.by /\ f.ordinal = n
      /\ journal' = journal \o <<f>>
  BY <1>1, <1>4 DEF Lands, FactsOf, ReasonAsserted, Fact
<1> HIDE DEF f
<1>6. /\ Keeps(journal, journal')
      /\ DOMAIN journal' = DOMAIN journal \cup {m} /\ journal'[m] = f
      /\ \A type : Sealed(type)' = IF f.type = type THEN Sealed(type) \cup {m}
                                                    ELSE Sealed(type)
  BY <1>1, <1>5, SealsOne DEF Stored
<1> HIDE DEF m
<1>7. NothingIsTakenBack
  BY <1>4, <1>6 DEF NothingIsTakenBack
<1>8. \A i \in Items : ItemAgrees(i)'
  <2>1. \A i : Seen(i)' = Seen(i)
    BY <1>3, <1>4
  <2>2. \A type \in ItemTypes : Sealed(type)' = Sealed(type)
    BY <1>5, <1>6 DEF ItemTypes
  <2> QED BY <1>1, <1>2, <1>7, <2>1, <2>2, ItemsStand
<1>9. ReasonsAccountedFor'
  <2> DEFINE F == Sealed("ReasonAsserted")
  <2>1. Sealed("ReasonAsserted")' = F \cup {m}
    BY <1>5, <1>6
  <2>2. \A p \in F : journal'[p] = journal[p]
    BY <1>6 DEF Sealed, Keeps
  <2>3. \A p \in F : /\ journal[p].ordinal \in DOMAIN table.reasons
                     /\ table.reasons[journal[p].ordinal].by = journal[p].by
    BY DEF Agreement, ReasonsAccountedFor
  <2>4. n \notin DOMAIN table.reasons
    BY <1>4
  <2>5. ASSUME NEW p \in F \cup {m}
        PROVE  /\ journal'[p].ordinal \in DOMAIN table'.reasons
               /\ table'.reasons[journal'[p].ordinal].by = journal'[p].by
    <3>1. CASE p \in F
      BY <1>4, <2>2, <2>3, <3>1 DEF Keeps
    <3>2. CASE p = m
      BY <1>3, <1>4, <1>5, <1>6, <3>2
    <3> QED BY <2>5, <3>1, <3>2
  <2>6. ASSUME NEW k \in DOMAIN table'.reasons, table'.reasons[k].by # None
        PROVE  Cardinality(GivenAs(k)') = 1
    <3>1. CASE k \in DOMAIN table.reasons
      <4>1. GivenAs(k)' = GivenAs(k)
        BY <1>5, <1>6, <2>1, <2>2, <2>4, <3>1 DEF GivenAs
      <4>2. table.reasons[k].by # None
        BY <1>4, <2>6, <3>1 DEF Keeps
      <4>3. Cardinality(GivenAs(k)) = 1
        BY <3>1, <4>2 DEF Agreement, ReasonsAccountedFor, GivenAs
      <4> QED BY <4>1, <4>3
    <3>2. CASE k = n
      <4>1. GivenAs(k)' = {m}
        BY <1>5, <1>6, <2>1, <2>2, <2>3, <2>4, <3>2 DEF GivenAs
      <4> QED BY <4>1, FS_Singleton
    <3> QED BY <1>4, <2>6, <3>1, <3>2
  <2> QED BY <2>1, <2>5, <2>6 DEF ReasonsAccountedFor, GivenAs
<1>10. SeatsAccountedFor'
  <2>1. Sealed("ParticipantsBound")' = Sealed("ParticipantsBound")
    BY <1>5, <1>6
  <2> QED BY <1>1, <1>2, <1>7, <2>1, SeatsStand DEF Agreement
<1>11. EndingSealed'
  <2>1. Sealed("CeremonyCompleted")' = Sealed("CeremonyCompleted")
    BY <1>5, <1>6
  <2> QED BY <1>2, <1>5, <1>6, <2>1, EndingStands DEF Agreement
<1> QED
  BY <1>8, <1>9, <1>10, <1>11 DEF Agreement

\* Seating.
LEMMA BindAgrees ==
    ASSUME Agreement, NEW cl, Lands(cl), cl.act = "Bind"
    PROVE  Agreement'
<1> DEFINE m == Len(journal) + 1
           f == [type |-> "ParticipantsBound", seating |-> cl.seating]
<1>1. /\ cl \in Calls /\ cl.seating \in Seating /\ Stored /\ ~Finished(table)
  BY CallTypes DEF Lands, Allowed, CanBind, Stored
<1>2. /\ table'.seated = [s \in Seats |-> IF s \in DOMAIN cl.seating THEN cl.seating[s]
                                                                    ELSE table.seated[s]]
      /\ table'.reasons = table.reasons
      /\ table'.items = table.items /\ table'.moves = table.moves
  BY <1>1, BindEffect DEF Lands
<1>3. /\ f \in Fact /\ f.type = "ParticipantsBound" /\ f.seating = cl.seating
      /\ journal' = journal \o <<f>>
  BY <1>1 DEF Lands, FactsOf, Fact
<1> HIDE DEF f
<1>4. /\ Keeps(journal, journal') /\ m \in Nat
      /\ DOMAIN journal' = DOMAIN journal \cup {m} /\ journal'[m] = f
      /\ \A p \in DOMAIN journal : p \in Nat /\ p < m
      /\ \A type : Sealed(type)' = IF f.type = type THEN Sealed(type) \cup {m}
                                                    ELSE Sealed(type)
  BY <1>1, <1>3, SealsOne DEF Stored
<1> HIDE DEF m
<1>5. /\ NothingIsTakenBack /\ \A i : Seen(i)' = Seen(i)
      /\ \A k \in DOMAIN table'.reasons : k \in DOMAIN table.reasons
  BY <1>2, <1>4, ReasonsSame DEF NothingIsTakenBack
<1>6. \A i \in Items : ItemAgrees(i)'
  <2>1. \A type \in ItemTypes : Sealed(type)' = Sealed(type)
    BY <1>3, <1>4 DEF ItemTypes
  <2> QED BY <1>1, <1>2, <1>5, <2>1, ItemsStand
<1>7. ReasonsAccountedFor'
  <2>1. Sealed("ReasonAsserted")' = Sealed("ReasonAsserted")
    BY <1>3, <1>4
  <2> QED BY <1>1, <1>5, <2>1, ReasonsStand DEF Agreement
<1>8. ASSUME NEW s \in Seats
      PROVE  table'.seated[s] =
               IF Named(s)' = {} THEN None
               ELSE journal'[Nth(Named(s)', Cardinality(Named(s)'))].seating[s]
  <2> DEFINE N == Named(s)
  <2>1. /\ N \subseteq DOMAIN journal /\ N \subseteq Sealed("ParticipantsBound")
        /\ \A p \in Sealed("ParticipantsBound") : journal'[p] = journal[p]
    BY <1>4 DEF Named, Sealed, Keeps
  <2>2. Ordered(N) /\ IsFiniteSet(N)
    BY <1>1, <2>1, SealedOrdered DEF Stored, Ordered
  <2>3. table.seated[s] = IF N = {} THEN None ELSE journal[Nth(N, Cardinality(N))].seating[s]
    BY DEF Agreement, SeatsAccountedFor, Named
  <2>4. Sealed("ParticipantsBound")' = Sealed("ParticipantsBound") \cup {m}
    BY <1>3, <1>4
  <2>5. CASE s \in DOMAIN cl.seating
    <3>1. Named(s)' = N \cup {m}
      BY <1>3, <1>4, <2>1, <2>4, <2>5 DEF Named
    <3>2. \A p \in N : p < m
      BY <1>4, <2>1
    <3> HIDE DEF N
    <3>3. /\ Cardinality(N \cup {m}) = Cardinality(N) + 1
          /\ Nth(N \cup {m}, Cardinality(N) + 1) = m
      BY <1>4, <2>2, <3>2, GrownOrder
    <3>4. table'.seated[s] = cl.seating[s]
      BY <1>2, <2>5
    <3> QED BY <1>3, <1>4, <3>1, <3>3, <3>4
  <2>6. CASE s \notin DOMAIN cl.seating
    <3>1. Named(s)' = N
      BY <1>3, <1>4, <2>1, <2>4, <2>6 DEF Named
    <3>2. table'.seated[s] = table.seated[s]
      BY <1>2, <2>6
    <3> HIDE DEF N
    <3>3. CASE N = {}
      BY <2>3, <3>1, <3>2, <3>3
    <3>4. CASE N # {}
      <4>1. Cardinality(N) \in 1..Cardinality(N)
        BY <2>2, <3>4, FS_CardinalityType, FS_EmptySet
      <4>2. Nth(N, Cardinality(N)) \in N
        BY <2>2, <4>1, NthInOrdered
      <4>3. journal'[Nth(N, Cardinality(N))] = journal[Nth(N, Cardinality(N))]
        BY <2>1, <4>2
      <4> QED BY <2>3, <3>1, <3>2, <3>4, <4>3
    <3> QED BY <3>3, <3>4
  <2> QED BY <2>5, <2>6
<1>9. SeatsAccountedFor'
  BY <1>8 DEF SeatsAccountedFor, Named
<1>10. EndingSealed'
  <2>1. Sealed("CeremonyCompleted")' = Sealed("CeremonyCompleted")
    BY <1>3, <1>4
  <2> QED BY <1>1, <1>2, <1>4, <2>1, EndingStands DEF Agreement
<1> QED
  BY <1>6, <1>7, <1>9, <1>10 DEF Agreement

\* Deciding the guard.
LEMMA DecisionAgrees ==
    ASSUME Agreement, NEW cl, Lands(cl), cl.act \in {"Approve", "Defer"}
    PROVE  Agreement'
<1> DEFINE m == Len(journal) + 1
           kind == IF cl.act = "Approve" THEN "HumanApprovalRecorded" ELSE "HumanDeferralRecorded"
           f == SeatFact(kind, cl.by)
<1>1. /\ cl \in Calls /\ cl.by \in Seats /\ Stored /\ ~Finished(table)
  BY CallTypes DEF Lands, Allowed, CanApprove, CanDefer, Stored
<1>2. /\ table'.reasons = table.reasons /\ table'.seated = table.seated
      /\ table'.items = table.items /\ table'.moves = table.moves
  BY <1>1, DecisionEffect DEF Lands
<1>3. /\ f \in Fact /\ f.type \in {"HumanApprovalRecorded", "HumanDeferralRecorded"}
      /\ journal' = journal \o <<f>>
  BY <1>1 DEF Lands, FactsOf, SeatFact, Fact
<1> HIDE DEF f
<1>4. /\ Keeps(journal, journal')
      /\ DOMAIN journal' = DOMAIN journal \cup {m}
      /\ \A type : Sealed(type)' = IF f.type = type THEN Sealed(type) \cup {m}
                                                    ELSE Sealed(type)
  BY <1>1, <1>3, SealsOne DEF Stored
<1> HIDE DEF m
<1>5. /\ NothingIsTakenBack /\ \A i : Seen(i)' = Seen(i)
      /\ \A k \in DOMAIN table'.reasons : k \in DOMAIN table.reasons
  BY <1>2, <1>4, ReasonsSame DEF NothingIsTakenBack
<1>6. \A i \in Items : ItemAgrees(i)'
  <2>1. \A type \in ItemTypes : Sealed(type)' = Sealed(type)
    BY <1>3, <1>4 DEF ItemTypes
  <2> QED BY <1>1, <1>2, <1>5, <2>1, ItemsStand
<1>7. ReasonsAccountedFor' /\ SeatsAccountedFor'
  <2>1. \A type \in {"ReasonAsserted", "ParticipantsBound"} : Sealed(type)' = Sealed(type)
    BY <1>3, <1>4
  <2> QED BY <1>1, <1>2, <1>5, <2>1, RestStands
<1>8. EndingSealed'
  <2>1. Sealed("CeremonyCompleted")' = Sealed("CeremonyCompleted")
    BY <1>3, <1>4
  <2> QED BY <1>1, <1>2, <1>4, <2>1, EndingStands DEF Agreement
<1> QED
  BY <1>6, <1>7, <1>8 DEF Agreement

\* Ending the session.
LEMMA EndAgrees ==
    ASSUME Agreement, NEW cl, Lands(cl), cl.act = "End"
    PROVE  Agreement'
<1> DEFINE m == Len(journal) + 1
           n == Len(journal) + 2
           e == SeatFact("TransitionApplied", cl.by)
           f == SeatFact("CeremonyCompleted", cl.by)
<1>1. /\ cl \in Calls /\ cl.by \in Seats /\ Stored /\ ~Finished(table)
  BY CallTypes DEF Lands, Allowed, CanEnd, Stored
<1>2. /\ table'.reasons = table.reasons /\ table'.seated = table.seated
      /\ table'.items = table.items /\ table'.moves = Append(table.moves, cl.by)
  BY <1>1, DecisionEffect DEF Lands
<1>3. /\ e \in Fact /\ f \in Fact /\ e.type = "TransitionApplied" /\ f.type = "CeremonyCompleted"
      /\ journal' = journal \o <<e, f>>
  BY <1>1 DEF Lands, FactsOf, SeatFact, Fact
<1> HIDE DEF e, f
<1>4. /\ Keeps(journal, journal') /\ m \in Nat /\ n \in Nat /\ m < n
      /\ DOMAIN journal' = DOMAIN journal \cup {m, n}
      /\ \A p \in DOMAIN journal : p \in Nat /\ p < n
      /\ \A type : Sealed(type)' =
           IF e.type = type THEN Sealed(type) \cup {m}
           ELSE IF f.type = type THEN Sealed(type) \cup {n} ELSE Sealed(type)
  BY <1>1, <1>3, SealsTwo DEF Stored
<1> HIDE DEF m, n
<1>5. /\ NothingIsTakenBack /\ \A i : Seen(i)' = Seen(i)
      /\ \A k \in DOMAIN table'.reasons : k \in DOMAIN table.reasons
  BY <1>2, <1>4, ReasonsSame DEF NothingIsTakenBack
<1>6. \A i \in Items : ItemAgrees(i)'
  <2>1. \A type \in ItemTypes : Sealed(type)' = Sealed(type)
    BY <1>3, <1>4 DEF ItemTypes
  <2> QED BY <1>1, <1>2, <1>5, <2>1, ItemsStand
<1>7. ReasonsAccountedFor' /\ SeatsAccountedFor'
  <2>1. \A type \in {"ReasonAsserted", "ParticipantsBound"} : Sealed(type)' = Sealed(type)
    BY <1>3, <1>4
  <2> QED BY <1>1, <1>2, <1>5, <2>1, RestStands
<1>8. EndingSealed'
  <2>1. Sealed("CeremonyCompleted") = {}
    BY <1>1 DEF Agreement, EndingSealed
  <2>2. Sealed("CeremonyCompleted")' = {n}
    BY <1>3, <1>4, <2>1
  <2>3. table.moves = <<>> /\ table.moves \in Seq(Seats)
    BY <1>1, TableFields DEF Finished, Stored
  <2>4. table'.moves # <<>> /\ Len(table'.moves) <= 1
    BY <1>1, <1>2, <2>3
  <2>5. \A q \in DOMAIN journal' : ~(n < q)
    BY <1>4
  <2> QED BY <2>2, <2>4, <2>5 DEF EndingSealed, Finished
<1> QED
  BY <1>6, <1>7, <1>8 DEF Agreement

\* Nothing agrees with anything before the first call.
LEMMA AgreementAtFirst == Init => Agreement
<1> SUFFICES ASSUME Init PROVE Agreement
  OBVIOUS
<1>1. /\ table = EmptyTable /\ journal = <<>>
  BY DEF Init, table, journal
<1>2. /\ \A i \in Items : table.items[i] = None
      /\ table.reasons = <<>> /\ \A s \in Seats : table.seated[s] = None
      /\ table.moves = <<>>
  BY <1>1 DEF EmptyTable
<1>3. /\ \A type : Sealed(type) = {} /\ \A i : SealedOn(type, i) = {}
      /\ \A i : Seen(i) = {} /\ \A s : Named(s) = {}
  BY <1>1, <1>2 DEF Sealed, SealedOn, Seen, Named
<1>4. ASSUME NEW i \in Items PROVE ItemAgrees(i)
  <2>1. AnswersOf(i) = <<>> /\ Len(<<>>) = 0 /\ DOMAIN <<>> = {}
    BY <1>2 DEF AnswersOf
  <2>2. AnswersAccountedFor(i)
    BY <1>3, <2>1, FS_EmptySet, AnswersParts DEF AnswersCounted
  <2>3. ItemAccountedFor(i) /\ Timely(i) /\ EvidenceOwned(i)
    BY <1>2, <1>3 DEF ItemAccountedFor, Timely, EvidenceOwned
  <2> QED BY <2>2, <2>3 DEF ItemAgrees
<1>5. ReasonsAccountedFor
  BY <1>2, <1>3 DEF ReasonsAccountedFor
<1>6. SeatsAccountedFor
  BY <1>2, <1>3 DEF SeatsAccountedFor, Named
<1>7. EndingSealed
  BY <1>2, <1>3 DEF EndingSealed
<1> QED
  BY <1>4, <1>5, <1>6, <1>7 DEF Agreement

\* The invariant through a step of anybody.
LEMMA AgreementKept ==
    ASSUME Current, Agreement, [Next]_vars
    PROVE  Agreement'
<1>1. CASE store' = store
  <2>1. table' = table /\ journal' = journal
    BY <1>1 DEF table, journal
  <2>2. \A type : Sealed(type)' = Sealed(type) /\ \A i : SealedOn(type, i)' = SealedOn(type, i)
    BY <2>1 DEF Sealed, SealedOn
  <2>3. ASSUME NEW i \in Items PROVE ItemAgrees(i)'
    <3>1. ItemAgrees(i)
      BY DEF Agreement
    <3>2. AnswersAccountedFor(i)'
      <4>1. AnswersOf(i)' = AnswersOf(i) /\ Seen(i)' = Seen(i)
        BY <2>1 DEF AnswersOf, Seen
      <4>2. \A k : AnswerAttested(i, k)' <=> AnswerAttested(i, k)
        BY <2>1, <2>2, <4>1 DEF AnswerAttested
      <4> QED BY <2>2, <3>1, <4>1, <4>2, AnswersParts DEF ItemAgrees, AnswersCounted
    <3>3. ItemAccountedFor(i)' = ItemAccountedFor(i)
      BY <2>1, <2>2 DEF ItemAccountedFor
    <3>4. Timely(i)' = Timely(i) /\ EvidenceOwned(i)' = EvidenceOwned(i)
      BY <2>1, <2>2 DEF Timely, EvidenceOwned, AnswersOf
    <3> QED BY <3>1, <3>2, <3>3, <3>4 DEF ItemAgrees
  <2>4. ReasonsAccountedFor' /\ SeatsAccountedFor' /\ EndingSealed'
    BY <2>1, <2>2 DEF Agreement, ReasonsAccountedFor, SeatsAccountedFor, EndingSealed
  <2> QED BY <2>3, <2>4 DEF Agreement
<1>2. ASSUME NEW c \in Callers, Commit(c) PROVE Agreement'
  <2>1. PICK cl \in Calls : Lands(cl)
    BY <1>2, CommitLands
  <2>2. cl.act # "None"
    BY <2>1, CallTypes DEF Lands
  <2> QED
    BY <2>1, <2>2, CallTypes, RequestAgrees, AnswerAgrees, CloseAgrees, AssertAgrees,
       BindAgrees, DecisionAgrees, EndAgrees
<1> QED
  BY <1>1, <1>2, StepKinds

(***************************************************************************)
(* The table and the journal never disagree, for any seats, items, sources *)
(* and calls, however many callers work on copies at once, and whatever    *)
(* becomes of those that lose the race, are refused or are abandoned.      *)
(***************************************************************************)
THEOREM AgendaNeverDisagrees == Spec => []AgendaAgreesWithJournal
<1>1. Current /\ Agreement /\ [Next]_vars => Current' /\ Agreement'
  BY StepKinds, AgreementKept
<1>2. Init => Current /\ Agreement
  BY CurrentAtFirst, AgreementAtFirst
<1> QED
  BY <1>1, <1>2, AgreementIsEnough, PTL DEF Spec

-----------------------------------------------------------------------------
(***************************************************************************)
(* Tables only grow: an item keeps who asked it, of whom and following     *)
(* what; answers, reasons and decisions are added at the end.              *)
(***************************************************************************)
ItemGrows(old, new) ==
    /\ new # None
    /\ new.by = old.by /\ new.from = old.from /\ new.target = old.target
    /\ Keeps(old.answers, new.answers)

Grows(t, u) ==
    /\ \A i \in Items : t.items[i] # None => ItemGrows(t.items[i], u.items[i])
    /\ Keeps(t.reasons, u.reasons)
    /\ Keeps(t.approvals, u.approvals)
    /\ Keeps(t.deferrals, u.deferrals)
    /\ Keeps(t.moves, u.moves)

LEMMA KeepsAppended ==
    ASSUME NEW S, NEW s \in Seq(S), NEW x \in S
    PROVE  Keeps(s, s) /\ Keeps(s, Append(s, x))
<1>1. /\ Len(s) \in Nat /\ DOMAIN s = 1..Len(s) /\ DOMAIN Append(s, x) = 1..(Len(s) + 1)
      /\ \A n \in 1..Len(s) : Append(s, x)[n] = s[n]
  BY AppendFacts
<1>2. 1..Len(s) \subseteq 1..(Len(s) + 1)
  BY <1>1
<1> QED
  BY <1>1, <1>2 DEF Keeps

\* What is kept of a list is a beginning of it.
LEMMA KeptLength ==
    ASSUME NEW S, NEW s \in Seq(S), NEW r \in Seq(S), Keeps(s, r)
    PROVE  Len(s) \in Nat /\ Len(r) \in Nat /\ Len(s) <= Len(r)
<1>1. Len(s) \in Nat /\ Len(r) \in Nat /\ DOMAIN s = 1..Len(s) /\ DOMAIN r = 1..Len(r)
  OBVIOUS
<1>2. 1..Len(s) \subseteq 1..Len(r)
  BY <1>1 DEF Keeps
<1>3. Len(s) # 0 => Len(s) \in 1..Len(r)
  BY <1>1, <1>2
<1> QED
  BY <1>1, <1>3

\* Every accepted call makes a table grow.
LEMMA CallsGrow ==
    ASSUME NEW t \in Table, NEW c \in Calls, c # NoCall, Allowed(t, c)
    PROVE  Grows(t, After(t, c))
<1> DEFINE u == After(t, c)
<1>1. /\ t.items \in [Items -> Intervention \cup {None}] /\ t.reasons \in Seq(Reason)
      /\ t.approvals \in Seq(Seats) /\ t.deferrals \in Seq(Seats) /\ t.moves \in Seq(Seats)
  BY TableFields
<1>2. \A s : Keeps(s, s)
  BY DEF Keeps
<1>3. ASSUME NEW old PROVE old # None => ItemGrows(old, old)
  BY <1>2 DEF ItemGrows
<1>4. CASE c.act = "Request"
  <2>1. /\ c.item \in Items /\ t.items[c.item] = None
        /\ u.reasons = t.reasons /\ u.approvals = t.approvals
        /\ u.deferrals = t.deferrals /\ u.moves = t.moves
        /\ u.items = [t.items EXCEPT ![c.item] =
                         [by |-> c.by, target |-> c.target, from |-> c.from,
                          answers |-> <<>>, open |-> TRUE]]
    BY <1>4, CallTypes, RequestEffect DEF Allowed, CanRequest
  <2> HIDE DEF u
  <2>2. \A i \in Items : i # c.item => u.items[i] = t.items[i]
    BY <1>1, <2>1
  <2>3. \A i \in Items : t.items[i] # None => ItemGrows(t.items[i], u.items[i])
    BY <1>3, <2>1, <2>2
  <2> QED BY <1>2, <2>1, <2>3 DEF Grows, u
<1>5. CASE c.act \in {"Respond", "Collect"}
  <2> DEFINE said == [by |-> c.by, pack |-> IF c.act = "Collect" THEN c.pack ELSE None]
             old == t.items[c.item]
             x == [from |-> Ref("Answer", c.item, Len(old.answers)),
                   to |-> Ref("Item", c.item, 0), claim |-> "TheEngine", by |-> None]
  <2>1. c.item \in Items /\ old # None /\ old \in Intervention /\ said \in Response
    BY <1>1, <1>5, CallTypes, AllowedItems DEF Response
  <2>2. /\ u.reasons = Append(t.reasons, x) /\ u.approvals = t.approvals
        /\ u.deferrals = t.deferrals /\ u.moves = t.moves
        /\ u.items = [t.items EXCEPT ![c.item].answers = Append(@, said)]
        /\ u.items[c.item] # None
    BY <1>5, <2>1, AnswerEffect
  <2>3. Len(old.answers) \in Nat /\ old.answers \in Seq(Response)
    BY <2>1 DEF Intervention
  <2>4. x \in Reason
    BY <2>1, <2>3 DEF Reason, RecordRef, Ref, Asserter
  <2> HIDE DEF said, x, u
  <2>5. /\ u.items[c.item].by = old.by /\ u.items[c.item].from = old.from
        /\ u.items[c.item].target = old.target
        /\ u.items[c.item].answers = Append(old.answers, said)
    BY <1>1, <2>1, <2>2 DEF Intervention
  <2>6. ItemGrows(old, u.items[c.item])
    <3>1. Keeps(old.answers, Append(old.answers, said))
      BY <2>1, <2>3, KeepsAppended, Zenon
    <3> QED BY <2>2, <2>5, <3>1, Zenon DEF ItemGrows
  <2>7. \A i \in Items : i # c.item => u.items[i] = t.items[i]
    BY <1>1, <2>1, <2>2
  <2>8. \A i \in Items : t.items[i] # None => ItemGrows(t.items[i], u.items[i])
    BY <1>3, <2>6, <2>7
  <2>9. Keeps(t.reasons, u.reasons)
    BY <1>1, <2>2, <2>4, KeepsAppended
  <2> QED BY <1>2, <2>2, <2>8, <2>9 DEF Grows, u
<1>6. CASE c.act = "Close"
  <2> DEFINE old == t.items[c.item]
  <2>1. c.item \in Items /\ old # None /\ old \in Intervention
    BY <1>1, <1>6, CallTypes, AllowedItems
  <2>2. /\ u.reasons = t.reasons /\ u.approvals = t.approvals
        /\ u.deferrals = t.deferrals /\ u.moves = t.moves
        /\ u.items = [t.items EXCEPT ![c.item].open = FALSE]
        /\ u.items[c.item] # None
    BY <1>6, <2>1, CloseEffect
  <2> HIDE DEF u
  <2>3. /\ u.items[c.item].by = old.by /\ u.items[c.item].from = old.from
        /\ u.items[c.item].target = old.target
        /\ u.items[c.item].answers = old.answers
    BY <1>1, <2>1, <2>2 DEF Intervention
  <2>4. ItemGrows(old, u.items[c.item])
    BY <1>2, <2>2, <2>3 DEF ItemGrows
  <2>5. \A i \in Items : i # c.item => u.items[i] = t.items[i]
    BY <1>1, <2>1, <2>2
  <2>6. \A i \in Items : t.items[i] # None => ItemGrows(t.items[i], u.items[i])
    BY <1>3, <2>4, <2>5
  <2> QED BY <1>2, <2>2, <2>6 DEF Grows, u
<1>7. CASE c.act = "Assert"
  <2> DEFINE x == [from |-> c.from, to |-> c.to, claim |-> c.claim, by |-> c.by]
  <2>1. /\ u.reasons = Append(t.reasons, x) /\ x \in Reason /\ u.approvals = t.approvals
        /\ u.deferrals = t.deferrals /\ u.moves = t.moves /\ u.items = t.items
    BY <1>7, AssertEffect
  <2> HIDE DEF x, u
  <2>2. Keeps(t.reasons, u.reasons)
    BY <1>1, <2>1, KeepsAppended
  <2> QED BY <1>2, <1>3, <2>1, <2>2 DEF Grows, u
<1>8. CASE c.act = "Bind"
  <2>1. /\ u.reasons = t.reasons /\ u.approvals = t.approvals
        /\ u.deferrals = t.deferrals /\ u.moves = t.moves /\ u.items = t.items
    BY <1>8, BindEffect
  <2> HIDE DEF u
  <2> QED BY <1>2, <1>3, <2>1 DEF Grows, u
<1>9. CASE c.act \in {"Approve", "Defer", "End"}
  <2>1. /\ u.approvals = IF c.act = "Approve" THEN Append(t.approvals, c.by) ELSE t.approvals
        /\ u.deferrals = IF c.act = "Defer" THEN Append(t.deferrals, c.by) ELSE t.deferrals
        /\ u.moves = IF c.act = "End" THEN Append(t.moves, c.by) ELSE t.moves
        /\ u.items = t.items /\ u.reasons = t.reasons /\ c.by \in Seats
    BY <1>9, CallTypes, DecisionEffect
  <2> HIDE DEF u
  <2>2. \A s \in Seq(Seats) : Keeps(s, Append(s, c.by))
    BY <2>1, KeepsAppended
  <2>3. /\ Keeps(t.approvals, u.approvals) /\ Keeps(t.deferrals, u.deferrals)
        /\ Keeps(t.moves, u.moves)
    BY <1>1, <1>2, <2>1, <2>2
  <2> QED BY <1>2, <1>3, <2>1, <2>3 DEF Grows, u
<1> QED
  BY <1>4, <1>5, <1>6, <1>7, <1>8, <1>9, CallTypes

-----------------------------------------------------------------------------
\* A record that exists goes on existing, and with the seats that made it.
LEMMA RecordsStay ==
    ASSUME NEW t \in Table, NEW u \in Table, Grows(t, u), NEW r \in RecordRef, Exists(t, r)
    PROVE  Exists(u, r) /\ Producers(t, r) \subseteq Producers(u, r)
<1>1. /\ t.approvals \in Seq(Seats) /\ u.approvals \in Seq(Seats)
      /\ t.deferrals \in Seq(Seats) /\ u.deferrals \in Seq(Seats)
      /\ t.moves \in Seq(Seats) /\ u.moves \in Seq(Seats)
      /\ \A i \in Items : /\ t.items[i] \in Intervention \cup {None}
                          /\ u.items[i] \in Intervention \cup {None}
  BY TableFields
<1>2. /\ r.kind \in {"Step", "Guard", "Item", "Answer", "Transition"}
      /\ r.kind \in {"Item", "Answer"} => r.item \in Items
      /\ r.n \in Nat
  BY DEF RecordRef
<1>3. CASE r.kind = "Step"
  BY <1>3 DEF Exists, Producers, AuthorOf
<1>4. CASE r.kind = "Item"
  BY <1>2, <1>4 DEF Exists, Producers, AuthorOf, Grows, ItemGrows
<1>5. CASE r.kind = "Answer"
  <2> DEFINE A == t.items[r.item].answers
             B == u.items[r.item].answers
  <2>1. t.items[r.item] # None /\ Len(A) > r.n
    BY <1>5 DEF Exists
  <2>2. u.items[r.item] # None /\ Keeps(A, B)
    BY <1>2, <1>5, <2>1 DEF Grows, ItemGrows
  <2>3. A \in Seq(Response) /\ B \in Seq(Response)
    BY <1>1, <1>2, <1>5, <2>1, <2>2 DEF Intervention
  <2> HIDE DEF A, B
  <2>4. Len(A) \in Nat /\ Len(B) \in Nat /\ Len(A) <= Len(B)
    BY <2>2, <2>3, KeptLength
  <2>5. Len(B) > r.n
    BY <1>2, <2>1, <2>4
  <2>6. r.n + 1 \in DOMAIN A
    BY <1>2, <2>1, <2>3, <2>4
  <2>7. B[r.n + 1] = A[r.n + 1]
    BY <2>2, <2>6 DEF Keeps
  <2> QED BY <1>5, <2>2, <2>5, <2>7 DEF Exists, Producers, AuthorOf, A, B
<1>6. CASE r.kind = "Guard"
  <2>1. Keeps(t.approvals, u.approvals) /\ Keeps(t.deferrals, u.deferrals)
    BY DEF Grows
  <2>2. ASSUME NEW s, NEW v, Keeps(s, v) PROVE Range(s) \subseteq Range(v)
    BY <2>2 DEF Keeps, Range
  <2>3. ASSUME NEW s \in Seq(Seats), NEW v \in Seq(Seats), Keeps(s, v), s # <<>> PROVE v # <<>>
    <3>1. Len(s) \in Nat /\ Len(v) \in Nat /\ Len(s) <= Len(v) /\ Len(s) # 0
      BY <2>3, KeptLength
    <3> QED BY <3>1
  <2>4. u.approvals # <<>> \/ u.deferrals # <<>>
    BY <1>1, <1>6, <2>1, <2>3 DEF Exists
  <2>5. /\ Range(t.approvals) \subseteq Range(u.approvals)
        /\ Range(t.deferrals) \subseteq Range(u.deferrals)
    BY <2>1, <2>2
  <2> QED BY <1>6, <2>4, <2>5 DEF Exists, Producers
<1>7. CASE r.kind = "Transition"
  <2>1. r.n \in 1..Len(t.moves)
    BY <1>7 DEF Exists
  <2>2. Keeps(t.moves, u.moves)
    BY DEF Grows
  <2>3. Len(t.moves) \in Nat /\ Len(u.moves) \in Nat /\ Len(t.moves) <= Len(u.moves)
    BY <1>1, <2>2, KeptLength
  <2>4. r.n \in 1..Len(u.moves)
    BY <2>1, <2>3
  <2>5. u.moves[r.n] = t.moves[r.n]
    BY <1>1, <2>1, <2>2 DEF Keeps
  <2> QED BY <1>7, <2>4, <2>5 DEF Exists, Producers, AuthorOf
<1> QED
  BY <1>2, <1>3, <1>4, <1>5, <1>6, <1>7

\* A call that lands makes the stored table grow, and the journal.
LEMMA LandingGrows ==
    ASSUME NEW cl, Lands(cl)
    PROVE  Grows(table, table') /\ Keeps(journal, journal')
<1>1. Grows(table, table')
  <2>1. Grows(table, After(table, cl))
    BY CallsGrow DEF Lands
  <2> QED BY <2>1 DEF Lands
<1>2. FactsOf(table', cl) \in Seq(Fact)
  BY FactTypes DEF Lands
<1> DEFINE facts == FactsOf(table', cl)
<1>3. journal \in Seq(Fact) /\ journal' = journal \o facts
  BY DEF Lands
<1> HIDE DEF facts
<1>4. /\ DOMAIN journal = 1..Len(journal)
      /\ DOMAIN (journal \o facts) = 1..(Len(journal) + Len(facts))
      /\ Len(journal) \in Nat /\ Len(facts) \in Nat
      /\ \A p \in 1..Len(journal) : (journal \o facts)[p] = journal[p]
  BY <1>2, <1>3 DEF facts
<1>5. 1..Len(journal) \subseteq 1..(Len(journal) + Len(facts))
  BY <1>4
<1> QED
  BY <1>1, <1>3, <1>4, <1>5 DEF Keeps

\* The reasons of the next table: those there were, and what the call added.
LEMMA NewReasons ==
    ASSUME NEW cl, Lands(cl), NEW k \in DOMAIN table'.reasons, k \notin DOMAIN table.reasons
    PROVE  LET x == table'.reasons[k] IN
           \/ /\ cl.act = "Assert"
              /\ x = [from |-> cl.from, to |-> cl.to, claim |-> cl.claim, by |-> cl.by]
           \/ /\ cl.act \in {"Respond", "Collect"}
              /\ x = [from |-> Ref("Answer", cl.item, Len(table.items[cl.item].answers)),
                      to |-> Ref("Item", cl.item, 0), claim |-> "TheEngine", by |-> None]
<1> DEFINE t == table
           u == table'
<1>1. /\ t \in Table /\ cl \in Calls /\ Allowed(t, cl) /\ u = After(t, cl) /\ cl.act # "None"
      /\ t.reasons \in Seq(Reason)
  BY CallTypes, TableFields DEF Lands
<1>2. ASSUME NEW x \in Reason, u.reasons = Append(t.reasons, x) PROVE u.reasons[k] = x
  <2>1. /\ DOMAIN t.reasons = 1..Len(t.reasons) /\ Len(t.reasons) \in Nat
        /\ DOMAIN u.reasons = 1..(Len(t.reasons) + 1)
        /\ u.reasons[Len(t.reasons) + 1] = x
    BY <1>1, <1>2, AppendFacts
  <2>2. k = Len(t.reasons) + 1
    BY <2>1
  <2> QED BY <2>1, <2>2
<1>3. CASE cl.act \in {"Request", "Close", "Bind", "Approve", "Defer", "End"}
  <2>1. u.reasons = t.reasons
    <3>1. CASE cl.act = "Request"
      BY <1>1, <3>1, RequestEffect
    <3>2. CASE cl.act = "Close"
      <4>1. t.items[cl.item] # None
        BY <1>1, <3>2, AllowedItems
      <4> QED BY <1>1, <3>2, <4>1, CloseEffect
    <3>3. CASE cl.act = "Bind"
      BY <1>1, <3>3, BindEffect
    <3>4. CASE cl.act \in {"Approve", "Defer", "End"}
      BY <1>1, <3>4, DecisionEffect
    <3> QED BY <1>3, <3>1, <3>2, <3>3, <3>4
  <2> QED BY <2>1
<1>4. CASE cl.act = "Assert"
  BY <1>1, <1>2, <1>4, AssertEffect
<1>5. CASE cl.act \in {"Respond", "Collect"}
  <2> DEFINE n == Len(t.items[cl.item].answers)
             x == [from |-> Ref("Answer", cl.item, n), to |-> Ref("Item", cl.item, 0),
                   claim |-> "TheEngine", by |-> None]
  <2>1. cl.item \in Items /\ t.items[cl.item] # None /\ t.items[cl.item] \in Intervention
    BY <1>1, <1>5, CallTypes, AllowedItems, TableFields
  <2>2. n \in Nat
    BY <2>1 DEF Intervention
  <2>3. x \in Reason
    BY <2>1, <2>2 DEF Reason, RecordRef, Ref, Asserter
  <2>4. u.reasons = Append(t.reasons, x)
    BY <1>1, <1>5, <2>1, AnswerEffect
  <2> QED BY <1>2, <1>5, <2>3, <2>4
<1> QED
  BY <1>1, <1>3, <1>4, <1>5, CallTypes

\* Whoever speaks for an existing record had a hand in it.
LEMMA AuthorsProduce ==
    ASSUME NEW t \in Table, NEW r \in RecordRef, Exists(t, r)
    PROVE  AuthorOf(t, r) \in Producers(t, r)
<1>1. CASE r.kind # "Guard"
  BY <1>1 DEF Producers
<1>2. CASE r.kind = "Guard"
  <2>1. t.approvals # <<>> \/ t.deferrals # <<>>
    BY <1>2 DEF Exists
  <2>2. t.approvals \in Seq(Seats) /\ t.deferrals \in Seq(Seats)
    BY TableFields
  <2>3. ASSUME NEW s \in Seq(Seats), s # <<>> PROVE s[1] \in Range(s)
    <3>1. 1 \in DOMAIN s
      BY <2>3
    <3> QED BY <3>1 DEF Range
  <2>4. AuthorOf(t, r) = IF t.approvals # <<>> THEN t.approvals[1] ELSE t.deferrals[1]
    BY <1>2 DEF AuthorOf
  <2>5. Producers(t, r) = Range(t.approvals) \cup Range(t.deferrals)
    BY <1>2 DEF Producers
  <2> QED BY <2>1, <2>2, <2>3, <2>4, <2>5
<1> QED
  BY <1>1, <1>2

\* Reasons go on being between existing records, from who may give them.
LEMMA TestimonyKept ==
    ASSUME NEW cl, Lands(cl), TestimonyByProducer
    PROVE  TestimonyByProducer'
<1> DEFINE t == table
           u == table'
<1>1. /\ t \in Table /\ u \in Table /\ Grows(t, u) /\ cl \in Calls /\ Allowed(t, cl)
      /\ u = After(t, cl) /\ t.reasons \in Seq(Reason) /\ u.reasons \in Seq(Reason)
  BY LandingGrows, TableFields DEF Lands
<1>2. ASSUME NEW k \in DOMAIN u.reasons
      PROVE  LET x == u.reasons[k] IN
             /\ Exists(u, x.from) /\ Exists(u, x.to)
             /\ x.claim = "ItsAuthor" => x.by \in Producers(u, x.from)
  <2> DEFINE x == u.reasons[k]
  <2>1. x \in Reason
    BY <1>1
  <2>2. x.from \in RecordRef /\ x.to \in RecordRef
    BY <2>1 DEF Reason
  <2> HIDE DEF x, u, t
  <2>3. CASE k \in DOMAIN t.reasons
    <3>1. x = t.reasons[k]
      BY <1>1, <2>3 DEF Grows, Keeps, x
    <3>2. /\ Exists(t, x.from) /\ Exists(t, x.to)
          /\ x.claim = "ItsAuthor" => x.by \in Producers(t, x.from)
      BY <2>3, <3>1 DEF TestimonyByProducer, t
    <3> QED BY <1>1, <2>2, <3>2, RecordsStay DEF x
  <2>4. CASE k \notin DOMAIN t.reasons /\ cl.act = "Assert"
    <3>1. x = [from |-> cl.from, to |-> cl.to, claim |-> cl.claim, by |-> cl.by]
      BY <2>4, NewReasons DEF x, u, t
    <3>2. CanAssert(t, cl.from, cl.to, cl.claim, cl.by)
      BY <1>1, <2>4 DEF Allowed
    <3>3. /\ Exists(t, x.from) /\ Exists(t, x.to)
          /\ x.claim = "ItsAuthor" => AuthorOf(t, x.from) = x.by
      BY <3>1, <3>2 DEF CanAssert
    <3>4. AuthorOf(t, x.from) \in Producers(t, x.from)
      BY <1>1, <2>2, <3>3, AuthorsProduce
    <3> QED BY <1>1, <2>2, <3>3, <3>4, RecordsStay DEF x
  <2>5. CASE k \notin DOMAIN t.reasons /\ cl.act # "Assert"
    <3> DEFINE n == Len(t.items[cl.item].answers)
    <3>1. /\ cl.act \in {"Respond", "Collect"}
          /\ x = [from |-> Ref("Answer", cl.item, n),
                  to |-> Ref("Item", cl.item, 0), claim |-> "TheEngine", by |-> None]
      BY <2>5, NewReasons DEF x, u, t
    <3>2. /\ cl.item \in Items /\ t.items[cl.item] # None /\ t.items[cl.item] \in Intervention
          /\ cl.by \in Seats
      BY <1>1, <3>1, CallTypes, AllowedItems, TableFields
    <3> DEFINE said == [by |-> cl.by, pack |-> IF cl.act = "Collect" THEN cl.pack ELSE None]
    <3>3. /\ u.items = [t.items EXCEPT ![cl.item].answers = Append(@, said)]
          /\ u.items[cl.item] # None
      BY <1>1, <3>1, <3>2, AnswerEffect
    <3>4. u.items[cl.item].answers = Append(t.items[cl.item].answers, said)
      BY <1>1, <3>2, <3>3, TableFields DEF Intervention
    <3>5. t.items[cl.item].answers \in Seq(Response) /\ said \in Response
      BY <1>1, <3>1, <3>2, CallTypes DEF Intervention, Response
    <3> HIDE DEF said
    <3>6. Len(u.items[cl.item].answers) > n
      <4>1. n \in Nat /\ Len(Append(t.items[cl.item].answers, said)) = n + 1
        BY <3>5, AppendFacts
      <4>2. Len(u.items[cl.item].answers) = n + 1
        BY <3>4, <4>1
      <4> HIDE DEF n
      <4> QED BY <4>1, <4>2
    <3>7. /\ x.from.kind = "Answer" /\ x.from.item = cl.item /\ x.from.n = n
          /\ x.to.kind = "Item" /\ x.to.item = cl.item /\ x.claim # "ItsAuthor"
      BY <3>1 DEF Ref
    <3> HIDE DEF n
    <3>8. Exists(u, x.from) /\ Exists(u, x.to)
      BY <3>3, <3>6, <3>7 DEF Exists
    <3> QED BY <3>7, <3>8 DEF x
  <2> QED BY <2>3, <2>4, <2>5
<1> QED
  BY <1>2 DEF TestimonyByProducer

\* An item that was not on the table was put there by the call.
LEMMA NewItems ==
    ASSUME NEW cl, Lands(cl), NEW i \in Items, table.items[i] = None, table'.items[i] # None
    PROVE  /\ cl.act = "Request" /\ cl.item = i
           /\ table'.items[i] = [by |-> cl.by, target |-> cl.target, from |-> cl.from,
                                 answers |-> <<>>, open |-> TRUE]
<1> DEFINE t == table
           u == table'
<1>1. /\ t \in Table /\ cl \in Calls /\ Allowed(t, cl) /\ u = After(t, cl) /\ cl.act # "None"
      /\ t.items \in [Items -> Intervention \cup {None}]
  BY CallTypes, TableFields DEF Lands
<1>2. CASE cl.act = "Request"
  <2>1. u.items = [t.items EXCEPT ![cl.item] =
                      [by |-> cl.by, target |-> cl.target, from |-> cl.from,
                       answers |-> <<>>, open |-> TRUE]]
    BY <1>1, <1>2, RequestEffect
  <2> HIDE DEF t, u
  <2>2. i = cl.item
    BY <1>1, <2>1 DEF t, u
  <2> QED BY <1>1, <1>2, <2>1, <2>2 DEF u
<1>3. CASE cl.act \in {"Respond", "Collect", "Close"}
  <2>1. t.items[cl.item] # None
    BY <1>1, <1>3, AllowedItems
  <2>2. i # cl.item
    BY <2>1
  <2>3. u.items[i] = t.items[i]
    <3>1. CASE cl.act = "Close"
      <4>1. u.items = [t.items EXCEPT ![cl.item].open = FALSE]
        BY <1>1, <2>1, <3>1, CloseEffect
      <4> HIDE DEF u, t
      <4> QED BY <1>1, <2>2, <4>1
    <3>2. CASE cl.act # "Close"
      <4> DEFINE said == [by |-> cl.by, pack |-> IF cl.act = "Collect" THEN cl.pack ELSE None]
      <4>1. u.items = [t.items EXCEPT ![cl.item].answers = Append(@, said)]
        BY <1>1, <1>3, <2>1, <3>2, AnswerEffect
      <4> HIDE DEF u, t, said
      <4> QED BY <1>1, <2>2, <4>1
    <3> QED BY <3>1, <3>2
  <2> QED BY <2>3
<1>4. CASE cl.act \in {"Assert", "Bind", "Approve", "Defer", "End"}
  <2>1. u.items = t.items
    <3>1. CASE cl.act = "Assert"
      BY <1>1, <3>1, AssertEffect
    <3>2. CASE cl.act = "Bind"
      BY <1>1, <3>2, BindEffect
    <3>3. CASE cl.act \in {"Approve", "Defer", "End"}
      BY <1>1, <3>3, DecisionEffect
    <3> QED BY <1>4, <3>1, <3>2, <3>3
  <2> QED BY <2>1
<1> QED
  BY <1>1, <1>2, <1>3, <1>4, CallTypes

\* An item is asked once: nothing is added to a set that stays of one.
LEMMA AskedOnce ==
    ASSUME Stored, Stored', Keeps(journal, journal'), NEW i \in Items,
           ItemAccountedFor(i), ItemAccountedFor(i)', table.items[i] # None,
           table'.items[i] # None
    PROVE  SealedOn("InterventionRequested", i)' = SealedOn("InterventionRequested", i)
<1> DEFINE P == SealedOn("InterventionRequested", i)
           Q == SealedOn("InterventionRequested", i)'
<1>1. P \subseteq Q
  BY DEF SealedOn, Sealed, Keeps
<1>2. Cardinality(P) = 1 /\ Cardinality(Q) = 1
  BY DEF ItemAccountedFor
<1>3. Q \subseteq DOMAIN journal'
  BY DEF SealedOn, Sealed
<1>4. IsFiniteSet(Q)
  BY <1>3, SealedOrdered DEF Stored, Ordered
<1> QED
  BY <1>1, <1>2, <1>4, FS_Subset

\* A position that was not sealed on an item is later than the old journal.
LEMMA LaterPositions ==
    ASSUME Stored, Stored', Keeps(journal, journal'), NEW type, NEW i,
           NEW p \in DOMAIN journal, NEW q \in SealedOn(type, i)', q \notin SealedOn(type, i)
    PROVE  p < q
<1>1. q \in DOMAIN journal' /\ q \notin DOMAIN journal
  BY DEF SealedOn, Sealed, Keeps
<1>2. /\ DOMAIN journal = 1..Len(journal) /\ Len(journal) \in Nat
      /\ DOMAIN journal' = 1..Len(journal')
  BY DEF Stored
<1> QED
  BY <1>1, <1>2

\* Follow-ups go on following from what happened.
LEMMA ProvenanceKept ==
    ASSUME NEW cl, Lands(cl), Agreement, Agreement', ProvenanceGrounded
    PROVE  ProvenanceGrounded'
<1>1. /\ Stored /\ Stored' /\ Grows(table, table') /\ Keeps(journal, journal')
      /\ cl \in Calls /\ Allowed(table, cl)
  BY LandingGrows DEF Lands, Stored
<1>2. ASSUME NEW j
      PROVE  \A p \in SealedOn("InterventionResponded", j) :
                 /\ p \in DOMAIN journal
                 /\ p \in SealedOn("InterventionResponded", j)'
                 /\ journal'[p] = journal[p]
  BY <1>1 DEF SealedOn, Sealed, Keeps
<1>3. ASSUME NEW i \in Items, table'.items[i] # None, table'.items[i].from # None,
             NEW from, from = table'.items[i].from
      PROVE  /\ table'.items[from.item].by = table'.items[i].by
             /\ from.selected \in table'.items[i].target \cap MayAnswer
             /\ \E p \in SealedOn("InterventionResponded", from.item)' :
                  /\ journal'[p].by = from.answeredBy
                  /\ \A q \in SealedOn("InterventionRequested", i)' : p < q
  <2>1. from.item \in Items
    <3>1. table'.items[i] \in Intervention
      BY <1>1, <1>3, TableFields DEF Stored
    <3>2. from \in Provenance
      BY <1>3, <3>1 DEF Intervention
    <3> QED BY <3>2 DEF Provenance
  <2>2. CASE table.items[i] # None
    <3>1. /\ table'.items[i].by = table.items[i].by /\ from = table.items[i].from
          /\ table'.items[i].target = table.items[i].target
      BY <1>1, <1>3, <2>2 DEF Grows, ItemGrows
    <3>2. /\ table.items[from.item].by = table.items[i].by
          /\ from.selected \in table.items[i].target \cap MayAnswer
          /\ \E p \in SealedOn("InterventionResponded", from.item) :
               /\ journal[p].by = from.answeredBy
               /\ \A q \in SealedOn("InterventionRequested", i) : p < q
      BY <1>3, <2>2, <3>1 DEF ProvenanceGrounded
    <3>3. PICK p \in SealedOn("InterventionResponded", from.item) :
             /\ journal[p].by = from.answeredBy
             /\ \A q \in SealedOn("InterventionRequested", i) : p < q
      BY <3>2
    <3>4. table.items[from.item] # None
      <4>1. SealedOn("InterventionRequested", from.item) # {}
        BY <2>1, <3>3 DEF Agreement, ItemAgrees, Timely
      <4> QED BY <2>1, <4>1 DEF Agreement, ItemAgrees, ItemAccountedFor
    <3>5. table'.items[from.item].by = table.items[from.item].by
      BY <1>1, <2>1, <3>4 DEF Grows, ItemGrows
    <3>6. SealedOn("InterventionRequested", i)' = SealedOn("InterventionRequested", i)
      BY <1>1, <1>3, <2>2, AskedOnce DEF Agreement, ItemAgrees
    <3>7. /\ p \in SealedOn("InterventionResponded", from.item)'
          /\ journal'[p].by = from.answeredBy
      BY <1>2, <3>3
    <3> QED BY <3>1, <3>2, <3>3, <3>5, <3>6, <3>7
  <2>3. CASE table.items[i] = None
    <3>1. /\ cl.act = "Request" /\ cl.item = i
          /\ table'.items[i] = [by |-> cl.by, target |-> cl.target, from |-> cl.from,
                                answers |-> <<>>, open |-> TRUE]
      BY <1>3, <2>3, NewItems
    <3>2. /\ from = cl.from /\ table'.items[i].by = cl.by /\ table'.items[i].target = cl.target
      BY <1>3, <3>1
    <3>3. ProvenanceAllowed(table, cl.by, cl.target, from) /\ from # None
      BY <1>1, <1>3, <3>1, <3>2 DEF Allowed, CanRequest
    <3>4. PICK k \in DOMAIN table.items[from.item].answers :
             table.items[from.item].answers[k].by = from.answeredBy
      BY <3>3 DEF ProvenanceAllowed
    <3>5. /\ table.items[from.item] # None /\ table.items[from.item].by = cl.by
          /\ from.selected \in MayAnswer /\ from.selected \in cl.target
      BY <3>3 DEF ProvenanceAllowed, Accepts
    <3>6. table'.items[from.item].by = cl.by
      BY <1>1, <2>1, <3>5 DEF Grows, ItemGrows
    <3>7. /\ AnswersOf(from.item) = table.items[from.item].answers
          /\ Len(AnswersOf(from.item)) \in Nat
          /\ DOMAIN AnswersOf(from.item) = 1..Len(AnswersOf(from.item))
      BY <1>1, <2>1, <3>5, AnswersType DEF AnswersOf, Stored
    <3> DEFINE P == SealedOn("InterventionResponded", from.item)
               p == Nth(P, k)
    <3>8. /\ Cardinality(P) = Len(AnswersOf(from.item))
          /\ AnswerAttested(from.item, k)
      BY <2>1, <3>4, <3>7, AnswersParts DEF Agreement, ItemAgrees, AnswersCounted
    <3>9. Ordered(P)
      BY <1>1, CountedInOrder
    <3>10. p \in P
      BY <3>4, <3>7, <3>8, <3>9, NthInOrdered
    <3>11. journal[p].by = from.answeredBy
      BY <3>4, <3>7, <3>8 DEF AnswerAttested
    <3>12. SealedOn("InterventionRequested", i) = {}
      BY <2>3 DEF Agreement, ItemAgrees, ItemAccountedFor
    <3>13. PICK w : w = p
      OBVIOUS
    <3>14. /\ w \in SealedOn("InterventionResponded", from.item)' /\ w \in DOMAIN journal
           /\ journal'[w].by = from.answeredBy
      BY <1>2, <3>10, <3>11, <3>13
    <3>15. ASSUME NEW q \in SealedOn("InterventionRequested", i)' PROVE w < q
      BY <1>1, <3>12, <3>14, LaterPositions
    <3> HIDE DEF p, P
    <3> QED BY <3>2, <3>5, <3>6, <3>14, <3>15
  <2> QED BY <2>2, <2>3
<1> QED
  BY <1>3 DEF ProvenanceGrounded

(***************************************************************************)
(* What is claimed at the table can be traced, for any seats, items and    *)
(* calls: a follow-up to an answer its asker had already received, a       *)
(* reason to two records that exist and to somebody who could give it.     *)
(***************************************************************************)
THEOREM AgendaClaimsGrounded == Spec => []ClaimsGrounded
<1> DEFINE Inv == Current /\ Agreement /\ ClaimsGrounded
<1>1. Init => Inv
  <2> SUFFICES ASSUME Init PROVE ClaimsGrounded
    BY CurrentAtFirst, AgreementAtFirst
  <2>1. \A i \in Items : table.items[i] = None
    BY DEF Init, table, EmptyTable
  <2>2. table.reasons = <<>>
    BY DEF Init, table, EmptyTable
  <2> QED BY <2>1, <2>2 DEF ClaimsGrounded, ProvenanceGrounded, TestimonyByProducer
<1>2. Inv /\ [Next]_vars => Inv'
  <2> SUFFICES ASSUME Inv, [Next]_vars PROVE ClaimsGrounded'
    BY StepKinds, AgreementKept
  <2>1. CASE store' = store
    BY <2>1 DEF ClaimsGrounded, ProvenanceGrounded, TestimonyByProducer, SealedOn, Sealed,
                table, journal
  <2>2. ASSUME NEW c \in Callers, Commit(c) PROVE ClaimsGrounded'
    <3>1. PICK cl \in Calls : Lands(cl)
      BY <2>2, CommitLands
    <3>2. Agreement'
      BY AgreementKept
    <3> QED BY <3>1, <3>2, ProvenanceKept, TestimonyKept DEF ClaimsGrounded
  <2> QED BY <2>1, <2>2, StepKinds
<1> QED
  BY <1>1, <1>2, PTL DEF Spec

-----------------------------------------------------------------------------
\* What is at the head of a list, or anywhere in it, stays there.
LEMMA RememberedStays ==
    ASSUME NEW t \in Table, NEW u \in Table, Grows(t, u), Len(u.moves) <= 1,
           NEW r \in RecordRef, IsRemembered(t, r)
    PROVE  IsRemembered(u, r)
<1>1. r.kind \in {"Step", "Guard", "Item", "Answer", "Transition"}
  BY DEF RecordRef
<1>2. CASE r.kind \in {"Answer", "Guard"}
  <2>1. Exists(t, r)
    BY <1>2 DEF IsRemembered
  <2>2. Exists(u, r)
    BY <2>1, RecordsStay
  <2> QED BY <1>2, <2>2 DEF IsRemembered
<1>3. CASE r.kind = "Transition"
  <2>1. r.n = Len(t.moves) /\ t.moves # <<>>
    BY <1>3 DEF IsRemembered, Finished
  <2>2. t.moves \in Seq(Seats) /\ u.moves \in Seq(Seats) /\ Keeps(t.moves, u.moves)
    BY TableFields DEF Grows
  <2>3. Len(t.moves) \in Nat /\ Len(u.moves) \in Nat /\ Len(t.moves) <= Len(u.moves)
    BY <2>2, KeptLength
  <2>4. Len(t.moves) # 0
    BY <2>1, <2>2
  <2>5. Len(u.moves) = Len(t.moves) /\ u.moves # <<>>
    BY <2>2, <2>3, <2>4
  <2> QED BY <1>3, <2>1, <2>5 DEF IsRemembered, Finished
<1>4. CASE r.kind \in {"Step", "Item"}
  BY <1>4 DEF IsRemembered
<1> QED
  BY <1>1, <1>2, <1>3, <1>4

LEMMA NoteKinds ==
    ASSUME NEW n \in Notes
    PROVE  /\ n.key.kind \in {"Answer", "Guard", "Transition", "Reason"}
           /\ n.key.kind # "Reason" => n.key \in RecordRef
           /\ n.key.kind = "Answer" => n.key.item \in Items
           /\ n.key.n \in Nat
<1>1. n.key \in NoteKey
  BY DEF Notes
<1> QED
  BY <1>1 DEF NoteKey, RecordRef

\* A note a table bears out is borne out by every later one.
LEMMA NotesStayTrue ==
    ASSUME NEW t \in Table, NEW u \in Table, Grows(t, u), Len(u.moves) <= 1,
           NEW n \in Notes, BorneOut(t, n)
    PROVE  BorneOut(u, n)
<1>1. /\ n.key.kind \in {"Answer", "Guard", "Transition", "Reason"}
      /\ n.key.kind # "Reason" => n.key \in RecordRef
      /\ n.key.kind = "Answer" => n.key.item \in Items
      /\ n.key.n \in Nat
  BY NoteKinds
<1>2. CASE n.key.kind = "Answer"
  <2> DEFINE A == t.items[n.key.item].answers
             B == u.items[n.key.item].answers
  <2>1. Exists(t, n.key) /\ A[n.key.n + 1] = n.says
    BY <1>2 DEF BorneOut
  <2>2. Exists(u, n.key)
    BY <1>1, <1>2, <2>1, RecordsStay
  <2>3. t.items[n.key.item] # None /\ Len(A) > n.key.n
    BY <1>2, <2>1 DEF Exists
  <2>4. A \in Seq(Response) /\ Keeps(A, B)
    BY <1>1, <1>2, <2>3, TableFields DEF Grows, ItemGrows, Intervention
  <2> HIDE DEF A, B
  <2>5. n.key.n + 1 \in DOMAIN A
    BY <1>1, <2>3, <2>4
  <2>6. B[n.key.n + 1] = n.says
    BY <2>1, <2>4, <2>5 DEF Keeps
  <2> QED BY <1>2, <2>2, <2>6 DEF BorneOut, B
<1>3. CASE n.key.kind = "Guard"
  <2>1. ASSUME NEW s \in Seq(Seats), NEW v \in Seq(Seats), Keeps(s, v), s # <<>>
        PROVE  v # <<>> /\ v[1] = s[1]
    <3>1. 1 \in DOMAIN s
      BY <2>1
    <3>2. 1 \in DOMAIN v /\ v[1] = s[1]
      BY <2>1, <3>1 DEF Keeps
    <3> QED BY <3>2
  <2>2. /\ t.approvals \in Seq(Seats) /\ u.approvals \in Seq(Seats)
        /\ t.deferrals \in Seq(Seats) /\ u.deferrals \in Seq(Seats)
        /\ Keeps(t.approvals, u.approvals) /\ Keeps(t.deferrals, u.deferrals)
    BY TableFields DEF Grows
  <2>3. CASE n.says.decision = "approved"
    <3>1. t.approvals # <<>> /\ t.approvals[1] = n.says.by
      BY <1>3, <2>3 DEF BorneOut
    <3>2. u.approvals # <<>> /\ u.approvals[1] = n.says.by
      BY <2>1, <2>2, <3>1
    <3> QED BY <1>3, <2>3, <3>2 DEF BorneOut
  <2>4. CASE n.says.decision # "approved"
    <3>1. t.deferrals # <<>> /\ t.deferrals[1] = n.says.by
      BY <1>3, <2>4 DEF BorneOut
    <3>2. u.deferrals # <<>> /\ u.deferrals[1] = n.says.by
      BY <2>1, <2>2, <3>1
    <3> QED BY <1>3, <2>4, <3>2 DEF BorneOut
  <2> QED BY <2>3, <2>4
<1>4. CASE n.key.kind = "Transition"
  <2>1. Exists(t, n.key) /\ n.says.by = t.moves[n.key.n]
    BY <1>4 DEF BorneOut
  <2>2. Exists(u, n.key)
    BY <1>1, <1>4, <2>1, RecordsStay
  <2>3. n.key.n \in 1..Len(t.moves) /\ t.moves \in Seq(Seats) /\ Keeps(t.moves, u.moves)
    BY <1>4, <2>1, TableFields DEF Exists, Grows
  <2>4. u.moves[n.key.n] = t.moves[n.key.n]
    BY <2>3 DEF Keeps
  <2> QED BY <1>4, <2>1, <2>2, <2>4 DEF BorneOut
<1>5. CASE n.key.kind = "Reason"
  <2> DEFINE k == n.key.n + 1
             x == t.reasons[k]
  <2>1. /\ k \in DOMAIN t.reasons /\ x.from = n.says.from /\ x.to = n.says.to
        /\ IsRemembered(t, n.says.from) /\ IsRemembered(t, n.says.to)
    BY <1>5 DEF BorneOut
  <2>2. x \in Reason
    BY <2>1, TableFields
  <2>3. n.says.from \in RecordRef /\ n.says.to \in RecordRef
    BY <2>1, <2>2 DEF Reason
  <2>4. k \in DOMAIN u.reasons /\ u.reasons[k] = x
    BY <2>1 DEF Grows, Keeps
  <2>5. IsRemembered(u, n.says.from) /\ IsRemembered(u, n.says.to)
    BY <2>1, <2>3, RememberedStays
  <2> HIDE DEF x, k
  <2>6. /\ k \in DOMAIN u.reasons /\ u.reasons[k].from = n.says.from
        /\ u.reasons[k].to = n.says.to
    BY <2>1, <2>4
  <2> QED BY <1>5, <2>5, <2>6 DEF BorneOut, k
<1> QED
  BY <1>1, <1>2, <1>3, <1>4, <1>5

\* The note a call leaves is borne out by the table the call leaves.
LEMMA NotesAreTrue ==
    ASSUME NEW t \in Table, NEW c \in Calls, c # NoCall, Allowed(t, c),
           NoteOf(After(t, c), c) # None
    PROVE  BorneOut(After(t, c), NoteOf(After(t, c), c))
<1> DEFINE u == After(t, c)
           n == NoteOf(u, c)
<1>1. c.act # "None"
  BY CallTypes
<1>2. CASE c.act \in {"Request", "Close", "Bind"}
  BY <1>2 DEF NoteOf
<1>3. CASE c.act \in {"Respond", "Collect"}
  <2> DEFINE B == u.items[c.item].answers
             said == [by |-> c.by, pack |-> IF c.act = "Collect" THEN c.pack ELSE None]
  <2>1. t.items[c.item] # None
    BY <1>3, AllowedItems
  <2>2. c.item \in Items /\ u \in Table /\ u.items[c.item] # None
    BY <1>3, <2>1, CallTypes, AnswerEffect
  <2>3. B \in Seq(Response)
    BY <2>2, TableFields DEF Intervention
  <2>4. n = Note(Ref("Answer", c.item, Len(B) - 1), B[Len(B) - 1 + 1])
    BY <1>3 DEF NoteOf, ContributionEntry
  <2> HIDE DEF n, B, u
  <2>5. /\ n.key.kind = "Answer" /\ n.key.item = c.item /\ n.key.n = Len(B) - 1
        /\ n.says = B[n.key.n + 1]
    BY <2>4 DEF Note, Ref
  <2>6. Len(B) \in Nat
    BY <2>3
  <2>7. Len(B) > Len(B) - 1
    BY <2>6
  <2>8. Exists(u, n.key)
    BY <2>2, <2>5, <2>7 DEF Exists, B
  <2>9. BorneOut(u, n)
    BY <2>5, <2>8 DEF BorneOut, B
  <2> QED BY <2>9 DEF n, u
<1>4. CASE c.act \in {"Approve", "Defer"}
  <2>1. /\ u.approvals = IF c.act = "Approve" THEN Append(t.approvals, c.by) ELSE t.approvals
        /\ u.deferrals = IF c.act = "Defer" THEN Append(t.deferrals, c.by) ELSE t.deferrals
        /\ c.by \in Seats /\ t.approvals \in Seq(Seats) /\ t.deferrals \in Seq(Seats)
    BY <1>4, DecisionEffect, TableFields, CallTypes
  <2>2. u.approvals # <<>> \/ u.deferrals # <<>>
    BY <1>4, <2>1, AppendFacts
  <2>3. n = Note(Ref("Guard", None, 0),
                 IF u.approvals # <<>> THEN [decision |-> "approved", by |-> u.approvals[1]]
                                       ELSE [decision |-> "deferred", by |-> u.deferrals[1]])
    BY <1>4 DEF NoteOf, GuardEntry
  <2> HIDE DEF n, u
  <2>4. n.key.kind = "Guard"
    BY <2>3 DEF Note, Ref
  <2>5. CASE u.approvals # <<>>
    <3>1. n.says.decision = "approved" /\ n.says.by = u.approvals[1]
      BY <2>3, <2>5 DEF Note
    <3>2. BorneOut(u, n)
      BY <2>4, <2>5, <3>1 DEF BorneOut
    <3> QED BY <3>2 DEF n, u
  <2>6. CASE u.approvals = <<>>
    <3>1. n.says.decision = "deferred" /\ n.says.by = u.deferrals[1]
      BY <2>3, <2>6 DEF Note
    <3>2. BorneOut(u, n)
      BY <2>2, <2>4, <2>6, <3>1 DEF BorneOut
    <3> QED BY <3>2 DEF n, u
  <2> QED BY <2>5, <2>6
<1>5. CASE c.act = "End"
  <2>1. u.moves = Append(t.moves, c.by) /\ c.by \in Seats /\ t.moves \in Seq(Seats)
    BY <1>5, DecisionEffect, TableFields, CallTypes
  <2>2. n = Note(Ref("Transition", None, Len(u.moves)),
                 [finished |-> TRUE, by |-> u.moves[Len(u.moves)]])
    BY <1>5 DEF NoteOf, EndingEntry
  <2> HIDE DEF n, u
  <2>3. /\ n.key.kind = "Transition" /\ n.key.n = Len(u.moves)
        /\ n.says.by = u.moves[n.key.n]
    BY <2>2 DEF Note, Ref
  <2>4. Len(u.moves) \in 1..Len(u.moves)
    BY <2>1
  <2>5. Exists(u, n.key)
    BY <2>3, <2>4 DEF Exists
  <2>6. BorneOut(u, n)
    BY <2>3, <2>5 DEF BorneOut
  <2> QED BY <2>6 DEF n, u
<1>6. CASE c.act = "Assert"
  <2> DEFINE x == [from |-> c.from, to |-> c.to, claim |-> c.claim, by |-> c.by]
  <2>1. u.reasons = Append(t.reasons, x) /\ x \in Reason /\ t.reasons \in Seq(Reason)
    BY <1>6, AssertEffect, TableFields
  <2>2. IsRemembered(u, c.from) /\ IsRemembered(u, c.to) /\ n = RelationEntry(u)
    BY <1>6 DEF NoteOf
  <2>3. x.from = c.from /\ x.to = c.to
    OBVIOUS
  <2> HIDE DEF n, u, x
  <2>4. /\ Len(u.reasons) - 1 + 1 = Len(u.reasons) /\ Len(u.reasons) \in DOMAIN u.reasons
        /\ u.reasons[Len(u.reasons)] = x
    BY <2>1, AppendFacts
  <2>5. /\ n.key.kind = "Reason" /\ n.key.n + 1 = Len(u.reasons)
        /\ n.says.from = x.from /\ n.says.to = x.to
    BY <2>2, <2>4 DEF RelationEntry, Note, Ref
  <2>6. BorneOut(u, n)
    BY <2>2, <2>3, <2>4, <2>5 DEF BorneOut
  <2> QED BY <2>6 DEF n, u
<1> QED
  BY <1>1, <1>2, <1>3, <1>4, <1>5, <1>6, CallTypes

\* What somebody is about to write is as true as what is written.
Remembered ==
    /\ RememberedWasStored
    /\ \A c \in Callers : pc[c] = "remembering" => BorneOut(table, note[c])

\* Writing down a note, or not.
LEMMA RememberedKept ==
    ASSUME Current, Current', Agreement', Remembered, [Next]_vars
    PROVE  Remembered'
<1>1. memory \subseteq Notes /\ \A c \in Callers : note[c] \in Notes \cup {None}
  BY DEF Current, TypeOK
<1>2. ASSUME NEW c \in Callers, Commit(c) PROVE Remembered'
  <2> DEFINE cl == call[c]
             u == After(table, cl)
             left == NoteOf(u, cl)
  <2>1. /\ table \in Table /\ table' \in Table /\ table' = u /\ cl \in Calls /\ cl # NoCall
        /\ Allowed(table, cl)
    BY <1>2, CommitEffect
  <2>2. Grows(table, table')
    <3>1. Grows(table, u)
      BY <2>1, CallsGrow
    <3> QED BY <2>1, <3>1
  <2>3. Len(table'.moves) <= 1
    BY DEF Agreement, EndingSealed
  <2>4. /\ pc' = [pc EXCEPT ![c] = IF left = None THEN "idle" ELSE "remembering"]
        /\ note' = [note EXCEPT ![c] = left] /\ memory' = memory
    BY <1>2 DEF Commit, table
  <2>5. left # None => BorneOut(u, left)
    BY <2>1, NotesAreTrue
  <2> HIDE DEF left, u, cl
  <2>6. \A n \in Notes : BorneOut(table, n) => BorneOut(table', n)
    BY <2>1, <2>2, <2>3, NotesStayTrue
  <2>7. RememberedWasStored'
    BY <1>1, <2>4, <2>6 DEF Remembered, RememberedWasStored
  <2>8. ASSUME NEW d \in Callers, pc'[d] = "remembering" PROVE BorneOut(table', note'[d])
    <3>1. CASE d = c
      <4>1. note'[d] = left /\ left # None
        BY <2>4, <2>8, <3>1 DEF Current, TypeOK
      <4> QED BY <2>1, <2>5, <4>1
    <3>2. CASE d # c
      <4>1. note'[d] = note[d] /\ pc[d] = "remembering"
        BY <2>4, <2>8, <3>2 DEF Current, TypeOK
      <4>2. note[d] \in Notes
        BY <1>1, <4>1 DEF Current, InHandIsCurrent, CallerIsCurrent
      <4>3. BorneOut(table', note[d])
        BY <2>6, <4>1, <4>2 DEF Remembered
      <4> QED BY <4>1, <4>3
    <3> QED BY <3>1, <3>2
  <2> QED BY <2>7, <2>8 DEF Remembered
<1>3. ASSUME table' = table, RememberedWasStored',
             \A d \in Callers : pc'[d] = "remembering" => pc[d] = "remembering" /\ note'[d] = note[d]
      PROVE  Remembered'
  BY <1>3 DEF Remembered
<1>4. ASSUME table' = table, memory' = memory PROVE RememberedWasStored'
  BY <1>4 DEF Remembered, RememberedWasStored
<1>5. ASSUME NEW c \in Callers, Return(c)
      PROVE  \A d \in Callers :
               pc'[d] = "remembering" => pc[d] = "remembering" /\ note'[d] = note[d]
  BY <1>5 DEF Return, Current, TypeOK
<1>6. CASE UNCHANGED vars
  BY <1>3, <1>4, <1>6 DEF vars, local, table
<1>7. ASSUME NEW c \in Callers, NEW request \in Offered, Begin(c, request) \/ Refuse(c, request)
      PROVE  Remembered'
  <2>1. /\ table' = table /\ memory' = memory
        /\ \A d \in Callers :
             pc'[d] = "remembering" => pc[d] = "remembering" /\ note'[d] = note[d]
    BY <1>7 DEF Begin, Refuse, vars, local, table, Current, TypeOK
  <2> QED BY <1>3, <1>4, <2>1
<1>8. ASSUME NEW c \in Callers, NEW source \in Sources,
             Collected(c, source) \/ PackRefused(c, source)
      PROVE  Remembered'
  <2>1. CASE Collected(c, source)
    <3>1. /\ table' = table /\ memory' = memory
          /\ \A d \in Callers :
               pc'[d] = "remembering" => pc[d] = "remembering" /\ note'[d] = note[d]
      BY <2>1 DEF Collected, table, Current, TypeOK
    <3> QED BY <1>3, <1>4, <3>1
  <2>2. CASE PackRefused(c, source)
    <3>1. Return(c) /\ table' = table /\ memory' = memory
      BY <2>2 DEF PackRefused, table
    <3> QED BY <1>3, <1>4, <1>5, <3>1
  <2> QED BY <1>8, <2>1, <2>2
<1>9. ASSUME NEW c \in Callers, Conflict(c) \/ AlreadyRemembered(c) \/ Abandon(c)
      PROVE  Remembered'
  <2>1. Return(c) /\ table' = table /\ memory' = memory
    BY <1>9 DEF Conflict, AlreadyRemembered, Abandon, table
  <2> QED BY <1>3, <1>4, <1>5, <2>1
<1>10. ASSUME NEW c \in Callers, Remember(c) PROVE Remembered'
  <2>1. /\ Return(c) /\ table' = table /\ memory' = memory \cup {note[c]}
        /\ pc[c] = "remembering" /\ \A n \in memory : n.key # note[c].key
    BY <1>10 DEF Remember, Keys, table
  <2>2. BorneOut(table, note[c])
    BY <2>1 DEF Remembered
  <2>3. RememberedWasStored'
    BY <2>1, <2>2 DEF Remembered, RememberedWasStored
  <2> QED BY <1>3, <1>5, <2>1, <2>3
<1> QED
  BY <1>2, <1>6, <1>7, <1>8, <1>9, <1>10 DEF Next

(***************************************************************************)
(* Memory holds nothing that the session does not, and one note to a key,  *)
(* for any callers, however late their notes are written and whichever of  *)
(* them never are.                                                         *)
(***************************************************************************)
THEOREM AgendaRemembersTruly == Spec => []RememberedWasStored
<1> DEFINE Inv == Current /\ Agreement /\ Remembered
<1>1. Init => Inv
  <2>1. Init => Remembered
    BY DEF Init, Remembered, RememberedWasStored
  <2> QED BY <2>1, CurrentAtFirst, AgreementAtFirst
<1>2. Inv /\ [Next]_vars => Inv'
  BY StepKinds, AgreementKept, RememberedKept
<1>3. Inv => RememberedWasStored
  BY DEF Remembered
<1> QED
  BY <1>1, <1>2, <1>3, PTL DEF Spec
-----------------------------------------------------------------------------
\* One call is carried out on the stored table, which allows it: its facts are
\* sealed with it, a pack is of the source asked for, and nothing that was
\* said, decided or given as a reason is taken back or rewritten.
OneCallAtATime ==
    \E c \in Calls \ {NoCall} :
      LET next == After(table, c) IN
      /\ Allowed(table, c)
      /\ c.act = "Collect" => c.pack = c.source
      /\ store' = [revision |-> store.revision + 1, table |-> next,
                   journal |-> journal \o FactsOf(next, c)]
      /\ Grows(table, next)

(***************************************************************************)
(* The stored session changes by one allowed call after another, although  *)
(* callers decide on copies and a collection waits for its source while    *)
(* others commit; and it only grows (SessionJournal::commit,               *)
(* collect_ceremony_evidence).                                             *)
(***************************************************************************)
THEOREM AgendaCallsAreAtomic == Spec => [][OneCallAtATime]_store
<1>1. Current /\ [Next]_vars => [OneCallAtATime]_store
  <2> SUFFICES ASSUME Current, [Next]_vars, store' # store PROVE OneCallAtATime
    OBVIOUS
  <2>1. PICK c \in Callers : Commit(c)
    BY StepKinds
  <2> DEFINE request == call[c]
  <2>2. /\ request \in Calls \ {NoCall} /\ Allowed(table, request)
        /\ request.act = "Collect" => request.pack = request.source
    BY <2>1 DEF Commit, Current, TypeOK, InHandIsCurrent, CallerIsCurrent
  <2>3. table \in Table
    BY DEF Current, TypeOK, table
  <2>4. Grows(table, After(table, request))
    BY <2>2, <2>3, CallsGrow
  <2>5. store' = [revision |-> store.revision + 1, table |-> After(table, request),
                  journal |-> journal \o FactsOf(After(table, request), request)]
    BY <2>1 DEF Commit, table, journal
  <2> HIDE DEF request
  <2> QED BY <2>2, <2>4, <2>5 DEF OneCallAtATime
<1>2. Current <=> TypeOK /\ InHandIsCurrent
  BY DEF Current
<1> QED
  BY <1>1, <1>2, AgendaTypeCorrect, PTL DEF Spec
=============================================================================
