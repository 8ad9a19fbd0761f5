--------------------------- MODULE Dispatch_proofs ---------------------------
(***************************************************************************)
(* The serving process keeps its promises for any number of specialties,   *)
(* callers, dispatchers' triggers and starts: seats are filled, runtime    *)
(* sessions handed back, triggers answered for in full, and what is        *)
(* announced and counted is what happened.                                 *)
(*                                                                         *)
(* The inductive invariant IInv says, for each caller, which course its    *)
(* call has taken to the stage it is at (CallOK); for each dispatcher,     *)
(* that its results are the beginning of its list (HandOK); of triggers,   *)
(* that those answered, in hand and on the wire were all sent              *)
(* (SentFirst); of the counters, that orchestrations which won and are not *)
(* counted yet are still owed to them (CountsOK); and of a process that is *)
(* down, that nothing is under way in it (DownOK).                         *)
(***************************************************************************)
EXTENDS Dispatch, TLAPS, FiniteSetTheorems, SequenceTheorems,
        WellFoundedInduction

-----------------------------------------------------------------------------
(* Types. *)

Kinds == {"noop", None} \cup {d.kind : d \in Descriptors}
Rooms == (SUBSET AgentIds) \cup {None}
Asks == [expires: {"natural", "none"}] \cup [session: {"ours", "theirs"}, approved: BOOLEAN]
Results == Seq(Specialties \X BOOLEAN)

(* All that a call ever puts on the bus. *)
Tellings == {<<>>, <<"dispatched">>, <<"failed">>, <<"dispatched", "completed">>,
             <<"dispatched", "failed">>}

Orchestrations ==
  [stage: {"idle", "lookup", "convene", "dispatch", "execute", "invoke", "close",
           "record", "announce", "done", "cut"},
   specialty: Specialties \cup {None}, seats: Rooms, call: Calls \cup {None},
   session: {"none", "ours", "theirs", "closed", "close_failed"},
   asked: SUBSET Asks, outcome: {"none", "succeeded", "unsuccessful", "error"},
   pending: {"none", "completed", "failed"},
   events: Tellings,
   faults: SUBSET {"bus", "database", "options"}, result: {"none", "ok", "err"}]

Hands == [trigger: Triggers, list: Seq(Specialties), seats: Rooms, results: Results]
Answers == [trigger: Triggers, by: Dispatchers, results: Results, accepted: BOOLEAN]

RegistryType ==
  /\ mode \in {"down", "serving", "draining"}
  /\ agents \in [AgentIds -> Kinds] /\ councils \in [Specialties -> Rooms]
  /\ vacated \subseteq AgentIds
  /\ creating # None => creating \in [specialty: Specialties, members: SUBSET AgentIds]
QueueType ==
  /\ wire \in Seq(Triggers) /\ sent \in Seq(Triggers) /\ answered \in Seq(Answers)
  /\ hand \in [Dispatchers -> Hands \cup {None}]
CountType ==
  stats \in [deliberations: Nat, orchestrations: Nat, per: [Specialties -> Nat]]

TypeInv ==
  RegistryType /\ orch \in [Callers -> Orchestrations] /\ QueueType /\ CountType

-----------------------------------------------------------------------------
(* The invariant. *)

Filled(registry, left, members) == \A a \in members : registry[a] # None \/ a \in left

SeatsOK ==
  /\ \A sp \in Specialties : councils[sp] # None => Filled(agents, vacated, councils[sp])
  /\ creating # None => Filled(agents, vacated, creating.members)

(* What is on the bus and with the caller at each stage of a call. *)
Told(o) ==
  /\ o.stage \in {"idle", "lookup", "convene", "dispatch", "cut"} =>
       o.events = <<>> /\ o.outcome = "none" /\ o.faults = {} /\ o.result = "none"
  /\ o.stage \in {"execute", "invoke", "close", "record"} =>
       o.events = <<"dispatched">> /\ o.faults = {} /\ o.result = "none"
  /\ o.stage \in {"execute", "invoke"} => o.outcome = "none"
  /\ o.stage = "close" => o.outcome # "none"
  /\ o.stage = "record" => o.outcome \in {"succeeded", "unsuccessful"}
  /\ o.stage = "announce" =>
       /\ o.faults = {}
       /\ \/ /\ o.events = <<>> /\ o.outcome = "none"
             /\ o.pending = "failed" /\ o.result = "err"
          \/ /\ o.events = <<"dispatched">> /\ o.outcome = "error"
             /\ o.pending = "failed" /\ o.result = "err"
          \/ /\ o.events = <<"dispatched">> /\ o.outcome = "succeeded"
             /\ o.pending = "completed" /\ o.result = "ok"
          \/ /\ o.events = <<"dispatched">> /\ o.outcome = "unsuccessful"
             /\ o.pending = "failed" /\ o.result = "ok"
  /\ o.stage = "done" =>
       \/ /\ o.faults # {} /\ o.result = "err"
          /\ \/ o.events = <<>> /\ o.outcome = "none"
             \/ o.events = <<"dispatched">>
       \/ /\ o.faults = {} /\ o.events = <<"failed">> /\ o.outcome = "none"
          /\ o.result = "err"
       \/ /\ o.faults = {} /\ o.events = <<"dispatched", "failed">>
          /\ o.outcome = "error" /\ o.result = "err"
       \/ /\ o.faults = {} /\ o.events = <<"dispatched", "completed">>
          /\ o.outcome = "succeeded"
       \/ /\ o.faults = {} /\ o.events = <<"dispatched", "failed">>
          /\ o.outcome = "unsuccessful"

(* Whose session it has at each stage, and what was asked of the runtime. *)
SessionOK(o) ==
  /\ o.stage \in {"idle", "lookup", "convene", "dispatch", "execute", "cut"} =>
       o.session = "none" /\ o.asked = {}
  /\ o.stage = "invoke" => o.session \in {"ours", "theirs"}
  /\ o.stage = "close" => o.session = "ours"
  /\ o.stage \in {"record", "announce", "done"} => o.session # "ours"
  /\ o.session # "none" =>
       (o.session = "theirs" <=> Meant(o.call, "session_id") = "text")
  /\ \A ask \in o.asked :
       "approved" \in DOMAIN ask => (ask.approved <=> Meant(o.call, "approved") = "true")

Placed(o) ==
  o.stage \in {"lookup", "convene", "dispatch", "execute", "invoke", "close", "record"}
    => o.specialty \in Specialties

CallFine(o) == o \in Orchestrations /\ Told(o) /\ SessionOK(o) /\ Placed(o)
CallOK == \A c \in Callers : CallFine(orch[c])

(* The list a trigger is worked through by, on either way in. *)
Asked(w, t) == IF w = "grpc" THEN Unique(Requested[t]) ELSE Requested[t]

HandFine(w, h) ==
  h # None =>
    /\ h.list = Asked(w, h.trigger)
    /\ Len(h.results) <= Len(h.list)
    /\ \A k \in 1..Len(h.results) : h.results[k][1] = h.list[k]
HandOK == \A w \in Dispatchers : HandFine(w, hand[w])

(* One dispatch that returned answered for its whole list. *)
InFull(e) ==
  /\ [k \in DOMAIN e.results |-> e.results[k][1]] = Asked(e.by, e.trigger)
  /\ e.accepted <=> \E k \in DOMAIN e.results : e.results[k][2]

AnsweredOK == \A i \in DOMAIN answered : InFull(answered[i])

Places(s, T) == {i \in DOMAIN s : s[i] \in T}
About(t) == {e \in Answers : e.trigger = t}
Held(hands, w, t) == IF hands[w] # None /\ hands[w].trigger = t THEN 1 ELSE 0

SentFirst ==
  \A t \in Triggers :
    Cardinality(Places(answered, About(t))) + Held(hand, "nats", t) + Held(hand, "grpc", t)
      + Cardinality(Places(wire, {t})) <= Cardinality(Places(sent, {t}))

Each(per) == UNION {{sp} \X (1..per[sp]) : sp \in Specialties}
Owes(o) == o.stage \in {"dispatch", "execute", "invoke", "close", "record"}
Owing(calls) == {c \in Callers : Owes(calls[c])}
Fine(calls) == {c \in Callers : calls[c].result = "ok"}

CountsOK ==
  /\ IsFiniteSet(Each(stats.per))
  /\ stats.deliberations = Cardinality(Each(stats.per))
  /\ stats.orchestrations + Cardinality(Owing(orch)) <= stats.deliberations
  /\ wiring # None /\ wiring.persistence = "postgres" =>
       Cardinality(Fine(orch)) <= stats.orchestrations

DownOK ==
  /\ mode = "down" => creating = None /\ \A c \in Callers : ~Busy(c)
  /\ wiring = None => mode = "down" /\ Fine(orch) = {}

IInv == TypeInv /\ SeatsOK /\ CallOK /\ HandOK /\ AnsweredOK /\ SentFirst /\ CountsOK /\ DownOK

-----------------------------------------------------------------------------
(* Calls, one record at a time. *)

(* A move that leaves the counters alone: it neither wins a deliberation   *)
(* nor turns a call into one that ends well.                               *)
Quietly(o, n) ==
  /\ CallFine(n)
  /\ Owes(n) => Owes(o)
  /\ n.result = "ok" => o.result = "ok"

LEMMA AppendToOne ==
  ASSUME NEW x, NEW y
  PROVE  Append(<<x>>, y) = <<x, y>>
<1> DEFINE S == {x, y}
           a == <<x>>
           s == Append(a, y)
           t == <<x, y>>
<1>1. a \in Seq(S)
  OBVIOUS
<1>2. Len(a) = 1 /\ a[1] = x
  OBVIOUS
<1>3. y \in S
  OBVIOUS
<1> HIDE DEF a, S
<1>4. s \in Seq(S) /\ Len(s) = Len(a) + 1
  BY <1>1, <1>3
<1>5. \A i \in 1..Len(a) : s[i] = a[i]
  BY <1>1, <1>3
<1>6. s[Len(a) + 1] = y
  BY <1>1, <1>3
<1>7. Len(s) = Len(a) + 1 /\ s[Len(a) + 1] = y /\ s[1] = a[1] /\ s \in Seq(S)
  BY <1>2, <1>4, <1>5, <1>6
<1>8. t \in Seq(S)
  BY DEF S
<1>9. Len(t) = 2 /\ t[1] = x /\ t[2] = y
  OBVIOUS
<1> HIDE DEF s, t
<1>10. Len(s) = 2 /\ s[2] = y /\ s[1] = x
  BY <1>2, <1>7
<1>11. s = t
  BY <1>7, <1>8, <1>9, <1>10
<1> QED  BY <1>11 DEF s, t, a

LEMMA TellingsGrow ==
  /\ <<>> \in Tellings
  /\ Append(<<>>, "dispatched") = <<"dispatched">> /\ <<"dispatched">> \in Tellings
  /\ Append(<<>>, "failed") = <<"failed">> /\ <<"failed">> \in Tellings
  /\ Append(<<"dispatched">>, "failed") = <<"dispatched", "failed">>
  /\ <<"dispatched", "failed">> \in Tellings
  /\ Append(<<"dispatched">>, "completed") = <<"dispatched", "completed">>
  /\ <<"dispatched", "completed">> \in Tellings
<1>1. Append(<<>>, "dispatched") = <<"dispatched">> /\ Append(<<>>, "failed") = <<"failed">>
  OBVIOUS
<1>2. Append(<<"dispatched">>, "failed") = <<"dispatched", "failed">>
  BY AppendToOne
<1>3. Append(<<"dispatched">>, "completed") = <<"dispatched", "completed">>
  BY AppendToOne
<1>4. /\ <<>> \in Tellings /\ <<"dispatched">> \in Tellings /\ <<"failed">> \in Tellings
      /\ <<"dispatched", "failed">> \in Tellings
      /\ <<"dispatched", "completed">> \in Tellings
  BY Zenon DEF Tellings
<1> QED  BY <1>1, <1>2, <1>3, <1>4, Zenon

LEMMA UnaskedIsFine == CallFine(Unasked)
BY TellingsGrow DEF CallFine, Orchestrations, Told, SessionOK, Placed, Unasked, Rooms

LEMMA GoneIsFine == CallFine(Gone) /\ ~Owes(Gone) /\ Gone.result = "none"
BY TellingsGrow DEF CallFine, Orchestrations, Told, SessionOK, Placed, Unasked, Gone, Rooms,
                    Owes

LEMMA OrchestrateIsFine ==
  ASSUME NEW sp \in Specialties, NEW call \in Calls
  PROVE  Quietly(Unasked, [Unasked EXCEPT !.stage = "lookup", !.specialty = sp, !.call = call])
BY TellingsGrow DEF Quietly, CallFine, Orchestrations, Told, SessionOK, Placed, Unasked, Rooms,
                    Owes

LEMMA LookupIsQuiet ==
  ASSUME NEW o, CallFine(o), o.stage = "lookup", NEW room \in Rooms
  PROVE  /\ Quietly(o, Announcing(o, "failed", "err"))
         /\ Quietly(o, [o EXCEPT !.stage = "convene", !.seats = room])
BY DEF Quietly, CallFine, Orchestrations, Told, SessionOK, Placed, Announcing, Owes

LEMMA DeliberateIsFine ==
  ASSUME NEW o, CallFine(o), o.stage = "convene"
  PROVE  /\ Quietly(o, Announcing(o, "failed", "err"))
         /\ CallFine([o EXCEPT !.stage = "dispatch"])
         /\ [o EXCEPT !.stage = "dispatch"].result # "ok"
BY DEF Quietly, CallFine, Orchestrations, Told, SessionOK, Placed, Announcing, Owes

LEMMA DispatchIsQuiet ==
  ASSUME NEW o, CallFine(o), o.stage = "dispatch"
  PROVE  /\ Quietly(o, [Faulted(o, "bus") EXCEPT !.stage = "done", !.result = "err"])
         /\ Quietly(o, [Published(o, "dispatched") EXCEPT !.stage = "execute"])
<1>1. Quietly(o, [Faulted(o, "bus") EXCEPT !.stage = "done", !.result = "err"])
  BY DEF Quietly, CallFine, Orchestrations, Told, SessionOK, Placed, Faulted, Owes
<1>2. o.events = <<>> /\ Append(o.events, "dispatched") = <<"dispatched">>
      /\ Append(o.events, "dispatched") \in Tellings
  BY TellingsGrow, Zenon DEF CallFine, Told
<1>3. [Published(o, "dispatched") EXCEPT !.stage = "execute"] \in Orchestrations
  BY <1>2 DEF CallFine, Orchestrations, Published
<1>4. Quietly(o, [Published(o, "dispatched") EXCEPT !.stage = "execute"])
  BY <1>2, <1>3 DEF Quietly, CallFine, Orchestrations, Told, SessionOK, Placed, Published,
                    Owes
<1> QED  BY <1>1, <1>4

LEMMA RecordIsFine ==
  ASSUME NEW o, CallFine(o), o.stage = "record"
  PROVE  /\ Quietly(o, [Faulted(o, "database") EXCEPT !.stage = "done", !.result = "err"])
         /\ \A n : n = Announcing(o, IF o.outcome = "succeeded" THEN "completed" ELSE "failed",
                                   "ok") =>
                 CallFine(n) /\ ~Owes(n)
<1>1. Quietly(o, [Faulted(o, "database") EXCEPT !.stage = "done", !.result = "err"])
  BY DEF Quietly, CallFine, Orchestrations, Told, SessionOK, Placed, Faulted, Owes
<1>2. ASSUME NEW n, n = Announcing(o, IF o.outcome = "succeeded" THEN "completed" ELSE "failed",
                                   "ok")
      PROVE  CallFine(n) /\ ~Owes(n)
  <2>1. n \in Orchestrations
    BY <1>2 DEF CallFine, Orchestrations, Announcing
  <2>2. /\ n.stage = "announce" /\ n.result = "ok" /\ n.faults = o.faults
        /\ n.pending = IF o.outcome = "succeeded" THEN "completed" ELSE "failed"
        /\ n.session = o.session /\ n.call = o.call /\ n.asked = o.asked
        /\ n.events = o.events /\ n.outcome = o.outcome
    BY <1>2 DEF CallFine, Orchestrations, Announcing
  <2>3. Told(n)
    BY <2>2 DEF CallFine, Told
  <2>4. SessionOK(n) /\ Placed(n) /\ ~Owes(n)
    BY <2>2 DEF CallFine, SessionOK, Placed, Owes
  <2> QED  BY <2>1, <2>3, <2>4, Zenon DEF CallFine
<1> QED  BY <1>1, <1>2

LEMMA EndingIsQuiet ==
  ASSUME NEW o, CallFine(o), o.stage = "announce"
  PROVE  /\ Quietly(o, [Faulted(o, "bus") EXCEPT !.stage = "done", !.result = "err"])
         /\ Quietly(o, [Published(o, o.pending) EXCEPT !.stage = "done"])
<1>1. Quietly(o, [Faulted(o, "bus") EXCEPT !.stage = "done", !.result = "err"])
  <2> DEFINE n == [Faulted(o, "bus") EXCEPT !.stage = "done", !.result = "err"]
  <2>1. n \in Orchestrations
    BY DEF CallFine, Orchestrations, Faulted
  <2>2. /\ n.stage = "done" /\ n.result = "err" /\ n.faults # {} /\ n.session = o.session
        /\ n.call = o.call /\ n.asked = o.asked /\ n.events = o.events
        /\ n.outcome = o.outcome
    BY DEF CallFine, Orchestrations, Faulted
  <2> HIDE DEF n
  <2>3. Quietly(o, n)
    BY <2>1, <2>2, Zenon DEF Quietly, CallFine, Told, SessionOK, Placed, Owes
  <2> QED  BY <2>3 DEF n
<1>2. Append(o.events, o.pending) \in Tellings
  BY TellingsGrow DEF CallFine, Told
<1>3. Quietly(o, [Published(o, o.pending) EXCEPT !.stage = "done"])
  <2> DEFINE n == [Published(o, o.pending) EXCEPT !.stage = "done"]
  <2>1. n \in Orchestrations
    BY <1>2 DEF CallFine, Orchestrations, Published
  <2>2. /\ n.stage = "done" /\ n.result = o.result /\ n.faults = o.faults
        /\ n.session = o.session /\ n.call = o.call /\ n.asked = o.asked
        /\ n.events = Append(o.events, o.pending) /\ n.outcome = o.outcome
    BY DEF CallFine, Orchestrations, Published
  <2> HIDE DEF n
  <2>3. Told(n)
    BY <2>2, TellingsGrow DEF CallFine, Told
  <2>4. SessionOK(n) /\ Placed(n) /\ ~Owes(n)
    BY <2>2 DEF CallFine, SessionOK, Placed, Owes
  <2>5. Quietly(o, n)
    BY <2>1, <2>2, <2>3, <2>4, Zenon DEF Quietly, CallFine
  <2> QED  BY <2>5 DEF n
<1> QED  BY <1>1, <1>3

-----------------------------------------------------------------------------
(* The options of a call, as the request made of them reads them. *)

LEMMA MergeKeepsPrecedence ==
  ASSUME NEW o, NEW key
  PROVE  LookupValue(Options(o), o.call.winner, key) = Meant(o.call, key)
BY DEF LookupValue, Options, MergeExecutionOptions, Meant

LEMMA RequestReadsWhatWasMeant ==
  ASSUME NEW o
  PROVE  /\ Request(o).session <=> Meant(o.call, "session_id") = "text"
         /\ Request(o).approved <=> Meant(o.call, "approved") = "true"
         /\ Request(o).approved \in BOOLEAN
<1>1. /\ Request(o).session = (ReadOption("session_id", Meant(o.call, "session_id")) = "text")
      /\ Request(o).approved = (ReadOption("approved", Meant(o.call, "approved")) = "true")
  BY MergeKeepsPrecedence DEF Request, FromInputs, Keys, StringKeys
<1>2. \A json : ReadOption("session_id", json) = OptionalStringValue(json)
  BY DEF ReadOption, StringKeys
<1>3. \A json : ReadOption("approved", json) = OptionalBoolValue(json)
  BY DEF ReadOption, StringKeys
<1>4. \A json : (OptionalStringValue(json) = "text") <=> (json = "text")
  BY DEF OptionalStringValue
<1>5. \A json : (OptionalBoolValue(json) = "true") <=> (json = "true")
  BY DEF OptionalBoolValue
<1> QED  BY <1>1, <1>2, <1>3, <1>4, <1>5

-----------------------------------------------------------------------------
(* Executing. *)

(* A call whose work was announced, whatever has become of the work. *)
Working(o) ==
  /\ o \in Orchestrations /\ Owes(o) /\ o.specialty \in Specialties
  /\ o.events = <<"dispatched">> /\ o.faults = {} /\ o.result = "none"

(* What SessionOK says at every stage. *)
AskedAsMeant(o) ==
  /\ o.session # "none" =>
       (o.session = "theirs" <=> Meant(o.call, "session_id") = "text")
  /\ \A ask \in o.asked :
       "approved" \in DOMAIN ask => (ask.approved <=> Meant(o.call, "approved") = "true")

LEMMA SettledIsFine ==
  ASSUME NEW o, Working(o), AskedAsMeant(o), o.session # "ours",
         NEW outcome \in {"succeeded", "unsuccessful", "error"}
  PROVE  CallFine(Settled(o, outcome)) /\ Settled(o, outcome).result # "ok"
<1> DEFINE n == Settled(o, outcome)
<1>1. n \in Orchestrations
  BY DEF Working, Orchestrations, Settled, Announcing
<1>2. /\ n.session = o.session /\ n.call = o.call /\ n.asked = o.asked
      /\ n.events = o.events /\ n.outcome = outcome /\ n.faults = {}
      /\ n.specialty = o.specialty
  BY DEF Working, Orchestrations, Settled, Announcing
<1>3. CASE outcome = "error"
  <2>1. n.stage = "announce" /\ n.pending = "failed" /\ n.result = "err"
    BY <1>3 DEF Working, Orchestrations, Settled, Announcing
  <2> HIDE DEF n
  <2>2. CallFine(n) /\ n.result # "ok"
    BY <1>1, <1>2, <1>3, <2>1 DEF CallFine, Told, SessionOK, Placed, Working, AskedAsMeant
  <2> QED  BY <2>2 DEF n
<1>4. CASE outcome # "error"
  <2>1. n.stage = "record" /\ n.result = "none"
    BY <1>4 DEF Working, Orchestrations, Settled
  <2> HIDE DEF n
  <2>2. CallFine(n) /\ n.result # "ok"
    BY <1>1, <1>2, <1>4, <2>1 DEF CallFine, Told, SessionOK, Placed, Working, AskedAsMeant
  <2> QED  BY <2>2 DEF n
<1> QED  BY <1>3, <1>4

LEMMA OptionsFaultIsQuiet ==
  ASSUME NEW o, CallFine(o), o.stage = "execute"
  PROVE  Quietly(o, [Faulted(o, "options") EXCEPT !.stage = "done", !.result = "err"])
<1> DEFINE n == [Faulted(o, "options") EXCEPT !.stage = "done", !.result = "err"]
<1>1. n \in Orchestrations
  BY DEF CallFine, Orchestrations, Faulted
<1>2. /\ n.stage = "done" /\ n.result = "err" /\ n.faults # {} /\ n.session = o.session
      /\ n.call = o.call /\ n.asked = o.asked /\ n.events = o.events
      /\ n.outcome = o.outcome
  BY DEF CallFine, Orchestrations, Faulted
<1> HIDE DEF n
<1>3. Quietly(o, n)
  BY <1>1, <1>2, Zenon DEF Quietly, CallFine, Told, SessionOK, Placed, Owes
<1> QED  BY <1>3 DEF n

LEMMA TheirsIsQuiet ==
  ASSUME NEW o, CallFine(o), o.stage = "execute", Request(o).session
  PROVE  Quietly(o, [o EXCEPT !.stage = "invoke", !.session = "theirs"])
<1> DEFINE n == [o EXCEPT !.stage = "invoke", !.session = "theirs"]
<1>1. n \in Orchestrations
  BY DEF CallFine, Orchestrations
<1>2. /\ n.stage = "invoke" /\ n.session = "theirs" /\ n.result = o.result
      /\ n.faults = o.faults /\ n.call = o.call /\ n.asked = o.asked
      /\ n.events = o.events /\ n.outcome = o.outcome /\ n.specialty = o.specialty
  BY DEF CallFine, Orchestrations
<1>3. Meant(o.call, "session_id") = "text"
  BY RequestReadsWhatWasMeant
<1> HIDE DEF n
<1>4. Quietly(o, n)
  BY <1>1, <1>2, <1>3 DEF Quietly, CallFine, Told, SessionOK, Placed, Owes
<1> QED  BY <1>4 DEF n

(* The session asked for says nothing of approval. *)
Opening(o) == [o EXCEPT !.asked = {CreateSessionRequest(Request(o))}]

LEMMA OpeningIsFine ==
  ASSUME NEW o, CallFine(o), o.stage = "execute"
  PROVE  /\ Working(Opening(o)) /\ AskedAsMeant(Opening(o))
         /\ Opening(o).session = "none" /\ Opening(o).outcome = "none"
         /\ Opening(o).stage = "execute" /\ Opening(o).call = o.call
<1> DEFINE n == Opening(o)
<1>1. CreateSessionRequest(Request(o)) \in Asks
  BY DEF CreateSessionRequest, Asks
<1>2. /\ n \in Orchestrations /\ n.asked = {CreateSessionRequest(Request(o))}
      /\ n.stage = o.stage /\ n.session = o.session /\ n.result = o.result
      /\ n.faults = o.faults /\ n.call = o.call
      /\ n.events = o.events /\ n.outcome = o.outcome /\ n.specialty = o.specialty
  BY <1>1 DEF CallFine, Orchestrations, Opening
<1>3. "approved" \notin DOMAIN CreateSessionRequest(Request(o))
  BY DEF CreateSessionRequest
<1> HIDE DEF n
<1>4. /\ Working(n) /\ AskedAsMeant(n) /\ n.session = "none" /\ n.outcome = "none"
      /\ n.stage = "execute" /\ n.call = o.call
  BY <1>2, <1>3 DEF CallFine, Told, SessionOK, Placed, Working, AskedAsMeant, Owes
<1> QED  BY <1>4 DEF n

LEMMA OursIsQuiet ==
  ASSUME NEW o, CallFine(o), o.stage = "execute", ~Request(o).session
  PROVE  Quietly(o, [Opening(o) EXCEPT !.stage = "invoke", !.session = "ours"])
<1> DEFINE p == Opening(o)
           n == [p EXCEPT !.stage = "invoke", !.session = "ours"]
<1>1. /\ Working(p) /\ AskedAsMeant(p) /\ p.session = "none" /\ p.outcome = "none"
      /\ p.stage = "execute" /\ p.call = o.call
  BY OpeningIsFine
<1>2. Meant(o.call, "session_id") # "text"
  BY RequestReadsWhatWasMeant
<1> HIDE DEF p
<1>3. n \in Orchestrations
  BY <1>1 DEF Working, Orchestrations
<1>4. /\ n.stage = "invoke" /\ n.session = "ours" /\ n.result = p.result
      /\ n.faults = p.faults /\ n.call = p.call /\ n.asked = p.asked
      /\ n.events = p.events /\ n.outcome = p.outcome /\ n.specialty = p.specialty
  BY <1>1 DEF Working, Orchestrations
<1> HIDE DEF n
<1>5. Quietly(o, n)
  BY <1>1, <1>2, <1>3, <1>4
     DEF Quietly, CallFine, Told, SessionOK, Placed, Owes, Working, AskedAsMeant
<1> QED  BY <1>5 DEF n, p

LEMMA CallIsWorking ==
  ASSUME NEW o, CallFine(o), o.stage \in {"execute", "invoke", "close", "record"}
  PROVE  Working(o) /\ AskedAsMeant(o)
BY DEF CallFine, Told, SessionOK, Placed, Working, AskedAsMeant, Owes

LEMMA SettledIsQuiet ==
  ASSUME NEW o, NEW p, Working(p), AskedAsMeant(p), p.session # "ours", Owes(o),
         NEW outcome \in {"succeeded", "unsuccessful", "error"}
  PROVE  Quietly(o, Settled(p, outcome))
BY SettledIsFine, Zenon DEF Quietly

(* The tool is asked for with the approval that was meant. *)
Invoking(o) == [o EXCEPT !.asked = @ \cup {InvokeToolRequest(Request(o), o.session)}]

LEMMA InvokingIsFine ==
  ASSUME NEW o, CallFine(o), o.stage = "invoke"
  PROVE  /\ Working(Invoking(o)) /\ AskedAsMeant(Invoking(o))
         /\ Invoking(o).session = o.session /\ Invoking(o).stage = "invoke"
<1> DEFINE ask == InvokeToolRequest(Request(o), o.session)
           n == Invoking(o)
<1>1. o.session \in {"ours", "theirs"}
  BY DEF CallFine, SessionOK
<1>2. Request(o).approved \in BOOLEAN
      /\ (Request(o).approved <=> Meant(o.call, "approved") = "true")
  BY RequestReadsWhatWasMeant
<1>3. ask \in Asks
  BY <1>1, <1>2 DEF InvokeToolRequest, Asks
<1>4. ask.approved <=> Meant(o.call, "approved") = "true"
  BY <1>2 DEF InvokeToolRequest
<1> HIDE DEF ask
<1>5. /\ n \in Orchestrations /\ n.asked = o.asked \cup {ask}
      /\ n.stage = o.stage /\ n.session = o.session /\ n.result = o.result
      /\ n.faults = o.faults /\ n.call = o.call
      /\ n.events = o.events /\ n.outcome = o.outcome /\ n.specialty = o.specialty
  BY <1>3 DEF CallFine, Orchestrations, Invoking, ask
<1> HIDE DEF n
<1>6. Working(n) /\ AskedAsMeant(n) /\ n.session = o.session /\ n.stage = "invoke"
  BY <1>4, <1>5 DEF CallFine, Told, SessionOK, Placed, Working, AskedAsMeant, Owes
<1> QED  BY <1>6 DEF n

LEMMA ClosingIsQuiet ==
  ASSUME NEW o, CallFine(o), o.stage = "invoke", o.session = "ours",
         NEW outcome \in {"succeeded", "unsuccessful", "error"}
  PROVE  Quietly(o, [Invoking(o) EXCEPT !.stage = "close", !.outcome = outcome])
<1> DEFINE p == Invoking(o)
           n == [p EXCEPT !.stage = "close", !.outcome = outcome]
<1>1. Working(p) /\ AskedAsMeant(p) /\ p.session = o.session
  BY InvokingIsFine
<1> HIDE DEF p
<1>2. n \in Orchestrations
  BY <1>1 DEF Working, Orchestrations
<1>3. /\ n.stage = "close" /\ n.session = p.session /\ n.result = p.result
      /\ n.faults = p.faults /\ n.call = p.call /\ n.asked = p.asked
      /\ n.events = p.events /\ n.outcome = outcome /\ n.specialty = p.specialty
  BY <1>1 DEF Working, Orchestrations
<1> HIDE DEF n
<1>4. Quietly(o, n)
  BY <1>1, <1>2, <1>3
     DEF Quietly, CallFine, Told, SessionOK, Placed, Owes, Working, AskedAsMeant
<1> QED  BY <1>4 DEF n, p

LEMMA ClosedIsQuiet ==
  ASSUME NEW o, CallFine(o), o.stage = "close", NEW closed \in {"closed", "close_failed"}
  PROVE  Quietly(o, Settled([o EXCEPT !.session = closed], o.outcome))
<1> DEFINE p == [o EXCEPT !.session = closed]
<1>1. Working(o) /\ AskedAsMeant(o) /\ o.session = "ours"
      /\ o.outcome \in {"succeeded", "unsuccessful", "error"}
  BY CallIsWorking DEF CallFine, SessionOK, Told, Orchestrations
<1>2. p \in Orchestrations
  BY DEF CallFine, Orchestrations
<1>3. /\ p.session = closed /\ p.stage = o.stage /\ p.result = o.result
      /\ p.faults = o.faults /\ p.call = o.call /\ p.asked = o.asked
      /\ p.events = o.events /\ p.specialty = o.specialty
  BY DEF CallFine, Orchestrations
<1> HIDE DEF p
<1>4. Working(p) /\ AskedAsMeant(p) /\ p.session # "ours" /\ Owes(o)
  BY <1>1, <1>2, <1>3 DEF Working, AskedAsMeant, Owes
<1>5. Quietly(o, Settled(p, o.outcome))
  BY <1>1, <1>4, SettledIsQuiet
<1> QED  BY <1>5 DEF p

-----------------------------------------------------------------------------
(* The steps of an orchestration: quiet, winning, or counting. *)

MovesQuietly(c) == stats' = stats /\ \E n : Move(c, n) /\ Quietly(orch[c], n)
Wins(c) ==
  \E n, end : /\ Move(c, n) /\ CallFine(n) /\ n.result # "ok"
              /\ Counts(end) \/ ~Owes(n)
              /\ stats' = RecordDeliberation(stats, orch[c].specialty, end)
              /\ orch[c].specialty \in Specialties
Settles(c) ==
  \E n : /\ Move(c, n) /\ CallFine(n) /\ Owes(orch[c]) /\ ~Owes(n)
         /\ stats' = RecordOrchestration(stats)

LEMMA LookupMoves ==
  ASSUME TypeInv, CallOK, NEW c \in Callers, LookupCouncil(c)
  PROVE  MovesQuietly(c)
<1>1. CallFine(orch[c]) /\ orch[c].stage = "lookup" /\ stats' = stats
  BY DEF CallOK, LookupCouncil
<1>2. councils[orch[c].specialty] \in Rooms
  BY <1>1 DEF TypeInv, RegistryType, CallFine, Placed
<1>3. /\ Quietly(orch[c], Announcing(orch[c], "failed", "err"))
      /\ Quietly(orch[c], [orch[c] EXCEPT !.stage = "convene",
                                          !.seats = councils[orch[c].specialty]])
  BY <1>1, <1>2, LookupIsQuiet
<1> QED  BY <1>1, <1>3, Zenon DEF MovesQuietly, LookupCouncil

LEMMA DeliberateMoves ==
  ASSUME TypeInv, CallOK, NEW c \in Callers, Deliberate(c)
  PROVE  Wins(c)
<1>1. CallFine(orch[c]) /\ orch[c].stage = "convene" /\ orch[c].specialty \in Specialties
  BY DEF CallOK, Deliberate, CallFine, Placed
<1>2. PICK end \in Ends(orch[c].seats) :
        /\ stats' = RecordDeliberation(stats, orch[c].specialty, end)
        /\ Move(c, IF end = "won" THEN [orch[c] EXCEPT !.stage = "dispatch"]
                                  ELSE Announcing(orch[c], "failed", "err"))
  BY DEF Deliberate
<1>3. /\ Quietly(orch[c], Announcing(orch[c], "failed", "err"))
      /\ CallFine([orch[c] EXCEPT !.stage = "dispatch"])
      /\ [orch[c] EXCEPT !.stage = "dispatch"].result # "ok"
  BY <1>1, DeliberateIsFine
<1>4. CASE end = "won"
  <2>1. Counts(end) /\ Move(c, [orch[c] EXCEPT !.stage = "dispatch"])
    BY <1>2, <1>4 DEF Counts
  <2> QED  BY <1>1, <1>2, <1>3, <2>1, Zenon DEF Wins
<1>5. CASE end # "won"
  <2> DEFINE n == Announcing(orch[c], "failed", "err")
  <2>1. Move(c, n)
    BY <1>2, <1>5
  <2>2. n.stage = "announce" /\ n.result = "err"
    BY <1>1 DEF CallFine, Orchestrations, Announcing
  <2>3. CallFine(n)
    BY <1>3 DEF Quietly
  <2> HIDE DEF n
  <2>4. ~Owes(n) /\ n.result # "ok"
    BY <2>2 DEF Owes
  <2> QED  BY <1>1, <1>2, <2>1, <2>3, <2>4, Zenon DEF Wins
<1> QED  BY <1>4, <1>5

LEMMA DispatchedMoves ==
  ASSUME CallOK, NEW c \in Callers, PublishDispatched(c)
  PROVE  MovesQuietly(c)
<1>1. CallFine(orch[c]) /\ orch[c].stage = "dispatch" /\ stats' = stats
  BY DEF CallOK, PublishDispatched
<1>2. /\ Quietly(orch[c], [Faulted(orch[c], "bus") EXCEPT !.stage = "done", !.result = "err"])
      /\ Quietly(orch[c], [Published(orch[c], "dispatched") EXCEPT !.stage = "execute"])
  BY <1>1, DispatchIsQuiet
<1> QED  BY <1>1, <1>2, Zenon DEF MovesQuietly, PublishDispatched

LEMMA EndingMoves ==
  ASSUME CallOK, NEW c \in Callers, PublishEnding(c)
  PROVE  MovesQuietly(c)
<1>1. CallFine(orch[c]) /\ orch[c].stage = "announce" /\ stats' = stats
  BY DEF CallOK, PublishEnding
<1>2. /\ Quietly(orch[c], [Faulted(orch[c], "bus") EXCEPT !.stage = "done", !.result = "err"])
      /\ Quietly(orch[c], [Published(orch[c], orch[c].pending) EXCEPT !.stage = "done"])
  BY <1>1, EndingIsQuiet
<1> QED  BY <1>1, <1>2, Zenon DEF MovesQuietly, PublishEnding

LEMMA ExecuteMoves ==
  ASSUME CallOK, NEW c \in Callers, Execute(c)
  PROVE  MovesQuietly(c)
<1> DEFINE o == orch[c]
<1>1. CallFine(o) /\ o.stage = "execute" /\ stats' = stats
  BY DEF CallOK, Execute
<1>2. Working(o) /\ AskedAsMeant(o) /\ o.session # "ours" /\ Owes(o)
  BY <1>1, CallIsWorking DEF CallFine, SessionOK, Owes
<1>3. Quietly(o, [Faulted(o, "options") EXCEPT !.stage = "done", !.result = "err"])
  BY <1>1, OptionsFaultIsQuiet
<1>4. Quietly(o, Settled(o, "succeeded")) /\ Quietly(o, Settled(o, "error"))
  BY <1>2, SettledIsQuiet
<1>5. Request(o).session => Quietly(o, [o EXCEPT !.stage = "invoke", !.session = "theirs"])
  BY <1>1, TheirsIsQuiet
<1>6. ~Request(o).session =>
        Quietly(o, [Opening(o) EXCEPT !.stage = "invoke", !.session = "ours"])
  BY <1>1, OursIsQuiet
<1>7. Quietly(o, Settled(Opening(o), "error"))
  <2>1. Working(Opening(o)) /\ AskedAsMeant(Opening(o)) /\ Opening(o).session # "ours"
    BY <1>1, OpeningIsFine
  <2> QED  BY <1>2, <2>1, SettledIsQuiet
<1>8. \/ Move(c, [Faulted(o, "options") EXCEPT !.stage = "done", !.result = "err"])
      \/ Move(c, Settled(o, "succeeded"))
      \/ Move(c, Settled(o, "error"))
      \/ Request(o).session /\ Move(c, [o EXCEPT !.stage = "invoke", !.session = "theirs"])
      \/ /\ ~Request(o).session
         /\ Move(c, [Opening(o) EXCEPT !.stage = "invoke", !.session = "ours"])
      \/ Move(c, Settled(Opening(o), "error"))
  BY Zenon DEF Execute, Opening
<1> QED  BY <1>1, <1>3, <1>4, <1>5, <1>6, <1>7, <1>8, Zenon DEF MovesQuietly

LEMMA InvokeMoves ==
  ASSUME CallOK, NEW c \in Callers, InvokeTool(c)
  PROVE  MovesQuietly(c)
<1> DEFINE o == orch[c]
           p == Invoking(o)
<1>1. CallFine(o) /\ o.stage = "invoke" /\ stats' = stats
  BY DEF CallOK, InvokeTool
<1>2. Working(p) /\ AskedAsMeant(p) /\ p.session = o.session /\ Owes(o)
  BY <1>1, InvokingIsFine DEF Owes
<1>3. PICK status \in Statuses \cup {"call_failed"}, duration \in {-1, 1} :
        LET outcome == IF status = "call_failed" THEN "error"
                       ELSE ExecutionOutcome(status, duration)
        IN Move(c, IF p.session = "ours"
                   THEN [p EXCEPT !.stage = "close", !.outcome = outcome]
                   ELSE Settled(p, outcome))
  BY Zenon DEF InvokeTool, Invoking
<1> DEFINE outcome == IF status = "call_failed" THEN "error"
                      ELSE ExecutionOutcome(status, duration)
<1>4. outcome \in {"succeeded", "unsuccessful", "error"}
  BY DEF ExecutionOutcome
<1>5. Move(c, IF p.session = "ours" THEN [p EXCEPT !.stage = "close", !.outcome = outcome]
              ELSE Settled(p, outcome))
  BY <1>3
<1> HIDE DEF outcome
<1>6. CASE p.session = "ours"
  <2>1. Quietly(o, [p EXCEPT !.stage = "close", !.outcome = outcome])
    BY <1>1, <1>2, <1>4, <1>6, ClosingIsQuiet
  <2> QED  BY <1>1, <1>5, <1>6, <2>1, Zenon DEF MovesQuietly
<1>7. CASE p.session # "ours"
  <2>1. Quietly(o, Settled(p, outcome))
    BY <1>2, <1>4, <1>7, SettledIsQuiet
  <2> QED  BY <1>1, <1>5, <1>7, <2>1, Zenon DEF MovesQuietly
<1> QED  BY <1>6, <1>7

LEMMA CloseMoves ==
  ASSUME CallOK, NEW c \in Callers, CloseSession(c)
  PROVE  MovesQuietly(c)
<1> DEFINE o == orch[c]
<1>1. CallFine(o) /\ o.stage = "close" /\ stats' = stats
  BY DEF CallOK, CloseSession
<1>2. PICK closed \in {"closed", "close_failed"} :
        Move(c, Settled([o EXCEPT !.session = closed], o.outcome))
  BY Zenon DEF CloseSession
<1>3. Quietly(o, Settled([o EXCEPT !.session = closed], o.outcome))
  BY <1>1, ClosedIsQuiet
<1> QED  BY <1>1, <1>2, <1>3, Zenon DEF MovesQuietly

LEMMA RecordMoves ==
  ASSUME CallOK, NEW c \in Callers, RecordExecution(c)
  PROVE  MovesQuietly(c) \/ Settles(c)
<1> DEFINE o == orch[c]
           good == Announcing(o, IF o.outcome = "succeeded" THEN "completed" ELSE "failed", "ok")
           bad == [Faulted(o, "database") EXCEPT !.stage = "done", !.result = "err"]
<1>1. CallFine(o) /\ o.stage = "record" /\ Owes(o)
  BY DEF CallOK, RecordExecution, Owes
<1>2. Quietly(o, bad) /\ CallFine(good) /\ ~Owes(good)
  BY <1>1, RecordIsFine
<1>3. \/ Move(c, bad) /\ stats' = stats
      \/ Move(c, good) /\ stats' = RecordOrchestration(stats)
  BY Zenon DEF RecordExecution
<1> HIDE DEF o, good, bad
<1>4. CASE Move(c, bad) /\ stats' = stats
  BY <1>2, <1>4 DEF MovesQuietly, o
<1>5. CASE Move(c, good) /\ stats' = RecordOrchestration(stats)
  BY <1>1, <1>2, <1>5 DEF Settles, o
<1> QED  BY <1>3, <1>4, <1>5

LEMMA StepMoves ==
  ASSUME TypeInv, CallOK, NEW c \in Callers, OrchestrationStep(c)
  PROVE  MovesQuietly(c) \/ Wins(c) \/ Settles(c)
BY LookupMoves, DeliberateMoves, DispatchedMoves, ExecuteMoves, InvokeMoves, CloseMoves,
   RecordMoves, EndingMoves DEF OrchestrationStep

LEMMA OrchestrateMoves ==
  ASSUME CallOK, NEW c \in Callers, NEW sp \in Specialties, NEW call \in Calls,
         Orchestrate(c, sp, call)
  PROVE  stats' = stats /\ \E n : Move(c, n) /\ CallFine(n) /\ ~Owes(n) /\ n.result # "ok"
<1> DEFINE n == [Unasked EXCEPT !.stage = "lookup", !.specialty = sp, !.call = call]
<1>1. Quietly(Unasked, n)
  BY OrchestrateIsFine
<1>2. n.stage = "lookup" /\ n.result = "none" /\ Move(c, n) /\ stats' = stats
  BY DEF Unasked, Orchestrate
<1> HIDE DEF n
<1>3. CallFine(n) /\ ~Owes(n) /\ n.result # "ok"
  BY <1>1, <1>2 DEF Quietly, Owes
<1> QED  BY <1>2, <1>3

-----------------------------------------------------------------------------
(* A list without its repetitions is a list of the same specialties: every *)
(* set of positions has a k-th, for each k up to its size.                 *)

UpTo(P, i) == {j \in P : j <= i}
Numbered(P) == \A k \in 1..Cardinality(P) : \E i \in P : Cardinality(UpTo(P, i)) = k

LEMMA GrownNumbered ==
  ASSUME NEW m \in Nat, NEW P \in SUBSET (1..m), Numbered(P)
  PROVE  Numbered(P \cup {m + 1})
<1> DEFINE Q == P \cup {m + 1}
<1>1. IsFiniteSet(1..m)
  BY FS_Interval
<1>2. IsFiniteSet(P)
  BY <1>1, FS_Subset
<1>3. m + 1 \notin P
  OBVIOUS
<1>4. Cardinality(P) \in Nat /\ Cardinality(Q) = Cardinality(P) + 1
  BY <1>2, <1>3, FS_CardinalityType, FS_AddElement
<1>5. UpTo(Q, m + 1) = Q
  <2>1. \A j \in Q : j <= m + 1
    OBVIOUS
  <2> QED  BY <2>1, Zenon DEF UpTo
<1>6. \A i \in P : UpTo(Q, i) = UpTo(P, i)
  BY DEF UpTo
<1>7. ASSUME NEW k \in 1..Cardinality(Q) PROVE \E i \in Q : Cardinality(UpTo(Q, i)) = k
  <2>1. CASE k = Cardinality(Q)
    BY <1>5, <2>1
  <2>2. CASE k # Cardinality(Q)
    <3>1. k \in 1..Cardinality(P)
      BY <1>4, <2>2
    <3>2. PICK i \in P : Cardinality(UpTo(P, i)) = k
      BY <3>1 DEF Numbered
    <3> QED  BY <1>6, <3>2
  <2> QED  BY <2>1, <2>2
<1> QED  BY <1>7 DEF Numbered

LEMMA PositionsNumbered ==
  ASSUME NEW n \in Nat, NEW P \in SUBSET (1..n)
  PROVE  Numbered(P)
<1> DEFINE T == {m \in Nat : \E S \in SUBSET (1..m) : ~Numbered(S)}
<1> SUFFICES ASSUME T # {} PROVE FALSE
  OBVIOUS
<1>1. PICK m \in T : \A k \in T : ~(<<k, m>> \in OpToRel(<, Nat))
  <2>1. T \subseteq Nat
    OBVIOUS
  <2> QED  BY <2>1, NatLessThanWellFounded, WFMin, Zenon
<1>2. PICK S \in SUBSET (1..m) : ~Numbered(S)
  OBVIOUS
<1>3. \A k \in T : ~(k < m)
  BY <1>1 DEF OpToRel
<1>4. m # 0
  <2>1. SUFFICES ASSUME m = 0 PROVE FALSE
    OBVIOUS
  <2>2. S = {} /\ Cardinality({}) = 0
    BY <2>1, FS_EmptySet
  <2> QED  BY <1>2, <2>2 DEF Numbered
<1>5. m - 1 \in Nat /\ m - 1 < m /\ (m - 1) + 1 = m
  BY <1>4
<1>6. \A R \in SUBSET (1..(m - 1)) : Numbered(R)
  BY <1>3, <1>5
<1> DEFINE R == S \ {m}
<1>7. R \in SUBSET (1..(m - 1)) /\ (S = R \/ S = R \cup {m})
  OBVIOUS
<1>8. Numbered(R) /\ Numbered(R \cup {m})
  BY <1>5, <1>6, <1>7, GrownNumbered
<1> QED  BY <1>2, <1>7, <1>8

LEMMA UniqueIsAList ==
  ASSUME NEW list \in Seq(Specialties)
  PROVE  Unique(list) \in Seq(Specialties)
<1> DEFINE firsts == {i \in DOMAIN list : \A j \in 1..i-1 : list[j] # list[i]}
           nth(k) == CHOOSE i \in firsts : Cardinality({j \in firsts : j <= i}) = k
<1>1. Len(list) \in Nat /\ DOMAIN list = 1..Len(list) /\ \A i \in DOMAIN list : list[i] \in Specialties
  OBVIOUS
<1>2. firsts \in SUBSET (1..Len(list)) /\ firsts \subseteq DOMAIN list
  BY <1>1
<1>3. Unique(list) = [k \in 1..Cardinality(firsts) |-> list[nth(k)]]
  BY Zenon DEF Unique
<1> HIDE DEF firsts
<1>4. Cardinality(firsts) \in Nat
  <2>1. IsFiniteSet(1..Len(list))
    BY <1>1, FS_Interval
  <2>2. IsFiniteSet(firsts)
    BY <1>2, <2>1, FS_Subset
  <2> QED  BY <2>2, FS_CardinalityType
<1>5. Numbered(firsts)
  BY <1>1, <1>2, PositionsNumbered
<1>6. ASSUME NEW k \in 1..Cardinality(firsts) PROVE list[nth(k)] \in Specialties
  <2>1. \E i \in firsts : Cardinality({j \in firsts : j <= i}) = k
    BY <1>5 DEF Numbered, UpTo
  <2>2. nth(k) \in firsts
    BY <2>1
  <2> QED  BY <1>1, <1>2, <2>2
<1> HIDE DEF nth
<1> DEFINE u == [k \in 1..Cardinality(firsts) |-> list[nth(k)]]
<1>7. u \in [1..Cardinality(firsts) -> Specialties]
  BY <1>6
<1>8. u \in Seq(Specialties)
  BY <1>4, <1>7
<1> QED  BY <1>3, <1>8

-----------------------------------------------------------------------------
(* The registries. *)

LEMMA SeedingKeepsTypes ==
  ASSUME NEW registry \in [AgentIds -> Kinds], NEW rooms \in [Specialties -> Rooms]
  PROVE  LET seeded == ApplySeeding(registry, rooms)
         IN /\ seeded.agents \in [AgentIds -> Kinds]
            /\ seeded.councils \in [Specialties -> Rooms]
            /\ \A a \in AgentIds : registry[a] # None => seeded.agents[a] # None
            /\ \A sp \in Specialties :
                 \/ seeded.councils[sp] = rooms[sp]
                 \/ /\ seeded.councils[sp] = {SeedAgent(sp)}
                    /\ seeded.agents[SeedAgent(sp)] # None
<1> DEFINE fill(a) == IF a[2] = SeedSlot /\ a[1] \in Seeded THEN "noop" ELSE None
           room(sp) == IF sp \in Seeded THEN {SeedAgent(sp)} ELSE None
           A == [a \in AgentIds |->
                   IF registry[a] = None /\ fill(a) # None THEN fill(a) ELSE registry[a]]
           R == [sp \in Specialties |->
                   IF rooms[sp] = None /\ room(sp) # None THEN room(sp) ELSE rooms[sp]]
<1>1. ApplySeeding(registry, rooms) = [agents |-> A, councils |-> R]
  <2>1. DOMAIN registry = AgentIds /\ DOMAIN rooms = Specialties
    OBVIOUS
  <2> QED  BY <2>1 DEF ApplySeeding, Seed
<1>2. \A sp \in Specialties : SeedAgent(sp) \in AgentIds
  BY InstanceAssumption DEF SeedAgent, AgentIds, SeedSlot
<1>3. A \in [AgentIds -> Kinds]
  BY DEF Kinds
<1>4. R \in [Specialties -> Rooms]
  BY <1>2 DEF Rooms
<1>5. \A a \in AgentIds : registry[a] # None => A[a] # None
  OBVIOUS
<1>6. ASSUME NEW sp \in Specialties
      PROVE  R[sp] = rooms[sp] \/ (R[sp] = {SeedAgent(sp)} /\ A[SeedAgent(sp)] # None)
  <2>1. CASE sp \in Seeded
    <3>1. fill(SeedAgent(sp)) = "noop" /\ "noop" # None
      BY <2>1, AbsenceAssumption DEF SeedAgent
    <3>2. A[SeedAgent(sp)] # None
      BY <1>2, <3>1
    <3> QED  BY <2>1, <3>2
  <2>2. CASE sp \notin Seeded
    BY <2>2
  <2> QED  BY <2>1, <2>2
<1> QED  BY <1>1, <1>3, <1>4, <1>5, <1>6

LEMMA BootKeepsSeats ==
  ASSUME RegistryType, SeatsOK, DownOK, Boot
  PROVE  RegistryType' /\ SeatsOK'
<1>1. creating = None /\ creating' = creating
  BY DEF DownOK, Boot
<1>2. PICK made \in Starts :
        LET kept == made.ok /\ made.is.persistence = "postgres"
            seeded == ApplySeeding(IF kept THEN agents ELSE [a \in AgentIds |-> None],
                                   IF kept THEN councils ELSE [sp \in Specialties |-> None])
        IN IF ~made.ok THEN UNCHANGED <<mode, wiring, agents, councils, stats, vacated>>
           ELSE /\ wiring \in {None, made.is}
                /\ wiring' = made.is
                /\ mode' = "serving"
                /\ agents' = seeded.agents
                /\ councils' = seeded.councils
                /\ stats' = IF kept THEN stats ELSE NoCount
                /\ vacated' = {a \in vacated : seeded.agents[a] = None}
  BY DEF Boot
<1>3. CASE ~made.ok
  BY <1>1, <1>2, <1>3 DEF RegistryType, SeatsOK
<1>4. CASE made.ok
  <2> DEFINE kept == made.ok /\ made.is.persistence = "postgres"
             registry == IF kept THEN agents ELSE [a \in AgentIds |-> None]
             rooms == IF kept THEN councils ELSE [sp \in Specialties |-> None]
             seeded == ApplySeeding(registry, rooms)
  <2>1. /\ mode' = "serving" /\ agents' = seeded.agents /\ councils' = seeded.councils
        /\ vacated' = {a \in vacated : seeded.agents[a] = None}
    BY <1>2, <1>4
  <2>2. registry \in [AgentIds -> Kinds] /\ rooms \in [Specialties -> Rooms]
    BY DEF RegistryType, Kinds, Rooms
  <2>3. \A sp \in Specialties : rooms[sp] # None => Filled(registry, vacated, rooms[sp])
    BY DEF SeatsOK
  <2> HIDE DEF registry, rooms
  <2>4. /\ seeded.agents \in [AgentIds -> Kinds]
        /\ seeded.councils \in [Specialties -> Rooms]
        /\ \A a \in AgentIds : registry[a] # None => seeded.agents[a] # None
        /\ \A sp \in Specialties :
             \/ seeded.councils[sp] = rooms[sp]
             \/ /\ seeded.councils[sp] = {SeedAgent(sp)}
                /\ seeded.agents[SeedAgent(sp)] # None
    BY <2>2, SeedingKeepsTypes
  <2> HIDE DEF seeded
  <2>5. RegistryType'
    BY <1>1, <2>1, <2>4 DEF RegistryType
  <2>6. ASSUME NEW sp \in Specialties, councils'[sp] # None
        PROVE  Filled(agents', vacated', councils'[sp])
    <3>1. CASE seeded.councils[sp] = rooms[sp]
      <4>1. rooms[sp] # None /\ rooms[sp] \subseteq AgentIds
        BY <2>1, <2>2, <2>6, <3>1 DEF Rooms
      <4>2. Filled(registry, vacated, rooms[sp])
        BY <2>3, <4>1
      <4> QED  BY <2>1, <2>4, <3>1, <4>1, <4>2 DEF Filled
    <3>2. CASE /\ seeded.councils[sp] = {SeedAgent(sp)}
               /\ seeded.agents[SeedAgent(sp)] # None
      BY <2>1, <3>2 DEF Filled
    <3> QED  BY <2>4, <3>1, <3>2
  <2> QED  BY <1>1, <2>5, <2>6 DEF SeatsOK
<1> QED  BY <1>3, <1>4

LEMMA RegisterAgentKeepsSeats ==
  ASSUME RegistryType, SeatsOK, NEW a \in Newcomers, NEW d \in Descriptors, RegisterAgent(a, d)
  PROVE  RegistryType' /\ SeatsOK'
<1> DEFINE kind == Kept(Create(wiring.kinds, d))
<1>1. a \in AgentIds
  BY InstanceAssumption
<1>2. kind \in Kinds /\ kind # None
  BY AbsenceAssumption DEF RegisterAgent, Kept, Create, Kinds
<1>3. /\ agents' = [agents EXCEPT ![a] = kind] /\ vacated' = vacated \ {a}
      /\ UNCHANGED <<mode, councils, creating>>
  BY DEF RegisterAgent
<1> HIDE DEF kind
<1>4. RegistryType'
  BY <1>1, <1>2, <1>3 DEF RegistryType
<1>5. ASSUME NEW members \in SUBSET AgentIds, Filled(agents, vacated, members)
      PROVE  Filled(agents', vacated', members)
  BY <1>1, <1>2, <1>3, <1>5 DEF Filled, RegistryType
<1> QED  BY <1>3, <1>4, <1>5 DEF SeatsOK, RegistryType, Rooms

LEMMA UnregisterAgentKeepsSeats ==
  ASSUME RegistryType, SeatsOK, NEW a \in AgentIds, UnregisterAgent(a)
  PROVE  RegistryType' /\ SeatsOK'
<1>1. /\ agents' = [agents EXCEPT ![a] = None] /\ vacated' = vacated \cup {a}
      /\ UNCHANGED <<mode, councils, creating>>
  BY DEF UnregisterAgent
<1>2. RegistryType'
  BY <1>1 DEF RegistryType, Kinds
<1>3. ASSUME NEW members \in SUBSET AgentIds, Filled(agents, vacated, members)
      PROVE  Filled(agents', vacated', members)
  BY <1>1, <1>3 DEF Filled, RegistryType
<1> QED  BY <1>1, <1>2, <1>3 DEF SeatsOK, RegistryType, Rooms

LEMMA CreateCouncilKeepsSeats ==
  ASSUME RegistryType, SeatsOK, NEW sp \in Specialties, NEW n \in 1..Seats, CreateCouncil(sp, n)
  PROVE  RegistryType' /\ SeatsOK'
<1> DEFINE members == {MintedAgent(sp, i) : i \in 0..n-1}
<1>1. /\ creating' = [specialty |-> sp, members |-> members]
      /\ UNCHANGED <<mode, agents, councils, vacated>>
  BY DEF CreateCouncil
<1>2. members \subseteq AgentIds
  BY InstanceAssumption DEF MintedAgent, AgentIds, SeedSlot
<1>3. \A m \in members : agents[m] # None
  BY DEF CreateCouncil, Resolves
<1> HIDE DEF members
<1>4. RegistryType'
  BY <1>1, <1>2 DEF RegistryType
<1> QED  BY <1>1, <1>3, <1>4 DEF SeatsOK, Filled

LEMMA RegisterCouncilKeepsSeats ==
  ASSUME RegistryType, SeatsOK, RegisterCouncil
  PROVE  RegistryType' /\ SeatsOK'
<1>1. creating # None /\ creating' = None /\ UNCHANGED <<mode, agents, vacated>>
  BY DEF RegisterCouncil
<1>2. /\ creating.specialty \in Specialties /\ creating.members \in Rooms
      /\ Filled(agents, vacated, creating.members)
  BY <1>1 DEF RegistryType, SeatsOK, Rooms
<1>3. councils' = councils \/ councils' = [councils EXCEPT ![creating.specialty] = creating.members]
  BY DEF RegisterCouncil
<1> QED  BY <1>1, <1>2, <1>3 DEF RegistryType, SeatsOK

LEMMA DeleteCouncilKeepsSeats ==
  ASSUME RegistryType, SeatsOK, NEW sp \in Specialties, DeleteCouncil(sp)
  PROVE  RegistryType' /\ SeatsOK'
<1>1. councils' = [councils EXCEPT ![sp] = None] /\ UNCHANGED <<mode, agents, creating, vacated>>
  BY DEF DeleteCouncil
<1> QED  BY <1>1 DEF RegistryType, SeatsOK, Rooms

LEMMA CrashKeepsSeats ==
  ASSUME RegistryType, SeatsOK, Crash
  PROVE  RegistryType' /\ SeatsOK'
<1>1. mode' = "down" /\ creating' = None /\ UNCHANGED <<agents, councils, vacated>>
  BY DEF Crash
<1> QED  BY <1>1 DEF RegistryType, SeatsOK

LEMMA MoveKeepsRest ==
  ASSUME NEW c \in Callers, OrchestrationStep(c)
  PROVE  UNCHANGED <<mode, wiring, agents, councils, creating, wire, hand, answered, vacated,
                     sent>>
<1>1. ASSUME NEW n, Move(c, n)
      PROVE  UNCHANGED <<mode, wiring, agents, councils, creating, wire, hand, answered,
                         vacated, sent>>
  BY <1>1 DEF Move
<1>2. \E n : Move(c, n)
  <2>1. CASE LookupCouncil(c)
    BY <2>1, Zenon DEF LookupCouncil
  <2>2. CASE Deliberate(c)
    BY <2>2, Zenon DEF Deliberate
  <2>3. CASE PublishDispatched(c)
    BY <2>3, Zenon DEF PublishDispatched
  <2>4. CASE Execute(c)
    BY <2>4, Zenon DEF Execute
  <2>5. CASE InvokeTool(c)
    BY <2>5, Zenon DEF InvokeTool
  <2>6. CASE CloseSession(c)
    BY <2>6, Zenon DEF CloseSession
  <2>7. CASE RecordExecution(c)
    BY <2>7, Zenon DEF RecordExecution
  <2>8. CASE PublishEnding(c)
    BY <2>8, Zenon DEF PublishEnding
  <2> QED  BY <2>1, <2>2, <2>3, <2>4, <2>5, <2>6, <2>7, <2>8 DEF OrchestrationStep
<1> QED  BY <1>1, <1>2

LEMMA RegistriesStep ==
  ASSUME RegistryType, SeatsOK, DownOK, [Next]_vars
  PROVE  RegistryType' /\ SeatsOK'
<1> DEFINE Same == UNCHANGED <<agents, councils, creating, vacated>>
<1>1. ASSUME Same, mode' \in {mode, "down", "draining"}
      PROVE  RegistryType' /\ SeatsOK'
  BY <1>1 DEF RegistryType, SeatsOK
<1>2. CASE Boot
  BY <1>2, BootKeepsSeats
<1>3. CASE Signal
  BY <1>1, <1>3 DEF Signal
<1>4. CASE Stop
  BY <1>1, <1>4 DEF Stop
<1>5. CASE Crash
  BY <1>5, CrashKeepsSeats
<1>6. ASSUME NEW a \in Newcomers, NEW d \in Descriptors, RegisterAgent(a, d)
      PROVE  RegistryType' /\ SeatsOK'
  BY <1>6, RegisterAgentKeepsSeats
<1>7. ASSUME NEW a \in AgentIds, UnregisterAgent(a) PROVE RegistryType' /\ SeatsOK'
  BY <1>7, UnregisterAgentKeepsSeats
<1>8. ASSUME NEW sp \in Specialties, NEW n \in 1..Seats, CreateCouncil(sp, n)
      PROVE  RegistryType' /\ SeatsOK'
  BY <1>8, CreateCouncilKeepsSeats
<1>9. CASE RegisterCouncil
  BY <1>9, RegisterCouncilKeepsSeats
<1>10. ASSUME NEW sp \in Specialties, DeleteCouncil(sp) PROVE RegistryType' /\ SeatsOK'
  BY <1>10, DeleteCouncilKeepsSeats
<1>11. ASSUME NEW c \in Callers, NEW sp \in Specialties, NEW call \in Calls,
              Orchestrate(c, sp, call)
       PROVE  RegistryType' /\ SeatsOK'
  BY <1>1, <1>11 DEF Orchestrate, Move
<1>12. ASSUME NEW c \in Callers, OrchestrationStep(c) PROVE RegistryType' /\ SeatsOK'
  BY <1>1, <1>12, MoveKeepsRest
<1>13. ASSUME NEW t \in Triggers, SendTrigger(t) \/ ProcessTriggerEvent(t)
       PROVE  RegistryType' /\ SeatsOK'
  BY <1>1, <1>13 DEF SendTrigger, ProcessTriggerEvent
<1>14. CASE LoseTrigger \/ HandleMessage
  BY <1>1, <1>14 DEF LoseTrigger, HandleMessage
<1>15. ASSUME NEW w \in Dispatchers, DispatchStep(w) PROVE RegistryType' /\ SeatsOK'
  BY <1>1, <1>15 DEF DispatchStep, DispatchLookup, DispatchDeliberate, DispatchReturns
<1>16. CASE UNCHANGED vars
  BY <1>1, <1>16 DEF vars
<1> QED
  BY <1>2, <1>3, <1>4, <1>5, <1>6, <1>7, <1>8, <1>9, <1>10, <1>11, <1>12, <1>13, <1>14,
     <1>15, <1>16 DEF Next

-----------------------------------------------------------------------------
(* The calls, and a process that is down. *)

LEMMA MoveKeepsCalls ==
  ASSUME CallOK, orch \in [Callers -> Orchestrations], NEW c \in Callers, NEW n, CallFine(n),
         Move(c, n)
  PROVE  CallOK' /\ orch' \in [Callers -> Orchestrations]
<1>1. orch' = [orch EXCEPT ![c] = n] /\ n \in Orchestrations
  BY DEF Move, CallFine
<1>2. ASSUME NEW d \in Callers PROVE CallFine(orch'[d])
  <2>1. orch'[d] = n \/ orch'[d] = orch[d]
    BY <1>1
  <2> QED  BY <2>1 DEF CallOK
<1>3. \A d \in Callers : CallFine(orch'[d])
  BY <1>2
<1> QED  BY <1>1, <1>3 DEF CallOK

LEMMA CallsStep ==
  ASSUME TypeInv, CallOK, [Next]_vars
  PROVE  CallOK' /\ orch' \in [Callers -> Orchestrations]
<1>1. ASSUME orch' = orch PROVE CallOK' /\ orch' \in [Callers -> Orchestrations]
  BY <1>1 DEF CallOK, TypeInv
<1>2. CASE Crash
  <2>1. orch' = [c \in Callers |-> IF Busy(c) THEN Gone ELSE orch[c]]
    BY <1>2 DEF Crash
  <2>2. ASSUME NEW c \in Callers PROVE CallFine(orch'[c])
    BY <2>1, GoneIsFine DEF CallOK
  <2>3. \A c \in Callers : CallFine(orch'[c])
    BY <2>2
  <2>4. orch' \in [Callers -> Orchestrations]
    BY <2>1, GoneIsFine DEF CallOK, CallFine
  <2> QED  BY <2>3, <2>4 DEF CallOK
<1>3. ASSUME NEW c \in Callers, NEW sp \in Specialties, NEW call \in Calls,
             Orchestrate(c, sp, call)
      PROVE  CallOK' /\ orch' \in [Callers -> Orchestrations]
  <2>1. PICK n : Move(c, n) /\ CallFine(n)
    BY <1>3, OrchestrateMoves
  <2> QED  BY <2>1, MoveKeepsCalls DEF TypeInv
<1>4. ASSUME NEW c \in Callers, OrchestrationStep(c)
      PROVE  CallOK' /\ orch' \in [Callers -> Orchestrations]
  <2>1. PICK n : Move(c, n) /\ CallFine(n)
    BY <1>4, StepMoves, Zenon DEF MovesQuietly, Wins, Settles, Quietly
  <2> QED  BY <2>1, MoveKeepsCalls DEF TypeInv
<1>5. CASE Boot \/ Signal \/ Stop \/ RegisterCouncil \/ LoseTrigger \/ HandleMessage
  BY <1>1, <1>5 DEF Boot, Signal, Stop, RegisterCouncil, LoseTrigger, HandleMessage
<1>6. CASE \/ \E a \in Newcomers, d \in Descriptors : RegisterAgent(a, d)
           \/ \E a \in AgentIds : UnregisterAgent(a)
           \/ \E sp \in Specialties, n \in 1..Seats : CreateCouncil(sp, n)
           \/ \E sp \in Specialties : DeleteCouncil(sp)
  BY <1>1, <1>6 DEF RegisterAgent, UnregisterAgent, CreateCouncil, DeleteCouncil
<1>7. CASE \/ \E t \in Triggers : SendTrigger(t) \/ ProcessTriggerEvent(t)
           \/ \E w \in Dispatchers : DispatchStep(w)
  BY <1>1, <1>7 DEF SendTrigger, ProcessTriggerEvent, DispatchStep, DispatchLookup,
                    DispatchDeliberate, DispatchReturns
<1>8. CASE UNCHANGED vars
  BY <1>1, <1>8 DEF vars
<1> QED
  BY <1>2, <1>3, <1>4, <1>5, <1>6, <1>7, <1>8 DEF Next

LEMMA StepIsBusy ==
  ASSUME NEW c \in Callers, OrchestrationStep(c)
  PROVE  Busy(c)
BY DEF Busy, OrchestrationStep, LookupCouncil, Deliberate, PublishDispatched, Execute,
       InvokeTool, CloseSession, RecordExecution, PublishEnding

LEMMA DownStep ==
  ASSUME TypeInv, CallOK, DownOK, [Next]_vars
  PROVE  DownOK'
<1>1. ASSUME UNCHANGED <<mode, wiring, orch>>, creating' \in {creating, None} PROVE DownOK'
  BY <1>1 DEF DownOK, Busy, Fine
<1>2. ASSUME mode \in {"serving", "draining"}, wiring' = wiring, mode' = mode PROVE DownOK'
  BY <1>2 DEF DownOK
<1>3. CASE Boot
  <2>1. PICK made \in Starts :
          IF ~made.ok THEN UNCHANGED <<mode, wiring, agents, councils, stats, vacated>>
          ELSE wiring' = made.is /\ mode' = "serving"
    BY <1>3 DEF Boot
  <2>2. UNCHANGED <<creating, orch>>
    BY <1>3 DEF Boot
  <2>3. CASE ~made.ok
    BY <1>1, <2>1, <2>2, <2>3
  <2>4. CASE made.ok
    <3>1. made.is # None
      BY <2>4, AbsenceAssumption
    <3> QED  BY <2>1, <2>4, <3>1 DEF DownOK
  <2> QED  BY <2>3, <2>4
<1>4. CASE Signal
  BY <1>4 DEF Signal, DownOK
<1>5. CASE Stop
  BY <1>5 DEF Stop, DownOK, Busy
<1>6. CASE Crash
  <2>1. /\ mode # "down" /\ mode' = "down" /\ creating' = None /\ wiring' = wiring
        /\ orch' = [c \in Callers |-> IF Busy(c) THEN Gone ELSE orch[c]]
    BY <1>6 DEF Crash
  <2>2. Gone.stage = "cut"
    BY DEF Gone, Unasked
  <2>3. \A c \in Callers : orch'[c].stage \in {"idle", "done", "cut"}
    BY <2>1, <2>2 DEF Busy
  <2> QED  BY <2>1, <2>3 DEF DownOK, Busy
<1>7. ASSUME NEW c \in Callers, NEW sp \in Specialties, NEW call \in Calls,
             Orchestrate(c, sp, call)
      PROVE  DownOK'
  BY <1>2, <1>7 DEF Orchestrate, Move
<1>8. ASSUME NEW c \in Callers, OrchestrationStep(c) PROVE DownOK'
  <2>1. mode # "down"
    BY <1>8, StepIsBusy DEF DownOK
  <2> QED  BY <1>2, <1>8, <2>1, MoveKeepsRest DEF TypeInv, RegistryType
<1>9. CASE \/ \E a \in Newcomers, d \in Descriptors : RegisterAgent(a, d)
           \/ \E a \in AgentIds : UnregisterAgent(a)
           \/ \E sp \in Specialties, n \in 1..Seats : CreateCouncil(sp, n)
           \/ \E sp \in Specialties : DeleteCouncil(sp)
  BY <1>2, <1>9 DEF RegisterAgent, UnregisterAgent, CreateCouncil, DeleteCouncil
<1>10. CASE RegisterCouncil
  BY <1>1, <1>10 DEF RegisterCouncil
<1>11. CASE \/ \E t \in Triggers : SendTrigger(t) \/ ProcessTriggerEvent(t)
            \/ LoseTrigger \/ HandleMessage
            \/ \E w \in Dispatchers : DispatchStep(w)
  BY <1>1, <1>11 DEF SendTrigger, ProcessTriggerEvent, LoseTrigger, HandleMessage,
                     DispatchStep, DispatchLookup, DispatchDeliberate, DispatchReturns
<1>12. CASE UNCHANGED vars
  BY <1>1, <1>12 DEF vars
<1> QED
  BY <1>3, <1>4, <1>5, <1>6, <1>7, <1>8, <1>9, <1>10, <1>11, <1>12 DEF Next

-----------------------------------------------------------------------------
(* Triggers, counted where they are. *)

LEMMA PlacesFinite ==
  ASSUME NEW S, NEW s \in Seq(S), NEW T
  PROVE  IsFiniteSet(Places(s, T)) /\ Cardinality(Places(s, T)) \in Nat
<1>1. Len(s) \in Nat /\ DOMAIN s = 1..Len(s)
  OBVIOUS
<1>2. IsFiniteSet(1..Len(s))
  BY <1>1, FS_Interval
<1>3. Places(s, T) \in SUBSET (1..Len(s))
  BY <1>1 DEF Places
<1>4. IsFiniteSet(Places(s, T))
  BY <1>2, <1>3, FS_Subset
<1> QED  BY <1>4, FS_CardinalityType

LEMMA PlacesAppend ==
  ASSUME NEW S, NEW s \in Seq(S), NEW e \in S, NEW T
  PROVE  Cardinality(Places(Append(s, e), T))
           = Cardinality(Places(s, T)) + (IF e \in T THEN 1 ELSE 0)
<1> DEFINE P == Places(s, T)
           Q == Places(Append(s, e), T)
           n == Len(s) + 1
<1>1. /\ DOMAIN s = 1..Len(s) /\ DOMAIN Append(s, e) = 1..n /\ Len(s) \in Nat
      /\ \A i \in 1..Len(s) : Append(s, e)[i] = s[i]
  OBVIOUS
<1>2. Append(s, e)[n] = e
  OBVIOUS
<1>3. IsFiniteSet(P) /\ Cardinality(P) \in Nat
  BY PlacesFinite
<1>4. n \notin P
  BY <1>1 DEF Places
<1>5. CASE e \in T
  <2>1. Q = P \cup {n}
    BY <1>1, <1>2, <1>5 DEF Places
  <2> HIDE DEF P, Q, n
  <2>2. Cardinality(Q) = Cardinality(P) + 1
    BY <1>3, <1>4, <2>1, FS_AddElement
  <2> QED  BY <1>5, <2>2 DEF P, Q
<1>6. CASE e \notin T
  <2>1. Q = P
    BY <1>1, <1>2, <1>6 DEF Places
  <2> QED  BY <1>3, <1>6, <2>1
<1> QED  BY <1>5, <1>6

LEMMA PlacesTail ==
  ASSUME NEW S, NEW s \in Seq(S), s # <<>>, NEW T
  PROVE  Cardinality(Places(Tail(s), T)) + (IF Head(s) \in T THEN 1 ELSE 0)
           <= Cardinality(Places(s, T))
<1> DEFINE P == Places(Tail(s), T)
           Q == Places(s, T)
           R == Q \ {1}
           f == [i \in P |-> i + 1]
<1>1. /\ DOMAIN s = 1..Len(s) /\ Len(s) \in Nat /\ Len(s) >= 1 /\ Head(s) = s[1]
      /\ Tail(s) \in Seq(S)
  OBVIOUS
<1>2. DOMAIN Tail(s) = 1..(Len(s) - 1) /\ \A i \in 1..(Len(s) - 1) : Tail(s)[i] = s[i + 1]
  OBVIOUS
<1>3. IsFiniteSet(Q) /\ Cardinality(Q) \in Nat /\ Cardinality(P) \in Nat
  BY <1>1, PlacesFinite
<1>4. IsFiniteSet(R) /\ Cardinality(R) = IF 1 \in Q THEN Cardinality(Q) - 1 ELSE Cardinality(Q)
  BY <1>3, FS_RemoveElement
<1>5. \A i \in P : i \in Nat /\ i >= 1 /\ i + 1 \in R
  BY <1>1, <1>2 DEF Places
<1>6. f \in Injection(P, R)
  <2>1. f \in [P -> R]
    BY <1>5
  <2>2. \A i, j \in P : f[i] = f[j] => i = j
    BY <1>5
  <2> QED  BY <2>1, <2>2 DEF Injection, IsInjective
<1>7. (1 \in Q) <=> (Head(s) \in T)
  BY <1>1 DEF Places
<1> HIDE DEF P, Q, R, f
<1>8. Cardinality(P) <= Cardinality(R)
  BY <1>4, <1>6, FS_Injection
<1>9. Cardinality(P) + (IF Head(s) \in T THEN 1 ELSE 0) <= Cardinality(Q)
  BY <1>3, <1>4, <1>7, <1>8
<1> QED  BY <1>9 DEF P, Q

LEMMA PlacesEmpty ==
  ASSUME NEW T
  PROVE  Cardinality(Places(<<>>, T)) = 0
<1>1. Places(<<>>, T) = {}
  BY DEF Places
<1> QED  BY <1>1, FS_EmptySet

-----------------------------------------------------------------------------
(* What a dispatcher has in hand. *)

LEMMA InHandIsFine ==
  ASSUME NEW w, NEW t \in Triggers, Asked(w, t) \in Seq(Specialties)
  PROVE  /\ InHand(t, Asked(w, t)) \in Hands
         /\ HandFine(w, InHand(t, Asked(w, t)))
         /\ InHand(t, Asked(w, t)).trigger = t
<1> DEFINE list == Asked(w, t)
           h == InHand(t, list)
<1>1. list \in Seq(Specialties) /\ Len(list) \in Nat /\ <<>> \in Results /\ Len(<<>>) = 0
  BY DEF Results
<1> HIDE DEF list
<1>2. h \in Hands
  BY <1>1 DEF InHand, Hands, Rooms
<1>3. h.trigger = t /\ h.list = list /\ h.results = <<>>
  BY DEF InHand
<1> HIDE DEF h
<1>4. HandFine(w, h)
  BY <1>1, <1>3 DEF HandFine, list
<1> QED  BY <1>2, <1>3, <1>4 DEF h, list

AnswerOf(h, success) ==
  [h EXCEPT !.seats = None, !.results = Append(@, <<h.list[Position(h)], success>>)]
AnsweredFor(w, h, n) == n \in Hands /\ HandFine(w, n) /\ n.trigger = h.trigger

LEMMA AnswerIsFine ==
  ASSUME NEW w, NEW h \in Hands, h # None, HandFine(w, h), Position(h) <= Len(h.list),
         NEW success \in BOOLEAN
  PROVE  AnsweredFor(w, h, AnswerOf(h, success)) /\ h.list[Position(h)] \in Specialties
<1> DEFINE r == h.results
           e == <<h.list[Position(h)], success>>
           n == AnswerOf(h, success)
<1>1. /\ r \in Results /\ Len(r) \in Nat /\ h.list \in Seq(Specialties) /\ Len(h.list) \in Nat
      /\ Position(h) = Len(r) + 1
  BY DEF Hands, Results, Position
<1>2. h.list[Position(h)] \in Specialties
  BY <1>1
<1>3. e \in Specialties \X BOOLEAN /\ e[1] = h.list[Len(r) + 1]
  BY <1>1, <1>2
<1> HIDE DEF e
<1>4. /\ Append(r, e) \in Results /\ Len(Append(r, e)) = Len(r) + 1
      /\ \A k \in 1..Len(r) : Append(r, e)[k] = r[k]
  BY <1>1, <1>3 DEF Results
<1>5. Append(r, e)[Len(r) + 1] = e
  BY <1>1, <1>3 DEF Results
<1>6. n \in Hands
  BY <1>4 DEF AnswerOf, Hands, Rooms, e
<1>7. n.trigger = h.trigger /\ n.list = h.list /\ n.results = Append(r, e)
  BY DEF AnswerOf, Hands, e
<1> HIDE DEF n
<1>8. ASSUME NEW k \in 1..Len(n.results) PROVE n.results[k][1] = n.list[k]
  <2>1. CASE k = Len(r) + 1
    BY <1>3, <1>5, <1>7, <2>1
  <2>2. CASE k # Len(r) + 1
    <3>1. k \in 1..Len(r)
      BY <1>1, <1>4, <1>7, <2>2
    <3>2. r[k][1] = h.list[k]
      BY <3>1 DEF HandFine
    <3> QED  BY <1>4, <1>7, <3>1, <3>2
  <2> QED  BY <2>1, <2>2
<1>9. Len(n.results) <= Len(n.list)
  BY <1>1, <1>4, <1>7
<1>10. n.list = Asked(w, n.trigger)
  BY <1>7 DEF HandFine
<1>11. AnsweredFor(w, h, n)
  BY <1>6, <1>7, <1>8, <1>9, <1>10 DEF AnsweredFor, HandFine
<1> QED  BY <1>2, <1>11 DEF n

LEMMA SeatedIsFine ==
  ASSUME NEW w, NEW h \in Hands, h # None, HandFine(w, h), NEW room \in Rooms
  PROVE  AnsweredFor(w, h, [h EXCEPT !.seats = room])
<1> DEFINE n == [h EXCEPT !.seats = room]
<1>1. /\ n \in Hands /\ n.trigger = h.trigger /\ n.list = h.list /\ n.results = h.results
  BY DEF Hands
<1> HIDE DEF n
<1>2. AnsweredFor(w, h, n)
  BY <1>1 DEF AnsweredFor, HandFine
<1> QED  BY <1>2 DEF n

LEMMA ReturnedInFull ==
  ASSUME NEW w \in Dispatchers, NEW h \in Hands, h # None, HandFine(w, h),
         ~(Position(h) <= Len(h.list)),
         NEW e, e = [trigger |-> h.trigger, by |-> w, results |-> h.results,
                     accepted |-> Accepted(h.results)]
  PROVE  e \in Answers /\ InFull(e) /\ e.trigger = h.trigger
<1>1. /\ h.results \in Results /\ h.list \in Seq(Specialties)
      /\ Len(h.results) \in Nat /\ Len(h.list) \in Nat
      /\ DOMAIN h.results = 1..Len(h.results) /\ DOMAIN h.list = 1..Len(h.list)
  BY DEF Hands, Results
<1>2. Len(h.results) = Len(h.list)
  BY <1>1 DEF HandFine, Position
<1>3. Accepted(h.results) \in BOOLEAN
  BY DEF Accepted
<1>4. e \in Answers
  BY <1>1, <1>3 DEF Answers, Hands
<1>5. e.results = h.results /\ e.by = w /\ e.trigger = h.trigger
      /\ e.accepted = Accepted(h.results)
  OBVIOUS
<1>6. [k \in DOMAIN h.results |-> h.results[k][1]] = h.list
  <2>1. \A k \in 1..Len(h.list) : h.results[k][1] = h.list[k]
    BY <1>2 DEF HandFine
  <2>2. h.list = [k \in 1..Len(h.list) |-> h.list[k]]
    BY <1>1
  <2> QED  BY <1>1, <1>2, <2>1, <2>2
<1>7. InFull(e)
  BY <1>5, <1>6 DEF InFull, Accepted, HandFine
<1> QED  BY <1>4, <1>5, <1>7

-----------------------------------------------------------------------------
(* The steps of the triggers. *)

QueueInv == QueueType /\ HandOK /\ AnsweredOK /\ SentFirst

LEMMA HeldIsOneAtMost == \A hands, w, t : Held(hands, w, t) \in {0, 1}
BY DEF Held

LEMMA TalliesAreNumbers ==
  ASSUME QueueType, NEW t
  PROVE  /\ Cardinality(Places(answered, About(t))) \in Nat
         /\ Cardinality(Places(wire, {t})) \in Nat
         /\ Cardinality(Places(sent, {t})) \in Nat
BY PlacesFinite DEF QueueType

(* Nothing new is in hand: what a hand holds it held before, or nothing. *)
LEMMA HandsOnlyLose ==
  ASSUME QueueInv, UNCHANGED <<sent, answered>>,
         hand' \in [Dispatchers -> Hands \cup {None}],
         \A w \in Dispatchers :
           HandFine(w, hand'[w]) /\ (hand'[w] # None => hand[w] # None /\ hand'[w].trigger = hand[w].trigger),
         wire' \in Seq(Triggers),
         \A t \in Triggers : Cardinality(Places(wire', {t})) <= Cardinality(Places(wire, {t}))
  PROVE  QueueInv'
<1>1. QueueType' /\ HandOK' /\ AnsweredOK'
  BY DEF QueueInv, QueueType, HandOK, AnsweredOK
<1>2. ASSUME NEW t \in Triggers
      PROVE  Cardinality(Places(answered', About(t))) + Held(hand', "nats", t)
               + Held(hand', "grpc", t) + Cardinality(Places(wire', {t}))
             <= Cardinality(Places(sent', {t}))
  <2>1. Held(hand', "nats", t) <= Held(hand, "nats", t)
        /\ Held(hand', "grpc", t) <= Held(hand, "grpc", t)
    BY DEF Held, Dispatchers
  <2>2. Cardinality(Places(wire', {t})) <= Cardinality(Places(wire, {t}))
    OBVIOUS
  <2>3. Cardinality(Places(answered, About(t))) + Held(hand, "nats", t)
          + Held(hand, "grpc", t) + Cardinality(Places(wire, {t}))
        <= Cardinality(Places(sent, {t}))
    BY DEF QueueInv, SentFirst
  <2>4. /\ Cardinality(Places(answered, About(t))) \in Nat
        /\ Cardinality(Places(wire, {t})) \in Nat /\ Cardinality(Places(sent, {t})) \in Nat
        /\ Cardinality(Places(wire', {t})) \in Nat
    BY TalliesAreNumbers, PlacesFinite DEF QueueInv
  <2>5. /\ Held(hand, "nats", t) \in {0, 1} /\ Held(hand, "grpc", t) \in {0, 1}
        /\ Held(hand', "nats", t) \in {0, 1} /\ Held(hand', "grpc", t) \in {0, 1}
    BY HeldIsOneAtMost
  <2>6. answered' = answered /\ sent' = sent
    OBVIOUS
  <2> QED  BY <2>1, <2>2, <2>3, <2>4, <2>5, <2>6
<1>3. SentFirst'
  BY <1>2 DEF SentFirst
<1> QED  BY <1>1, <1>3 DEF QueueInv

LEMMA AnsweringKeepsQueues ==
  ASSUME QueueInv, UNCHANGED <<sent, answered, wire>>, NEW w \in Dispatchers, hand[w] # None,
         NEW n, AnsweredFor(w, hand[w], n), hand' = [hand EXCEPT ![w] = n]
  PROVE  QueueInv'
<1>1. hand' \in [Dispatchers -> Hands \cup {None}]
  BY DEF QueueInv, QueueType, AnsweredFor
<1>2. ASSUME NEW v \in Dispatchers
      PROVE  /\ HandFine(v, hand'[v])
             /\ hand'[v] # None => hand[v] # None /\ hand'[v].trigger = hand[v].trigger
  <2>1. CASE v = w
    BY <2>1 DEF QueueInv, QueueType, AnsweredFor
  <2>2. CASE v # w
    BY <2>2 DEF QueueInv, QueueType, HandOK
  <2> QED  BY <2>1, <2>2
<1>3. wire' \in Seq(Triggers)
      /\ \A t \in Triggers : Cardinality(Places(wire', {t})) <= Cardinality(Places(wire, {t}))
  <2>1. \A t \in Triggers : Cardinality(Places(wire, {t})) \in Nat
    BY TalliesAreNumbers DEF QueueInv
  <2> QED  BY <2>1 DEF QueueInv, QueueType
<1> QED  BY <1>1, <1>2, <1>3, HandsOnlyLose

LEMMA DispatchLookupKeepsQueues ==
  ASSUME QueueInv, RegistryType, NEW w \in Dispatchers, DispatchLookup(w)
  PROVE  QueueInv'
<1> DEFINE h == hand[w]
           sp == h.list[Position(h)]
<1>1. h \in Hands /\ h # None /\ HandFine(w, h) /\ Position(h) <= Len(h.list)
  BY DEF QueueInv, QueueType, HandOK, DispatchLookup, Underway
<1>2. AnsweredFor(w, h, AnswerOf(h, FALSE)) /\ sp \in Specialties
  BY <1>1, AnswerIsFine
<1>3. councils[sp] \in Rooms
  BY <1>2 DEF RegistryType
<1>4. AnsweredFor(w, h, [h EXCEPT !.seats = councils[sp]])
  BY <1>1, <1>3, SeatedIsFine
<1>5. UNCHANGED <<sent, answered, wire>>
  BY DEF DispatchLookup
<1>6. \/ hand' = [hand EXCEPT ![w] = AnswerOf(h, FALSE)]
      \/ hand' = [hand EXCEPT ![w] = [h EXCEPT !.seats = councils[sp]]]
  BY DEF DispatchLookup, Answer, AnswerOf
<1> QED  BY <1>1, <1>2, <1>4, <1>5, <1>6, AnsweringKeepsQueues

LEMMA DispatchDeliberateKeepsQueues ==
  ASSUME QueueInv, NEW w \in Dispatchers, DispatchDeliberate(w)
  PROVE  QueueInv'
<1> DEFINE h == hand[w]
<1>1. h \in Hands /\ h # None /\ HandFine(w, h) /\ Position(h) <= Len(h.list)
  BY DEF QueueInv, QueueType, HandOK, DispatchDeliberate, Underway
<1>2. PICK end : Answer(w, end = "won")
  BY Zenon DEF DispatchDeliberate
<1> DEFINE success == end = "won"
<1>3. success \in BOOLEAN
  OBVIOUS
<1>4. hand' = [hand EXCEPT ![w] = AnswerOf(h, success)]
  BY <1>2 DEF Answer, AnswerOf
<1> HIDE DEF success
<1>5. AnsweredFor(w, h, AnswerOf(h, success))
  BY <1>1, <1>3, AnswerIsFine
<1>6. UNCHANGED <<sent, answered, wire>>
  BY DEF DispatchDeliberate
<1> QED  BY <1>1, <1>4, <1>5, <1>6, AnsweringKeepsQueues

LEMMA DispatchReturnsKeepsQueues ==
  ASSUME QueueInv, NEW w \in Dispatchers, DispatchReturns(w)
  PROVE  QueueInv'
<1> DEFINE h == hand[w]
           e == [trigger |-> h.trigger, by |-> w, results |-> h.results,
                 accepted |-> Accepted(h.results)]
<1>1. h \in Hands /\ h # None /\ HandFine(w, h) /\ ~(Position(h) <= Len(h.list))
  BY DEF QueueInv, QueueType, HandOK, DispatchReturns, Underway
<1>2. e \in Answers /\ InFull(e) /\ e.trigger = h.trigger
  BY <1>1, ReturnedInFull
<1>3. /\ answered' = Append(answered, e) /\ hand' = [hand EXCEPT ![w] = None]
      /\ UNCHANGED <<wire, sent>>
  BY DEF DispatchReturns
<1> HIDE DEF e
<1>4. QueueType'
  BY <1>2, <1>3 DEF QueueInv, QueueType
<1>5. HandOK'
  <2>1. ASSUME NEW v \in Dispatchers PROVE HandFine(v, hand'[v])
    BY <1>3 DEF QueueInv, QueueType, HandOK, HandFine
  <2> QED  BY <2>1 DEF HandOK
<1>6. AnsweredOK'
  <2>1. ASSUME NEW i \in DOMAIN answered' PROVE InFull(answered'[i])
    <3>1. answered \in Seq(Answers)
      BY DEF QueueInv, QueueType
    <3>2. answered'[i] = e \/ (i \in DOMAIN answered /\ answered'[i] = answered[i])
      BY <1>2, <1>3, <2>1, <3>1
    <3> QED  BY <1>2, <3>2 DEF QueueInv, AnsweredOK
  <2> QED  BY <2>1 DEF AnsweredOK
<1>7. ASSUME NEW t \in Triggers
      PROVE  Cardinality(Places(answered', About(t))) + Held(hand', "nats", t)
               + Held(hand', "grpc", t) + Cardinality(Places(wire', {t}))
             <= Cardinality(Places(sent', {t}))
  <2> DEFINE one == IF e \in About(t) THEN 1 ELSE 0
  <2>1. Cardinality(Places(answered', About(t))) = Cardinality(Places(answered, About(t))) + one
    BY <1>2, <1>3, PlacesAppend DEF QueueInv, QueueType
  <2>2. one = Held(hand, w, t)
    BY <1>1, <1>2 DEF About, Held
  <2>3. Held(hand', w, t) = 0 /\ \A v \in Dispatchers : v # w => Held(hand', v, t) = Held(hand, v, t)
    BY <1>3 DEF Held, QueueInv, QueueType
  <2>4. Cardinality(Places(answered, About(t))) + Held(hand, "nats", t)
          + Held(hand, "grpc", t) + Cardinality(Places(wire, {t}))
        <= Cardinality(Places(sent, {t}))
    BY DEF QueueInv, SentFirst
  <2>5. /\ Cardinality(Places(answered, About(t))) \in Nat
        /\ Cardinality(Places(wire, {t})) \in Nat /\ Cardinality(Places(sent, {t})) \in Nat
    BY TalliesAreNumbers DEF QueueInv
  <2>6. /\ Held(hand, "nats", t) \in {0, 1} /\ Held(hand, "grpc", t) \in {0, 1}
    BY HeldIsOneAtMost
  <2>7. wire' = wire /\ sent' = sent
    BY <1>3
  <2> HIDE DEF one
  <2>8. CASE w = "nats"
    BY <2>1, <2>2, <2>3, <2>4, <2>5, <2>6, <2>7, <2>8 DEF Dispatchers
  <2>9. CASE w = "grpc"
    BY <2>1, <2>2, <2>3, <2>4, <2>5, <2>6, <2>7, <2>9 DEF Dispatchers
  <2> QED  BY <2>8, <2>9 DEF Dispatchers
<1> QED  BY <1>4, <1>5, <1>6, <1>7 DEF QueueInv, SentFirst

LEMMA TailShrinks ==
  ASSUME QueueInv, wire # <<>>
  PROVE  /\ Tail(wire) \in Seq(Triggers) /\ Head(wire) \in Triggers
         /\ \A t \in Triggers : Cardinality(Places(Tail(wire), {t})) \in Nat
         /\ \A t \in Triggers :
              Cardinality(Places(Tail(wire), {t})) + (IF Head(wire) = t THEN 1 ELSE 0)
                <= Cardinality(Places(wire, {t}))
<1>1. wire \in Seq(Triggers)
  BY DEF QueueInv, QueueType
<1>2. Tail(wire) \in Seq(Triggers) /\ Head(wire) \in Triggers
  BY <1>1
<1>3. ASSUME NEW t \in Triggers
      PROVE  /\ Cardinality(Places(Tail(wire), {t})) \in Nat
             /\ Cardinality(Places(Tail(wire), {t})) + (IF Head(wire) = t THEN 1 ELSE 0)
                  <= Cardinality(Places(wire, {t}))
  <2>1. Cardinality(Places(Tail(wire), {t})) \in Nat
    BY <1>2, PlacesFinite
  <2>2. Cardinality(Places(Tail(wire), {t})) + (IF Head(wire) \in {t} THEN 1 ELSE 0)
          <= Cardinality(Places(wire, {t}))
    BY <1>1, PlacesTail
  <2> QED  BY <2>1, <2>2
<1> QED  BY <1>2, <1>3

LEMMA LoseKeepsQueues ==
  ASSUME QueueInv, LoseTrigger
  PROVE  QueueInv'
<1>1. wire # <<>> /\ wire' = Tail(wire) /\ UNCHANGED <<hand, sent, answered>>
  BY DEF LoseTrigger
<1>2. \A t \in Triggers : Cardinality(Places(wire, {t})) \in Nat
  BY TalliesAreNumbers DEF QueueInv
<1>3. wire' \in Seq(Triggers)
      /\ \A t \in Triggers : Cardinality(Places(wire', {t})) <= Cardinality(Places(wire, {t}))
  BY <1>1, <1>2, TailShrinks
<1>4. /\ hand' \in [Dispatchers -> Hands \cup {None}]
      /\ \A w \in Dispatchers :
           /\ HandFine(w, hand'[w])
           /\ hand'[w] # None => hand[w] # None /\ hand'[w].trigger = hand[w].trigger
  BY <1>1 DEF QueueInv, QueueType, HandOK
<1> QED  BY <1>1, <1>3, <1>4, HandsOnlyLose

LEMMA DroppingKeepsQueues ==
  ASSUME QueueInv, UNCHANGED <<sent, answered>>, wire' = <<>>,
         hand' \in [Dispatchers -> Hands \cup {None}],
         \A w \in Dispatchers : hand'[w] \in {hand[w], None}
  PROVE  QueueInv'
<1>1. \A t \in Triggers : Cardinality(Places(wire', {t})) = 0
  BY PlacesEmpty
<1>2. \A t \in Triggers : Cardinality(Places(wire, {t})) \in Nat
  BY TalliesAreNumbers DEF QueueInv
<1>3. wire' \in Seq(Triggers)
      /\ \A t \in Triggers : Cardinality(Places(wire', {t})) <= Cardinality(Places(wire, {t}))
  BY <1>1, <1>2
<1>4. ASSUME NEW w \in Dispatchers
      PROVE  /\ HandFine(w, hand'[w])
             /\ hand'[w] # None => hand[w] # None /\ hand'[w].trigger = hand[w].trigger
  BY DEF QueueInv, HandOK, HandFine
<1> QED  BY <1>3, <1>4, HandsOnlyLose

(* Something is taken into a hand that was empty, and booked elsewhere     *)
(* before: on the wire, or as sent now.                                    *)
LEMMA TakingKeepsQueues ==
  ASSUME QueueInv, answered' = answered, wire' \in Seq(Triggers), sent' \in Seq(Triggers),
         NEW w \in Dispatchers, hand[w] = None, NEW t \in Triggers,
         Asked(w, t) \in Seq(Specialties),
         hand' = [hand EXCEPT ![w] = InHand(t, Asked(w, t))],
         \A u \in Triggers :
           (IF u = t THEN 1 ELSE 0) + Cardinality(Places(wire', {u}))
              + Cardinality(Places(sent, {u}))
             <= Cardinality(Places(wire, {u})) + Cardinality(Places(sent', {u}))
  PROVE  QueueInv'
<1> DEFINE h == InHand(t, Asked(w, t))
<1>1. h \in Hands /\ HandFine(w, h) /\ h.trigger = t
  BY InHandIsFine
<1> HIDE DEF h
<1>2. hand' = [hand EXCEPT ![w] = h]
  BY DEF h
<1>3. QueueType'
  BY <1>1, <1>2 DEF QueueInv, QueueType
<1>4. HandOK'
  <2>1. ASSUME NEW v \in Dispatchers PROVE HandFine(v, hand'[v])
    <3>1. hand'[v] = hand[v] \/ (v = w /\ hand'[v] = h)
      BY <1>2 DEF QueueInv, QueueType
    <3> QED  BY <1>1, <3>1 DEF QueueInv, HandOK
  <2> QED  BY <2>1 DEF HandOK
<1>5. AnsweredOK'
  BY DEF QueueInv, AnsweredOK
<1>6. ASSUME NEW u \in Triggers
      PROVE  Cardinality(Places(answered', About(u))) + Held(hand', "nats", u)
               + Held(hand', "grpc", u) + Cardinality(Places(wire', {u}))
             <= Cardinality(Places(sent', {u}))
  <2> DEFINE one == IF u = t THEN 1 ELSE 0
  <2>1. /\ Held(hand, w, u) = 0 /\ Held(hand', w, u) <= one
        /\ \A v \in Dispatchers : v # w => Held(hand', v, u) = Held(hand, v, u)
    BY <1>1, <1>2 DEF Held, QueueInv, QueueType
  <2>2. one + Cardinality(Places(wire', {u})) + Cardinality(Places(sent, {u}))
          <= Cardinality(Places(wire, {u})) + Cardinality(Places(sent', {u}))
    OBVIOUS
  <2>3. Cardinality(Places(answered, About(u))) + Held(hand, "nats", u)
          + Held(hand, "grpc", u) + Cardinality(Places(wire, {u}))
        <= Cardinality(Places(sent, {u}))
    BY DEF QueueInv, SentFirst
  <2>4. /\ Cardinality(Places(answered, About(u))) \in Nat
        /\ Cardinality(Places(wire, {u})) \in Nat /\ Cardinality(Places(sent, {u})) \in Nat
    BY TalliesAreNumbers DEF QueueInv
  <2>5. Cardinality(Places(wire', {u})) \in Nat /\ Cardinality(Places(sent', {u})) \in Nat
    BY PlacesFinite
  <2>6. /\ Held(hand, "nats", u) \in {0, 1} /\ Held(hand, "grpc", u) \in {0, 1}
        /\ Held(hand', "nats", u) \in {0, 1} /\ Held(hand', "grpc", u) \in {0, 1}
        /\ one \in {0, 1} /\ answered' = answered
    BY HeldIsOneAtMost
  <2> HIDE DEF one
  <2>7. Held(hand', "nats", u) + Held(hand', "grpc", u)
          <= Held(hand, "nats", u) + Held(hand, "grpc", u) + one
    <3>1. CASE w = "nats"
      BY <2>1, <2>6, <3>1 DEF Dispatchers
    <3>2. CASE w = "grpc"
      BY <2>1, <2>6, <3>2 DEF Dispatchers
    <3> QED  BY <3>1, <3>2 DEF Dispatchers
  <2> DEFINE a == Cardinality(Places(answered, About(u)))
             x == Held(hand, "nats", u) + Held(hand, "grpc", u)
             y == Held(hand', "nats", u) + Held(hand', "grpc", u)
             i == Cardinality(Places(wire, {u}))
             j == Cardinality(Places(wire', {u}))
             k == Cardinality(Places(sent, {u}))
             l == Cardinality(Places(sent', {u}))
  <2>8. /\ a \in Nat /\ x \in Nat /\ y \in Nat /\ i \in Nat /\ j \in Nat /\ k \in Nat
        /\ l \in Nat /\ one \in Nat
    <3>1. x \in Nat /\ y \in Nat /\ one \in Nat
      <4>1. \A p, q \in {0, 1} : p + q \in Nat /\ p \in Nat
        OBVIOUS
      <4> QED  BY <2>6, <4>1, Zenon
    <3>2. a \in Nat /\ i \in Nat /\ j \in Nat /\ k \in Nat /\ l \in Nat
      BY <2>4, <2>5, Zenon
    <3> QED  BY <3>1, <3>2, Zenon
  <2>9. /\ y <= x + one
        /\ one + j + k <= i + l
        /\ a + x + i <= k
    <3>1. y <= x + one
      BY <2>7
    <3>2. one + j + k <= i + l
      BY <2>2
    <3>3. a + x + i <= k
      BY <2>3, <2>4, <2>6
    <3> QED  BY <3>1, <3>2, <3>3
  <2> HIDE DEF a, x, y, i, j, k, l
  <2>10. a + y + j <= l
    BY <2>8, <2>9
  <2> QED  BY <2>4, <2>5, <2>6, <2>10 DEF a, y, j, l
<1> QED  BY <1>3, <1>4, <1>5, <1>6 DEF QueueInv, SentFirst

LEMMA HandleKeepsQueues ==
  ASSUME QueueInv, HandleMessage
  PROVE  QueueInv'
<1> DEFINE t == Head(wire)
<1>1. /\ hand["nats"] = None /\ wire # <<>> /\ wire' = Tail(wire)
      /\ UNCHANGED <<answered, sent>> /\ "nats" \in Dispatchers
      /\ hand' = [hand EXCEPT !["nats"] = IF Requested[t] = None THEN None
                                           ELSE InHand(t, Requested[t])]
  BY DEF HandleMessage, Dispatchers
<1>2. \A u \in Triggers : Cardinality(Places(wire, {u})) \in Nat
                          /\ Cardinality(Places(sent, {u})) \in Nat
  BY TalliesAreNumbers DEF QueueInv
<1>3. /\ Tail(wire) \in Seq(Triggers) /\ t \in Triggers
      /\ \A u \in Triggers : Cardinality(Places(Tail(wire), {u})) \in Nat
      /\ \A u \in Triggers :
           Cardinality(Places(Tail(wire), {u})) + (IF t = u THEN 1 ELSE 0)
             <= Cardinality(Places(wire, {u}))
  BY <1>1, TailShrinks
<1> HIDE DEF t
<1>4. CASE Requested[t] = None
  <2>1. hand' = hand
    BY <1>1, <1>4 DEF QueueInv, QueueType
  <2>2. /\ hand' \in [Dispatchers -> Hands \cup {None}]
        /\ \A w \in Dispatchers :
             /\ HandFine(w, hand'[w])
             /\ hand'[w] # None => hand[w] # None /\ hand'[w].trigger = hand[w].trigger
    BY <2>1 DEF QueueInv, QueueType, HandOK
  <2>3. /\ wire' \in Seq(Triggers)
        /\ \A u \in Triggers : Cardinality(Places(wire', {u})) <= Cardinality(Places(wire, {u}))
    BY <1>1, <1>2, <1>3
  <2> QED  BY <1>1, <2>2, <2>3, HandsOnlyLose
<1>5. CASE Requested[t] # None
  <2>1. Requested[t] \in Seq(Specialties) /\ Asked("nats", t) = Requested[t]
    BY <1>3, <1>5, InstanceAssumption DEF Asked
  <2>2. hand' = [hand EXCEPT !["nats"] = InHand(t, Asked("nats", t))]
    BY <1>1, <1>5, <2>1
  <2>3. ASSUME NEW u \in Triggers
        PROVE  (IF u = t THEN 1 ELSE 0) + Cardinality(Places(wire', {u}))
                  + Cardinality(Places(sent, {u}))
                 <= Cardinality(Places(wire, {u})) + Cardinality(Places(sent', {u}))
    <3> DEFINE one == IF u = t THEN 1 ELSE 0
               i == Cardinality(Places(wire, {u}))
               j == Cardinality(Places(Tail(wire), {u}))
               k == Cardinality(Places(sent, {u}))
    <3>1. i \in Nat /\ j \in Nat /\ k \in Nat /\ one \in Nat /\ j + one <= i
      BY <1>2, <1>3
    <3> HIDE DEF i, j, k, one
    <3>2. one + j + k <= i + k
      BY <3>1
    <3> QED  BY <1>1, <3>2 DEF i, j, k, one
  <2>4. wire' \in Seq(Triggers) /\ sent' \in Seq(Triggers)
    BY <1>1, <1>3 DEF QueueInv, QueueType
  <2> QED  BY <1>1, <1>3, <2>1, <2>2, <2>3, <2>4, TakingKeepsQueues
<1> QED  BY <1>4, <1>5

LEMMA ProcessKeepsQueues ==
  ASSUME QueueInv, NEW t \in Triggers, ProcessTriggerEvent(t)
  PROVE  QueueInv'
<1>1. /\ hand["grpc"] = None /\ sent' = Append(sent, t) /\ UNCHANGED <<answered, wire>>
      /\ Requested[t] # None /\ "grpc" \in Dispatchers
      /\ hand' = [hand EXCEPT !["grpc"] = InHand(t, Asked("grpc", t))]
  BY DEF ProcessTriggerEvent, Asked, Dispatchers
<1>2. Asked("grpc", t) \in Seq(Specialties)
  BY <1>1, InstanceAssumption, UniqueIsAList DEF Asked
<1>3. wire' \in Seq(Triggers) /\ sent' \in Seq(Triggers) /\ sent \in Seq(Triggers)
  BY <1>1 DEF QueueInv, QueueType
<1>4. ASSUME NEW u \in Triggers
      PROVE  (IF u = t THEN 1 ELSE 0) + Cardinality(Places(wire', {u}))
                + Cardinality(Places(sent, {u}))
               <= Cardinality(Places(wire, {u})) + Cardinality(Places(sent', {u}))
  <2>1. Cardinality(Places(wire, {u})) \in Nat /\ Cardinality(Places(sent, {u})) \in Nat
    BY TalliesAreNumbers DEF QueueInv
  <2>2. Cardinality(Places(Append(sent, t), {u}))
          = Cardinality(Places(sent, {u})) + (IF t \in {u} THEN 1 ELSE 0)
    BY <1>3, PlacesAppend
  <2>3. t \in {u} <=> u = t
    OBVIOUS
  <2>4. wire' = wire /\ sent' = Append(sent, t)
    BY <1>1
  <2> DEFINE after == Cardinality(Places(Append(sent, t), {u}))
             before == Cardinality(Places(sent, {u}))
             waiting == Cardinality(Places(wire, {u}))
  <2>5. before \in Nat /\ waiting \in Nat /\ after = before + (IF u = t THEN 1 ELSE 0)
    BY <2>1, <2>2, <2>3
  <2>6. Cardinality(Places(wire', {u})) = waiting /\ Cardinality(Places(sent', {u})) = after
    BY <2>4
  <2> HIDE DEF after, before, waiting
  <2>7. (IF u = t THEN 1 ELSE 0) + waiting + before <= waiting + after
    BY <2>5
  <2> QED  BY <2>6, <2>7 DEF before, waiting
<1> QED  BY <1>1, <1>2, <1>3, <1>4, TakingKeepsQueues

LEMMA SendKeepsQueues ==
  ASSUME QueueInv, NEW t \in Triggers, SendTrigger(t)
  PROVE  QueueInv'
<1>1. /\ sent' = Append(sent, t) /\ UNCHANGED <<answered, hand>>
      /\ wire' = wire \/ wire' = Append(wire, t)
  BY DEF SendTrigger
<1>2. wire \in Seq(Triggers) /\ sent \in Seq(Triggers)
  BY DEF QueueInv, QueueType
<1>3. QueueType' /\ HandOK' /\ AnsweredOK'
  <2>1. sent' \in Seq(Triggers) /\ wire' \in Seq(Triggers)
    <3>1. Append(sent, t) \in Seq(Triggers) /\ Append(wire, t) \in Seq(Triggers)
      BY <1>2
    <3> QED  BY <1>1, <1>2, <3>1, Zenon
  <2>2. QueueType'
    BY <1>1, <2>1 DEF QueueInv, QueueType
  <2>3. HandOK' /\ AnsweredOK'
    BY <1>1 DEF QueueInv, HandOK, AnsweredOK
  <2> QED  BY <2>2, <2>3
<1>4. ASSUME NEW u \in Triggers
      PROVE  Cardinality(Places(answered', About(u))) + Held(hand', "nats", u)
               + Held(hand', "grpc", u) + Cardinality(Places(wire', {u}))
             <= Cardinality(Places(sent', {u}))
  <2> DEFINE one == IF t \in {u} THEN 1 ELSE 0
  <2>1. Cardinality(Places(sent', {u})) = Cardinality(Places(sent, {u})) + one
    BY <1>1, <1>2, PlacesAppend
  <2>2. Cardinality(Places(Append(wire, t), {u})) = Cardinality(Places(wire, {u})) + one
    BY <1>2, PlacesAppend
  <2>3. Cardinality(Places(answered, About(u))) + Held(hand, "nats", u)
          + Held(hand, "grpc", u) + Cardinality(Places(wire, {u}))
        <= Cardinality(Places(sent, {u}))
    BY DEF QueueInv, SentFirst
  <2>4. /\ Cardinality(Places(answered, About(u))) \in Nat
        /\ Cardinality(Places(wire, {u})) \in Nat /\ Cardinality(Places(sent, {u})) \in Nat
    BY TalliesAreNumbers DEF QueueInv
  <2>5. /\ Held(hand, "nats", u) \in {0, 1} /\ Held(hand, "grpc", u) \in {0, 1}
        /\ one \in {0, 1} /\ answered' = answered /\ hand' = hand
    BY <1>1, HeldIsOneAtMost
  <2> HIDE DEF one
  <2>6. \/ Cardinality(Places(wire', {u})) = Cardinality(Places(wire, {u}))
        \/ Cardinality(Places(wire', {u})) = Cardinality(Places(wire, {u})) + one
    BY <1>1, <2>2
  <2> QED  BY <2>1, <2>3, <2>4, <2>5, <2>6
<1> QED  BY <1>3, <1>4 DEF QueueInv, SentFirst

LEMMA QueuesStep ==
  ASSUME RegistryType, QueueInv, [Next]_vars
  PROVE  QueueInv'
<1>1. ASSUME UNCHANGED <<wire, hand, answered, sent>> PROVE QueueInv'
  BY <1>1 DEF QueueInv, QueueType, HandOK, AnsweredOK, SentFirst
<1>2. CASE Stop
  <2>1. /\ wire' = <<>> /\ hand' = [hand EXCEPT !["nats"] = None] /\ UNCHANGED <<sent, answered>>
    BY <1>2 DEF Stop
  <2>2. /\ hand' \in [Dispatchers -> Hands \cup {None}]
        /\ \A w \in Dispatchers : hand'[w] \in {hand[w], None}
    BY <2>1 DEF QueueInv, QueueType
  <2> QED  BY <2>1, <2>2, DroppingKeepsQueues
<1>3. CASE Crash
  <2>1. /\ wire' = <<>> /\ hand' = [w \in Dispatchers |-> None] /\ UNCHANGED <<sent, answered>>
    BY <1>3 DEF Crash
  <2>2. /\ hand' \in [Dispatchers -> Hands \cup {None}]
        /\ \A w \in Dispatchers : hand'[w] \in {hand[w], None}
    BY <2>1
  <2> QED  BY <2>1, <2>2, DroppingKeepsQueues
<1>4. CASE \E t \in Triggers : SendTrigger(t) \/ ProcessTriggerEvent(t)
  BY <1>4, SendKeepsQueues, ProcessKeepsQueues
<1>5. CASE LoseTrigger \/ HandleMessage
  BY <1>5, LoseKeepsQueues, HandleKeepsQueues
<1>6. CASE \E w \in Dispatchers : DispatchStep(w)
  BY <1>6, DispatchLookupKeepsQueues, DispatchDeliberateKeepsQueues,
     DispatchReturnsKeepsQueues DEF DispatchStep
<1>7. CASE Boot \/ Signal \/ RegisterCouncil
  BY <1>1, <1>7 DEF Boot, Signal, RegisterCouncil
<1>8. CASE \/ \E a \in Newcomers, d \in Descriptors : RegisterAgent(a, d)
           \/ \E a \in AgentIds : UnregisterAgent(a)
           \/ \E sp \in Specialties, n \in 1..Seats : CreateCouncil(sp, n)
           \/ \E sp \in Specialties : DeleteCouncil(sp)
  BY <1>1, <1>8 DEF RegisterAgent, UnregisterAgent, CreateCouncil, DeleteCouncil
<1>9. CASE \E c \in Callers, sp \in Specialties, call \in Calls : Orchestrate(c, sp, call)
  BY <1>1, <1>9 DEF Orchestrate, Move
<1>10. CASE \E c \in Callers : OrchestrationStep(c)
  BY <1>1, <1>10, MoveKeepsRest
<1>11. CASE UNCHANGED vars
  BY <1>1, <1>11 DEF vars
<1> QED
  BY <1>2, <1>3, <1>4, <1>5, <1>6, <1>7, <1>8, <1>9, <1>10, <1>11 DEF Next

-----------------------------------------------------------------------------
(* The counters. *)

LEMMA EachGrows ==
  ASSUME NEW per \in [Specialties -> Nat], NEW sp \in Specialties
  PROVE  /\ Each([per EXCEPT ![sp] = @ + 1]) = Each(per) \cup {<<sp, per[sp] + 1>>}
         /\ <<sp, per[sp] + 1>> \notin Each(per)
<1> DEFINE more == [per EXCEPT ![sp] = @ + 1]
           new == <<sp, per[sp] + 1>>
<1>1. /\ more \in [Specialties -> Nat] /\ more[sp] = per[sp] + 1 /\ per[sp] \in Nat
      /\ \A s \in Specialties : s # sp => more[s] = per[s]
  OBVIOUS
<1>2. \A q \in [Specialties -> Nat] : \A s, k :
        <<s, k>> \in Each(q) <=> s \in Specialties /\ k \in 1..q[s]
  BY DEF Each
<1>3. \A q \in [Specialties -> Nat] : \A x \in Each(q) : x = <<x[1], x[2]>>
  BY DEF Each
<1> HIDE DEF more
<1>4. ASSUME NEW s, NEW k
      PROVE  <<s, k>> \in Each(more) <=> <<s, k>> \in Each(per) \/ (s = sp /\ k = per[sp] + 1)
  <2>1. CASE s = sp
    <3>1. k \in 1..(per[sp] + 1) <=> k \in 1..per[sp] \/ k = per[sp] + 1
      BY <1>1
    <3> QED  BY <1>1, <1>2, <2>1, <3>1
  <2>2. CASE s # sp
    BY <1>1, <1>2, <2>2
  <2> QED  BY <2>1, <2>2
<1>5. new \notin Each(per)
  BY <1>1, <1>2
<1>6. ASSUME NEW x PROVE x \in Each(more) <=> x \in Each(per) \cup {new}
  <2>1. CASE x \in Each(more) \/ x \in Each(per) \/ x = new
    <3>1. x = <<x[1], x[2]>>
      BY <1>1, <1>3, <2>1
    <3>2. x = new <=> x[1] = sp /\ x[2] = per[sp] + 1
      BY <3>1
    <3>3. <<x[1], x[2]>> \in Each(more) <=>
            <<x[1], x[2]>> \in Each(per) \/ (x[1] = sp /\ x[2] = per[sp] + 1)
      BY <1>4
    <3> QED  BY <3>1, <3>2, <3>3
  <2> QED  BY <2>1
<1>7. Each(more) = Each(per) \cup {new}
  BY <1>6
<1> QED  BY <1>5, <1>7 DEF more

LEMMA NothingCounted == Each([sp \in Specialties |-> 0]) = {}
<1>1. \A sp \in Specialties : {sp} \X (1..0) = {}
  OBVIOUS
<1> QED  BY <1>1 DEF Each

LEMMA CallersCounted ==
  ASSUME NEW calls
  PROVE  /\ IsFiniteSet(Owing(calls)) /\ Cardinality(Owing(calls)) \in Nat
         /\ IsFiniteSet(Fine(calls)) /\ Cardinality(Fine(calls)) \in Nat
<1>1. Owing(calls) \in SUBSET Callers /\ Fine(calls) \in SUBSET Callers
  BY DEF Owing, Fine
<1>2. IsFiniteSet(Owing(calls)) /\ IsFiniteSet(Fine(calls))
  BY <1>1, InstanceAssumption, FS_Subset
<1> QED  BY <1>2, FS_CardinalityType

LEMMA OneMore ==
  ASSUME NEW S, IsFiniteSet(S), NEW x
  PROVE  /\ IsFiniteSet(S \cup {x}) /\ Cardinality(S \cup {x}) \in Nat
         /\ Cardinality(S \cup {x}) <= Cardinality(S) + 1
<1>1. IsFiniteSet(S \cup {x})
      /\ Cardinality(S \cup {x}) = IF x \in S THEN Cardinality(S) ELSE Cardinality(S) + 1
  BY FS_AddElement
<1>2. Cardinality(S) \in Nat
  BY FS_CardinalityType
<1> QED  BY <1>1, <1>2

LEMMA DeliberationCounted ==
  ASSUME CountType, CountsOK, NEW sp \in Specialties, NEW end,
         stats' = RecordDeliberation(stats, sp, end)
  PROVE  /\ CountType' /\ IsFiniteSet(Each(stats'.per))
         /\ stats'.deliberations = Cardinality(Each(stats'.per))
         /\ stats'.orchestrations = stats.orchestrations
         /\ stats'.deliberations = stats.deliberations + (IF Counts(end) THEN 1 ELSE 0)
<1>1. CASE ~Counts(end)
  <2>1. stats' = stats
    BY <1>1 DEF RecordDeliberation
  <2> QED  BY <1>1, <2>1 DEF CountType, CountsOK
<1>2. CASE Counts(end)
  <2> DEFINE per == stats.per
             new == <<sp, per[sp] + 1>>
             more == [per EXCEPT ![sp] = @ + 1]
  <2>1. /\ stats'.deliberations = stats.deliberations + 1
        /\ stats'.orchestrations = stats.orchestrations
        /\ stats'.per = more
        /\ CountType'
    <3>1. stats' = [stats EXCEPT !.deliberations = @ + 1, !.per[sp] = @ + 1]
      BY <1>2 DEF RecordDeliberation
    <3>2. stats' = [deliberations |-> stats.deliberations + 1,
                    orchestrations |-> stats.orchestrations, per |-> more]
      BY <3>1 DEF CountType
    <3>3. more \in [Specialties -> Nat]
      BY DEF CountType
    <3> HIDE DEF more
    <3> QED  BY <3>2, <3>3 DEF CountType
  <2>2. per \in [Specialties -> Nat]
    BY DEF CountType
  <2>3. Each(more) = Each(per) \cup {new} /\ new \notin Each(per)
    BY <2>2, EachGrows
  <2>4. IsFiniteSet(Each(per)) /\ stats.deliberations = Cardinality(Each(per))
    BY DEF CountsOK
  <2> HIDE DEF per, new, more
  <2>5. IsFiniteSet(Each(more)) /\ Cardinality(Each(more)) = Cardinality(Each(per)) + 1
    BY <2>3, <2>4, FS_AddElement
  <2> QED  BY <1>2, <2>1, <2>4, <2>5
<1> QED  BY <1>1, <1>2

LEMMA QuietKeepsCounts ==
  ASSUME CountType, CountsOK, stats' = stats, wiring' = wiring,
         Owing(orch') \subseteq Owing(orch), Fine(orch') \subseteq Fine(orch)
  PROVE  CountType' /\ CountsOK'
<1>1. /\ Cardinality(Owing(orch')) <= Cardinality(Owing(orch))
      /\ Cardinality(Fine(orch')) <= Cardinality(Fine(orch))
  BY CallersCounted, FS_Subset
<1>2. /\ Cardinality(Owing(orch')) \in Nat /\ Cardinality(Owing(orch)) \in Nat
      /\ Cardinality(Fine(orch')) \in Nat /\ Cardinality(Fine(orch)) \in Nat
  BY CallersCounted
<1>3. stats.orchestrations \in Nat /\ stats.deliberations \in Nat
  BY DEF CountType
<1>4. stats.orchestrations + Cardinality(Owing(orch')) <= stats.deliberations
  BY <1>1, <1>2, <1>3 DEF CountsOK
<1>5. wiring # None /\ wiring.persistence = "postgres" =>
        Cardinality(Fine(orch')) <= stats.orchestrations
  BY <1>1, <1>2, <1>3 DEF CountsOK
<1> QED  BY <1>4, <1>5 DEF CountType, CountsOK

LEMMA WinKeepsCounts ==
  ASSUME CountType, CountsOK, orch \in [Callers -> Orchestrations], NEW c \in Callers, Wins(c)
  PROVE  CountType' /\ CountsOK'
<1>1. PICK n, end :
        /\ Move(c, n) /\ n.result # "ok" /\ (Counts(end) \/ ~Owes(n))
        /\ stats' = RecordDeliberation(stats, orch[c].specialty, end)
        /\ orch[c].specialty \in Specialties
  BY DEF Wins
<1>2. /\ CountType' /\ IsFiniteSet(Each(stats'.per))
      /\ stats'.deliberations = Cardinality(Each(stats'.per))
      /\ stats'.orchestrations = stats.orchestrations
      /\ stats'.deliberations = stats.deliberations + (IF Counts(end) THEN 1 ELSE 0)
  BY <1>1, DeliberationCounted
<1>3. orch' = [orch EXCEPT ![c] = n] /\ wiring' = wiring
  BY <1>1 DEF Move
<1>4. /\ Owing(orch') \subseteq Owing(orch) \cup {c}
      /\ ~Owes(n) => Owing(orch') \subseteq Owing(orch)
      /\ Fine(orch') \subseteq Fine(orch)
  BY <1>1, <1>3 DEF Owing, Fine
<1>5. /\ IsFiniteSet(Owing(orch) \cup {c})
      /\ Cardinality(Owing(orch) \cup {c}) <= Cardinality(Owing(orch)) + 1
      /\ Cardinality(Owing(orch) \cup {c}) \in Nat
  BY CallersCounted, OneMore
<1>6. /\ Cardinality(Owing(orch')) <= Cardinality(Owing(orch) \cup {c})
      /\ ~Owes(n) => Cardinality(Owing(orch')) <= Cardinality(Owing(orch))
      /\ Cardinality(Fine(orch')) <= Cardinality(Fine(orch))
  BY <1>4, <1>5, CallersCounted, FS_Subset
<1>7. /\ Cardinality(Owing(orch')) \in Nat /\ Cardinality(Owing(orch)) \in Nat
      /\ Cardinality(Fine(orch')) \in Nat /\ Cardinality(Fine(orch)) \in Nat
  BY CallersCounted
<1>8. /\ stats.orchestrations \in Nat /\ stats.deliberations \in Nat
      /\ stats.orchestrations + Cardinality(Owing(orch)) <= stats.deliberations
      /\ wiring # None /\ wiring.persistence = "postgres" =>
           Cardinality(Fine(orch)) <= stats.orchestrations
  BY DEF CountType, CountsOK
<1>9. stats'.orchestrations + Cardinality(Owing(orch')) <= stats'.deliberations
  <2>1. CASE Counts(end)
    BY <1>2, <1>5, <1>6, <1>7, <1>8, <2>1
  <2>2. CASE ~Counts(end)
    BY <1>1, <1>2, <1>6, <1>7, <1>8, <2>2
  <2> QED  BY <2>1, <2>2
<1>10. wiring # None /\ wiring.persistence = "postgres" =>
         Cardinality(Fine(orch')) <= stats'.orchestrations
  BY <1>2, <1>6, <1>7, <1>8
<1> QED  BY <1>2, <1>3, <1>9, <1>10 DEF CountsOK

LEMMA SettlingKeepsCounts ==
  ASSUME CountType, CountsOK, orch \in [Callers -> Orchestrations], NEW c \in Callers, Settles(c)
  PROVE  CountType' /\ CountsOK'
<1>1. PICK n : /\ Move(c, n) /\ Owes(orch[c]) /\ ~Owes(n)
               /\ stats' = RecordOrchestration(stats)
  BY DEF Settles
<1>2. /\ stats'.orchestrations = stats.orchestrations + 1
      /\ stats'.deliberations = stats.deliberations /\ stats'.per = stats.per
      /\ CountType'
  BY <1>1 DEF RecordOrchestration, CountType
<1>3. orch' = [orch EXCEPT ![c] = n] /\ wiring' = wiring
  BY <1>1 DEF Move
<1>4. /\ Owing(orch') \subseteq Owing(orch) \ {c} /\ c \in Owing(orch)
      /\ Fine(orch') \subseteq Fine(orch) \cup {c}
  BY <1>1, <1>3 DEF Owing, Fine
<1>5. /\ IsFiniteSet(Owing(orch) \ {c}) /\ IsFiniteSet(Fine(orch) \cup {c})
      /\ Cardinality(Owing(orch) \ {c}) = Cardinality(Owing(orch)) - 1
      /\ Cardinality(Fine(orch) \cup {c}) <= Cardinality(Fine(orch)) + 1
      /\ Cardinality(Fine(orch) \cup {c}) \in Nat
  <2>1. IsFiniteSet(Owing(orch) \ {c}) /\ Cardinality(Owing(orch) \ {c}) = Cardinality(Owing(orch)) - 1
    BY <1>4, CallersCounted, FS_RemoveElement
  <2>2. /\ IsFiniteSet(Fine(orch) \cup {c})
        /\ Cardinality(Fine(orch) \cup {c}) <= Cardinality(Fine(orch)) + 1
        /\ Cardinality(Fine(orch) \cup {c}) \in Nat
    BY CallersCounted, OneMore
  <2> QED  BY <2>1, <2>2
<1>6. /\ Cardinality(Owing(orch')) <= Cardinality(Owing(orch) \ {c})
      /\ Cardinality(Fine(orch')) <= Cardinality(Fine(orch) \cup {c})
  BY <1>4, <1>5, FS_Subset
<1>7. /\ Cardinality(Owing(orch')) \in Nat /\ Cardinality(Owing(orch)) \in Nat
      /\ Cardinality(Fine(orch')) \in Nat /\ Cardinality(Fine(orch)) \in Nat
  BY CallersCounted
<1>8. /\ stats.orchestrations \in Nat /\ stats.deliberations \in Nat
      /\ stats.orchestrations + Cardinality(Owing(orch)) <= stats.deliberations
      /\ wiring # None /\ wiring.persistence = "postgres" =>
           Cardinality(Fine(orch)) <= stats.orchestrations
  BY DEF CountType, CountsOK
<1>9. stats'.orchestrations + Cardinality(Owing(orch')) <= stats'.deliberations
  BY <1>2, <1>5, <1>6, <1>7, <1>8
<1>10. wiring # None /\ wiring.persistence = "postgres" =>
         Cardinality(Fine(orch')) <= stats'.orchestrations
  BY <1>2, <1>5, <1>6, <1>7, <1>8
<1> QED  BY <1>2, <1>3, <1>9, <1>10 DEF CountsOK

LEMMA BootKeepsCounts ==
  ASSUME CountType, CountsOK, DownOK, Boot
  PROVE  CountType' /\ CountsOK'
<1>1. PICK made \in Starts :
        LET kept == made.ok /\ made.is.persistence = "postgres"
        IN IF ~made.ok THEN UNCHANGED <<mode, wiring, agents, councils, stats, vacated>>
           ELSE /\ wiring \in {None, made.is}
                /\ wiring' = made.is
                /\ stats' = IF kept THEN stats ELSE NoCount
  BY DEF Boot
<1>2. orch' = orch /\ mode = "down"
  BY DEF Boot
<1>3. CASE ~made.ok
  BY <1>1, <1>2, <1>3, QuietKeepsCounts
<1>4. CASE made.ok /\ made.is.persistence = "postgres"
  <2>1. stats' = stats /\ wiring' = made.is /\ wiring \in {None, made.is}
    BY <1>1, <1>4
  <2>2. Cardinality(Fine(orch)) <= stats.orchestrations
    <3>1. CASE wiring = None
      <4>1. Cardinality(Fine(orch)) = 0
        BY <3>1, FS_EmptySet DEF DownOK
      <4> QED  BY <4>1 DEF CountType
    <3>2. CASE wiring # None
      BY <1>4, <2>1, <3>2 DEF CountsOK
    <3> QED  BY <3>1, <3>2
  <2> QED  BY <1>2, <2>1, <2>2 DEF CountType, CountsOK
<1>5. CASE made.ok /\ made.is.persistence # "postgres"
  <2>1. stats' = NoCount /\ wiring' = made.is
    BY <1>1, <1>5
  <2>2. Owing(orch) = {}
    BY <1>2 DEF DownOK, Busy, Owing, Owes
  <2>3. Cardinality(Owing(orch')) = 0 /\ Cardinality(Each(NoCount.per)) = 0
        /\ IsFiniteSet(Each(NoCount.per))
    BY <1>2, <2>2, NothingCounted, FS_EmptySet DEF NoCount
  <2>4. CountType' /\ stats'.deliberations = 0 /\ stats'.orchestrations = 0
    BY <2>1 DEF CountType, NoCount
  <2> QED  BY <1>5, <2>1, <2>3, <2>4 DEF CountsOK
<1> QED  BY <1>3, <1>4, <1>5

LEMMA CountsStep ==
  ASSUME TypeInv, CallOK, QueueInv, CountsOK, DownOK, [Next]_vars
  PROVE  CountType' /\ CountsOK'
<1>1. ASSUME UNCHANGED <<stats, wiring, orch>> PROVE CountType' /\ CountsOK'
  BY <1>1, QuietKeepsCounts DEF TypeInv
<1>2. CASE Boot
  BY <1>2, BootKeepsCounts DEF TypeInv
<1>3. CASE Crash
  <2>1. /\ orch' = [c \in Callers |-> IF Busy(c) THEN Gone ELSE orch[c]]
        /\ UNCHANGED <<stats, wiring>>
    BY <1>3 DEF Crash
  <2>2. Owing(orch') \subseteq Owing(orch) /\ Fine(orch') \subseteq Fine(orch)
    BY <2>1, GoneIsFine DEF Owing, Fine
  <2> QED  BY <2>1, <2>2, QuietKeepsCounts DEF TypeInv
<1>4. ASSUME NEW c \in Callers, NEW n, Move(c, n), stats' = stats,
             Owes(n) => Owes(orch[c]), n.result = "ok" => orch[c].result = "ok"
      PROVE  CountType' /\ CountsOK'
  <2>1. orch' = [orch EXCEPT ![c] = n] /\ wiring' = wiring
    BY <1>4 DEF Move
  <2>2. Owing(orch') \subseteq Owing(orch) /\ Fine(orch') \subseteq Fine(orch)
    BY <1>4, <2>1 DEF Owing, Fine, TypeInv
  <2> QED  BY <1>4, <2>1, <2>2, QuietKeepsCounts DEF TypeInv
<1>5. ASSUME NEW c \in Callers, NEW sp \in Specialties, NEW call \in Calls,
             Orchestrate(c, sp, call)
      PROVE  CountType' /\ CountsOK'
  <2>1. PICK n : Move(c, n) /\ ~Owes(n) /\ n.result # "ok" /\ stats' = stats
    BY <1>5, OrchestrateMoves
  <2> QED  BY <1>4, <2>1
<1>6. ASSUME NEW c \in Callers, OrchestrationStep(c) PROVE CountType' /\ CountsOK'
  <2>1. CASE MovesQuietly(c)
    <3>1. PICK n : Move(c, n) /\ Quietly(orch[c], n) /\ stats' = stats
      BY <2>1 DEF MovesQuietly
    <3> QED  BY <1>4, <3>1 DEF Quietly
  <2>2. CASE Wins(c)
    BY <2>2, WinKeepsCounts DEF TypeInv
  <2>3. CASE Settles(c)
    BY <2>3, SettlingKeepsCounts DEF TypeInv
  <2> QED  BY <1>6, <2>1, <2>2, <2>3, StepMoves
<1>7. ASSUME NEW w \in Dispatchers, DispatchDeliberate(w) PROVE CountType' /\ CountsOK'
  <2> DEFINE h == hand[w]
             sp == h.list[Position(h)]
  <2>1. h \in Hands /\ h # None /\ HandFine(w, h) /\ Position(h) <= Len(h.list)
    BY <1>7 DEF QueueInv, QueueType, HandOK, DispatchDeliberate, Underway
  <2>2. sp \in Specialties
    BY <2>1, AnswerIsFine
  <2>3. PICK end : stats' = RecordDeliberation(stats, sp, end)
    BY <1>7, Zenon DEF DispatchDeliberate
  <2> HIDE DEF sp
  <2>4. /\ CountType' /\ IsFiniteSet(Each(stats'.per))
        /\ stats'.deliberations = Cardinality(Each(stats'.per))
        /\ stats'.orchestrations = stats.orchestrations
        /\ stats'.deliberations = stats.deliberations + (IF Counts(end) THEN 1 ELSE 0)
    BY <2>2, <2>3, DeliberationCounted DEF TypeInv
  <2>5. orch' = orch /\ wiring' = wiring
    BY <1>7 DEF DispatchDeliberate
  <2>6. stats.orchestrations \in Nat /\ stats.deliberations \in Nat
        /\ Cardinality(Owing(orch)) \in Nat
        /\ stats.orchestrations + Cardinality(Owing(orch)) <= stats.deliberations
    BY CallersCounted DEF TypeInv, CountType, CountsOK
  <2>7. stats'.orchestrations + Cardinality(Owing(orch')) <= stats'.deliberations
    BY <2>4, <2>5, <2>6
  <2> QED  BY <2>4, <2>5, <2>7 DEF CountsOK
<1>8. CASE Signal \/ Stop \/ RegisterCouncil \/ LoseTrigger \/ HandleMessage
  BY <1>1, <1>8 DEF Signal, Stop, RegisterCouncil, LoseTrigger, HandleMessage
<1>9. CASE \/ \E a \in Newcomers, d \in Descriptors : RegisterAgent(a, d)
           \/ \E a \in AgentIds : UnregisterAgent(a)
           \/ \E sp \in Specialties, n \in 1..Seats : CreateCouncil(sp, n)
           \/ \E sp \in Specialties : DeleteCouncil(sp)
  BY <1>1, <1>9 DEF RegisterAgent, UnregisterAgent, CreateCouncil, DeleteCouncil
<1>10. CASE \/ \E t \in Triggers : SendTrigger(t) \/ ProcessTriggerEvent(t)
            \/ \E w \in Dispatchers : DispatchLookup(w) \/ DispatchReturns(w)
  BY <1>1, <1>10 DEF SendTrigger, ProcessTriggerEvent, DispatchLookup, DispatchReturns
<1>11. CASE UNCHANGED vars
  BY <1>1, <1>11 DEF vars
<1> QED
  BY <1>2, <1>3, <1>5, <1>6, <1>7, <1>8, <1>9, <1>10, <1>11 DEF Next, DispatchStep

-----------------------------------------------------------------------------
(* The theorems. *)

LEMMA InitiallySo == Init => IInv
<1> SUFFICES ASSUME Init PROVE IInv
  OBVIOUS
<1>1. RegistryType /\ SeatsOK
  BY DEF Init, RegistryType, SeatsOK, Kinds, Rooms
<1>2. orch \in [Callers -> Orchestrations] /\ CallOK
  BY UnaskedIsFine DEF Init, CallOK, CallFine
<1>3. QueueType
  BY DEF Init, QueueType
<1>4. HandOK /\ AnsweredOK
  BY DEF Init, HandOK, HandFine, AnsweredOK
<1>5. SentFirst
  <2>1. \A T : Cardinality(Places(<<>>, T)) = 0
    BY PlacesEmpty
  <2>2. \A t \in Triggers : Held(hand, "nats", t) = 0 /\ Held(hand, "grpc", t) = 0
    BY DEF Init, Held, Dispatchers
  <2>3. wire = <<>> /\ sent = <<>> /\ answered = <<>>
    BY DEF Init
  <2> QED  BY <2>1, <2>2, <2>3 DEF SentFirst
<1>6. CountType /\ stats.deliberations = 0 /\ stats.orchestrations = 0
      /\ stats.per = [sp \in Specialties |-> 0]
  BY DEF Init, CountType, NoCount
<1>7. Owing(orch) = {} /\ Fine(orch) = {} /\ \A c \in Callers : ~Busy(c)
  BY DEF Init, Owing, Owes, Fine, Unasked, Busy
<1>8. CountsOK
  BY <1>6, <1>7, NothingCounted, FS_EmptySet DEF CountsOK
<1>9. DownOK
  BY <1>7 DEF Init, DownOK
<1> QED  BY <1>1, <1>2, <1>3, <1>4, <1>5, <1>6, <1>8, <1>9 DEF IInv, TypeInv

LEMMA StepKeeps == IInv /\ [Next]_vars => IInv'
<1> SUFFICES ASSUME IInv, [Next]_vars PROVE IInv'
  OBVIOUS
<1>1. /\ TypeInv /\ SeatsOK /\ CallOK /\ QueueInv /\ CountsOK /\ DownOK
      /\ RegistryType /\ QueueType
  BY DEF IInv, TypeInv, QueueInv
<1>2. RegistryType' /\ SeatsOK'
  BY <1>1, RegistriesStep
<1>3. CallOK' /\ orch' \in [Callers -> Orchestrations]
  BY <1>1, CallsStep
<1>4. QueueInv'
  BY <1>1, QueuesStep
<1>5. CountType' /\ CountsOK'
  BY <1>1, CountsStep
<1>6. DownOK'
  BY <1>1, DownStep
<1> QED  BY <1>2, <1>3, <1>4, <1>5, <1>6 DEF IInv, TypeInv, QueueInv

(* IInv is an invariant of the serving process, whatever its environment,  *)
(* its callers and its triggers do and however often it dies.              *)
THEOREM DispatchInvariant == Spec => []IInv
BY InitiallySo, StepKeeps, PTL DEF Spec

(* Every seat of every council was filled when the council was created     *)
(* (create_council.rs): its agent resolves, or has been unregistered       *)
(* since, across restarts on either registry.                              *)
THEOREM SeatsStayAccountedFor == Spec => []SeatsWereFilled
<1>1. IInv => SeatsWereFilled
  BY DEF IInv, SeatsOK, SeatsWereFilled, Filled
<1> QED  BY <1>1, DispatchInvariant, PTL

(* However an execution goes, a runtime session opened for it is handed    *)
(* back before the call ends, one the caller named is left alone, and the  *)
(* approval sent is the one that takes precedence (runtime.rs).            *)
THEOREM SessionsAreHandedBack == Spec => []SessionsHandedBack
<1>1. IInv => SessionsHandedBack
  BY DEF IInv, CallOK, CallFine, SessionOK, SessionsHandedBack
<1> QED  BY <1>1, DispatchInvariant, PTL

(* A dispatch that returns has answered for the whole list of its trigger, *)
(* and no trigger is answered more often than it was sent                  *)
(* (auto_dispatch.rs, subscriber.rs).                                      *)
THEOREM TriggersAreAnsweredInFull == Spec => []EachSpecialtyAnswered
<1>1. ASSUME IInv PROVE EachSpecialtyAnswered
  <2>1. QueueType /\ AnsweredOK /\ SentFirst
    BY <1>1 DEF IInv, TypeInv
  <2>2. ASSUME NEW t \in Triggers
        PROVE  Cardinality({i \in DOMAIN answered : answered[i].trigger = t})
                 <= Cardinality({i \in DOMAIN sent : sent[i] = t})
    <3>1. {i \in DOMAIN answered : answered[i].trigger = t} = Places(answered, About(t))
      <4>1. \A i \in DOMAIN answered : answered[i] \in Answers
        BY <2>1 DEF QueueType
      <4> QED  BY <4>1 DEF Places, About
    <3>2. {i \in DOMAIN sent : sent[i] = t} = Places(sent, {t})
      BY DEF Places
    <3>3. Cardinality(Places(answered, About(t))) + Held(hand, "nats", t)
            + Held(hand, "grpc", t) + Cardinality(Places(wire, {t}))
          <= Cardinality(Places(sent, {t}))
      BY <2>1 DEF SentFirst
    <3>4. /\ Cardinality(Places(answered, About(t))) \in Nat
          /\ Cardinality(Places(wire, {t})) \in Nat /\ Cardinality(Places(sent, {t})) \in Nat
      BY <2>1, TalliesAreNumbers
    <3>5. Held(hand, "nats", t) \in {0, 1} /\ Held(hand, "grpc", t) \in {0, 1}
      BY HeldIsOneAtMost
    <3>6. Cardinality(Places(answered, About(t))) <= Cardinality(Places(sent, {t}))
      BY <3>3, <3>4, <3>5
    <3> QED  BY <3>1, <3>2, <3>6
  <2>3. ASSUME NEW i \in DOMAIN answered
        PROVE  LET e == answered[i]
                   asked == IF e.by = "grpc" THEN Unique(Requested[e.trigger])
                                             ELSE Requested[e.trigger]
               IN /\ [k \in DOMAIN e.results |-> e.results[k][1]] = asked
                  /\ e.accepted <=> \E k \in DOMAIN e.results : e.results[k][2]
    BY <2>1 DEF AnsweredOK, InFull, Asked
  <2> QED  BY <2>2, <2>3 DEF EachSpecialtyAnswered
<1> QED  BY <1>1, DispatchInvariant, PTL

LEMMA TellingsDiffer ==
  /\ <<>> # <<"dispatched">> /\ <<>> # <<"failed">> /\ <<"failed">> # <<"dispatched">>
  /\ \A x, y : <<x, y>> # <<>> /\ \A z : <<x, y>> # <<z>>
  /\ <<"dispatched", "failed">> # <<"dispatched", "completed">>
OBVIOUS

(* At most one announcement of a call is an ending, and it comes last. *)
LEMMA TellingsEndOnce ==
  ASSUME NEW events \in Tellings
  PROVE  LET ends == {i \in DOMAIN events : events[i] \in Endings}
         IN /\ Cardinality(ends) <= 1
            /\ \A i \in ends : i = Len(events)
            /\ ends # {} <=> events \notin {<<>>, <<"dispatched">>}
<1> DEFINE ends == {i \in DOMAIN events : events[i] \in Endings}
<1>1. CASE events \in {<<>>, <<"dispatched">>}
  <2>1. ends = {}
    BY <1>1 DEF Endings
  <2>2. Cardinality(ends) = 0
    BY <2>1, FS_EmptySet
  <2> QED  BY <1>1, <2>1, <2>2
<1>2. CASE events = <<"failed">>
  <2>1. ends = {1} /\ Len(events) = 1
    BY <1>2 DEF Endings
  <2>2. Cardinality(ends) = 1
    BY <2>1, FS_Singleton
  <2>3. events \notin {<<>>, <<"dispatched">>}
    BY <1>2
  <2> QED  BY <2>1, <2>2, <2>3
<1>3. CASE events \in {<<"dispatched", "completed">>, <<"dispatched", "failed">>}
  <2>1. ends = {2} /\ Len(events) = 2
    BY <1>3 DEF Endings
  <2>2. Cardinality(ends) = 1
    BY <2>1, FS_Singleton
  <2>3. events \notin {<<>>, <<"dispatched">>}
    BY <1>3
  <2> QED  BY <2>1, <2>2, <2>3
<1> QED  BY <1>1, <1>2, <1>3 DEF Tellings

(* What the bus, the caller and the counters are told of a call is what    *)
(* became of it, whichever of the three writes fails and wherever the      *)
(* process dies between them (orchestrate.rs, statistics.rs).              *)
THEOREM WorkIsToldAsItWent == Spec => []ToldAsItWent
<1>1. ASSUME IInv PROVE AnnouncedAsItWent
  <2> SUFFICES ASSUME NEW c \in Callers
               PROVE  LET o == orch[c]
                          ends == {i \in DOMAIN o.events : o.events[i] \in Endings}
                      IN /\ Cardinality(ends) <= 1
                         /\ \A i \in ends : /\ i = Len(o.events)
                                            /\ o.events[i] = "completed" <=> o.outcome = "succeeded"
                         /\ o.outcome # "none" => o.events # <<>> /\ o.events[1] = "dispatched"
                         /\ o.stage = "done" /\ ends = {} => o.faults # {}
                         /\ o.stage = "done" /\ o.result = "ok" => ends # {} /\ o.outcome # "error"
    BY DEF AnnouncedAsItWent, EndsTold
  <2> DEFINE o == orch[c]
             ends == {i \in DOMAIN o.events : o.events[i] \in Endings}
  <2>1. o \in Orchestrations /\ Told(o)
    BY <1>1 DEF IInv, CallOK, CallFine
  <2> HIDE DEF o
  <2>2. o.events \in Tellings /\ o.stage \in {"idle", "lookup", "convene", "dispatch", "execute",
          "invoke", "close", "record", "announce", "done", "cut"}
    BY <2>1 DEF Orchestrations
  <2>3. /\ Cardinality(ends) <= 1 /\ \A i \in ends : i = Len(o.events)
        /\ ends # {} <=> o.events \notin {<<>>, <<"dispatched">>}
    BY <2>2, TellingsEndOnce
  <2>4. ASSUME NEW i \in ends PROVE o.events[i] = "completed" <=> o.outcome = "succeeded"
    <3>1. o.events \in {<<"failed">>, <<"dispatched", "completed">>, <<"dispatched", "failed">>}
      BY <2>2, <2>3 DEF Tellings
    <3>2. o.events \notin {<<>>, <<"dispatched">>}
      BY <2>3
    <3>3. o.stage = "done" /\ o.faults = {}
      BY <2>1, <2>2, <3>2 DEF Told
    <3>4. \/ o.events = <<"dispatched", "completed">> /\ o.outcome = "succeeded"
          \/ o.events \in {<<"failed">>, <<"dispatched", "failed">>} /\ o.outcome # "succeeded"
      BY <2>1, <3>3 DEF Told
    <3>5. i = Len(o.events)
      BY <2>3
    <3>6. CASE o.events = <<"dispatched", "completed">> /\ o.outcome = "succeeded"
      BY <3>5, <3>6
    <3>7. CASE o.events = <<"failed">> /\ o.outcome # "succeeded"
      BY <3>5, <3>7
    <3>8. CASE o.events = <<"dispatched", "failed">> /\ o.outcome # "succeeded"
      BY <3>5, <3>8
    <3> QED  BY <3>4, <3>6, <3>7, <3>8
  <2>5. ASSUME o.outcome # "none" PROVE o.events # <<>> /\ o.events[1] = "dispatched"
    <3>1. o.events \in {<<"dispatched">>, <<"dispatched", "completed">>, <<"dispatched", "failed">>}
      BY <2>1, <2>2, <2>5 DEF Told
    <3>2. CASE o.events = <<"dispatched">>
      BY <3>2
    <3>3. CASE o.events = <<"dispatched", "completed">>
      BY <3>3
    <3>4. CASE o.events = <<"dispatched", "failed">>
      BY <3>4
    <3> QED  BY <3>1, <3>2, <3>3, <3>4
  <2> HIDE DEF ends
  <2>6. ASSUME o.stage = "done", ends = {} PROVE o.faults # {}
    BY <2>1, <2>3, <2>6, TellingsDiffer DEF Told
  <2>7. ASSUME o.stage = "done", o.result = "ok" PROVE ends # {} /\ o.outcome # "error"
    BY <2>1, <2>3, <2>7, TellingsDiffer DEF Told
  <2> QED  BY <2>3, <2>4, <2>5, <2>6, <2>7 DEF o, ends
<1>2. ASSUME IInv PROVE StatisticsAddUp
  <2> DEFINE won == {c \in Callers : orch[c].stage = "done" /\ orch[c].result = "ok"}
  <2>1. CountType /\ CountsOK
    BY <1>2 DEF IInv, TypeInv
  <2>2. Cardinality(Owing(orch)) \in Nat /\ IsFiniteSet(Fine(orch)) /\ Cardinality(Fine(orch)) \in Nat
    BY CallersCounted
  <2>3. stats.deliberations = Cardinality(UNION {{sp} \X (1..stats.per[sp]) : sp \in Specialties})
    BY <2>1 DEF CountsOK, Each
  <2>4. stats.deliberations \in Nat /\ stats.orchestrations \in Nat
    BY <2>1 DEF CountType
  <2>5. stats.orchestrations + Cardinality(Owing(orch)) <= stats.deliberations
    BY <2>1 DEF CountsOK
  <2>6. stats.orchestrations <= stats.deliberations
    BY <2>2, <2>4, <2>5
  <2>7. Cardinality(won) \in Nat /\ Cardinality(won) <= Cardinality(Fine(orch))
    <3>1. won \in SUBSET Fine(orch)
      BY DEF Fine
    <3> HIDE DEF won
    <3>2. IsFiniteSet(won) /\ Cardinality(won) <= Cardinality(Fine(orch))
      BY <2>2, <3>1, FS_Subset
    <3> QED  BY <3>2, FS_CardinalityType
  <2>8. wiring # None /\ wiring.persistence = "postgres" =>
          Cardinality(Fine(orch)) <= stats.orchestrations
    BY <2>1 DEF CountsOK
  <2>9. wiring # None /\ wiring.persistence = "postgres" =>
          stats.orchestrations >= Cardinality(won)
    <3> HIDE DEF won
    <3> QED  BY <2>2, <2>4, <2>7, <2>8
  <2> QED  BY <2>3, <2>6, <2>9 DEF StatisticsAddUp
<1>3. IInv => ToldAsItWent
  BY <1>1, <1>2 DEF ToldAsItWent
<1> QED  BY <1>3, DispatchInvariant, PTL
=============================================================================
