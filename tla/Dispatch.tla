------------------------------ MODULE Dispatch ------------------------------
(***************************************************************************)
(* The serving process: agents and councils in their registries,           *)
(* orchestrations called over gRPC (orchestrate.rs), triggers arriving     *)
(* over NATS or gRPC and fanned out to councils (subscriber.rs,            *)
(* auto_dispatch.rs), the runtime sessions an execution opens, the         *)
(* statistics kept, and the process starting, draining and dying.          *)
(*                                                                         *)
(* A deliberation is one step here, with the ways its module Deliberation  *)
(* can end; what matters is what was saved, counted and published by then. *)
(***************************************************************************)
EXTENDS Integers, Sequences, FiniteSets, Host, RuntimeExecutor

CONSTANTS
  Specialties,   \* the specialties councils are formed for
  Seats,         \* the largest council asked for
  Callers,       \* clients that each call Orchestrate once
  Triggers,      \* the trigger events producers send
  Requested,     \* trigger -> the sequence of specialties its JSON lists
  Newcomers,     \* the agents clients register, as <<specialty, slot>>
  Descriptors,   \* the [kind, attributes] clients register agents with
  Calls,         \* the [profile, explicit, winner] attribute maps of calls
  Envs, Reaches, \* the environments to start in, and what answers then
  Seeded,        \* the specialties listed in CHOREO_SEED_SPECIALTIES
  MaxKeys,       \* MAX_ATTRIBUTES_KEYS
  MaxArrivals, MaxChanges, MaxBoots, None

VARIABLES
  mode,      \* "down", "serving", "draining"
  wiring,    \* what compose() wired, None before the first start
  agents,    \* the agent registry: id -> the kind it resolves as, or None
  councils,  \* the council registry: specialty -> its members, or None
  creating,  \* a create_council between its check and its insert, or None
  orch,      \* the orchestration of each caller
  wire,      \* triggers published to NATS and not yet received
  hand,      \* what each dispatcher has in hand, or None
  answered,  \* the triggers whose dispatch returned, in order
  stats,     \* the operational counters
  vacated,   \* agents unregistered since they were last registered
  sent,      \* the triggers producers sent, over either way in
  changes, boots   \* how many changes of the registries and starts there were

vars == <<mode, wiring, agents, councils, creating, orch, wire, hand, answered,
          stats, vacated, sent, changes, boots>>

(* The ids CreateCouncil mints are a specialty and a slot; seeding has its own. *)
MintedAgent(sp, i) == <<sp, i>>
SeedSlot == Seats
SeedAgent(sp) == <<sp, SeedSlot>>
AgentIds == Specialties \X (0..SeedSlot)
Dispatchers == {"nats", "grpc"}

NoCount == [deliberations |-> 0, orchestrations |-> 0,
            per |-> [sp \in Specialties |-> 0]]
Unasked == [stage |-> "idle", specialty |-> None, seats |-> None, call |-> None,
            session |-> "none", asked |-> {}, outcome |-> "none", pending |-> "none",
            events |-> <<>>, faults |-> {}, result |-> "none"]

Init ==
  /\ mode = "down" /\ wiring = None
  /\ agents = [a \in AgentIds |-> None]
  /\ councils = [sp \in Specialties |-> None]
  /\ creating = None
  /\ orch = [c \in Callers |-> Unasked]
  /\ wire = <<>> /\ hand = [w \in Dispatchers |-> None] /\ answered = <<>>
  /\ stats = NoCount /\ vacated = {}
  /\ sent = <<>> /\ changes = 0 /\ boots = 0

-----------------------------------------------------------------------------
(* Starting.  In-memory registries start empty, Postgres ones as they were *)
(* left; seeding then registers what is missing and passes over what is    *)
(* there.                                                                  *)

Seed(registry, value(_)) ==
  [x \in DOMAIN registry |->
     IF registry[x] = None /\ value(x) # None THEN value(x) ELSE registry[x]]

ApplySeeding(registry, rooms) ==
  [agents |-> Seed(registry, LAMBDA a : IF a[2] = SeedSlot /\ a[1] \in Seeded
                                        THEN "noop" ELSE None),
   councils |-> Seed(rooms, LAMBDA sp : IF sp \in Seeded
                                        THEN {SeedAgent(sp)} ELSE None)]

(* What starting can come to, over every environment and what answers. *)
Starts == {Compose(env, reach) : env \in Envs, reach \in Reaches}

(* There are finitely many callers, councils have a size, a trigger that   *)
(* can be read lists specialties, and None is none of the things it may    *)
(* stand in for.                                                           *)
ASSUME InstanceAssumption ==
  /\ IsFiniteSet(Callers) /\ Seats \in Nat
  /\ Newcomers \subseteq AgentIds
  /\ \A t \in Triggers : Requested[t] = None \/ Requested[t] \in Seq(Specialties)
ASSUME AbsenceAssumption ==
  /\ None # "noop" /\ \A d \in Descriptors : d.kind # None
  /\ \A made \in Starts : made.ok => made.is # None

Boot ==
  /\ mode = "down" /\ boots < MaxBoots
  /\ boots' = boots + 1
  /\ \E made \in Starts :
       LET kept == made.ok /\ made.is.persistence = "postgres"
           seeded == ApplySeeding(IF kept THEN agents ELSE [a \in AgentIds |-> None],
                                  IF kept THEN councils ELSE [sp \in Specialties |-> None])
       IN IF ~made.ok THEN UNCHANGED <<mode, wiring, agents, councils, stats, vacated>>
          ELSE /\ wiring \in {None, made.is}
               /\ wiring' = made.is
               /\ mode' = "serving"
               /\ agents' = seeded.agents
               /\ councils' = seeded.councils
               /\ stats' = IF kept THEN stats ELSE NoCount
               /\ vacated' = {a \in vacated : seeded.agents[a] = None}
  /\ UNCHANGED <<creating, orch, wire, hand, answered, sent, changes>>

Signal ==
  /\ mode = "serving"
  /\ mode' = "draining"
  /\ UNCHANGED <<wiring, agents, councils, creating, orch, wire, hand, answered,
                 stats, vacated, sent, changes, boots>>

Busy(c) == orch[c].stage \notin {"idle", "done", "cut"}

(* A call the process died under: what it had reached is gone with it. *)
Gone == [Unasked EXCEPT !.stage = "cut"]

(* Both servers drain before the subscriber is aborted with whatever it    *)
(* has in hand.                                                            *)
Stop_JoinsSubscriber ==
  /\ mode = "draining" /\ wiring.messaging # "nats"
  /\ \A c \in Callers : ~Busy(c)
  /\ hand["grpc"] = None /\ creating = None
  /\ mode' = "down"
  /\ UNCHANGED <<wiring, agents, councils, creating, orch, wire, hand, answered, stats,
                 vacated, sent, changes, boots>>
Stop ==
  /\ mode = "draining"
  /\ \A c \in Callers : ~Busy(c)
  /\ hand["grpc"] = None /\ creating = None
  /\ mode' = "down"
  /\ hand' = [hand EXCEPT !["nats"] = None]
  /\ wire' = <<>>
  /\ UNCHANGED <<wiring, agents, councils, creating, orch, answered, stats, vacated,
                 sent, changes, boots>>

Crash ==
  /\ mode # "down"
  /\ mode' = "down"
  /\ orch' = [c \in Callers |-> IF Busy(c) THEN Gone ELSE orch[c]]
  /\ creating' = None
  /\ hand' = [w \in Dispatchers |-> None]
  /\ wire' = <<>>
  /\ UNCHANGED <<wiring, agents, councils, answered, stats, vacated, sent, changes, boots>>

-----------------------------------------------------------------------------
(* Agents and councils. *)

(* DispatchingAgentFactory::create: the noop kind reads no attributes, the *)
(* others refuse an override of the wrong type.                            *)
ApplyAttributes(attributes) == attributes # "bad"
Create(kinds, descriptor) ==
  IF descriptor.kind = "noop" THEN "noop"
  ELSE IF descriptor.kind \in kinds /\ ApplyAttributes(descriptor.attributes)
       THEN descriptor.kind ELSE "refused"

(* What a registry keeps of a live agent: the memory one the agent itself, *)
(* the Postgres one a row that says "noop" whatever the kind was.          *)
Kept(kind) == IF wiring.persistence = "postgres" THEN "noop" ELSE kind

Resolves(registry, a) == registry[a] # None

RegisterAgent(a, descriptor) ==
  /\ mode = "serving" /\ changes < MaxChanges
  /\ Create(wiring.kinds, descriptor) # "refused"
  /\ agents[a] = None
  /\ agents' = [agents EXCEPT ![a] = Kept(Create(wiring.kinds, descriptor))]
  /\ vacated' = vacated \ {a}
  /\ changes' = changes + 1
  /\ UNCHANGED <<mode, wiring, councils, creating, orch, wire, hand, answered, stats,
                 sent, boots>>

UnregisterAgent(a) ==
  /\ mode = "serving" /\ changes < MaxChanges
  /\ agents[a] # None
  /\ agents' = [agents EXCEPT ![a] = None]
  /\ vacated' = vacated \cup {a}
  /\ changes' = changes + 1
  /\ UNCHANGED <<mode, wiring, councils, creating, orch, wire, hand, answered, stats,
                 sent, boots>>

(* CreateCouncil mints the ids of its members, checks that each resolves,  *)
(* and registers the council afterwards.                                   *)
CreateCouncil_Unchecked(sp, n) ==
  /\ mode = "serving" /\ creating = None
  /\ creating' = [specialty |-> sp, members |-> {MintedAgent(sp, i) : i \in 0..n-1}]
  /\ UNCHANGED <<mode, wiring, agents, councils, orch, wire, hand, answered, stats,
                 vacated, sent, changes, boots>>
CreateCouncil(sp, n) ==
  /\ mode = "serving" /\ creating = None
  /\ \A i \in 0..n-1 : Resolves(agents, MintedAgent(sp, i))
  /\ creating' = [specialty |-> sp, members |-> {MintedAgent(sp, i) : i \in 0..n-1}]
  /\ UNCHANGED <<mode, wiring, agents, councils, orch, wire, hand, answered, stats,
                 vacated, sent, changes, boots>>

(* register: a specialty that has a council already keeps it. *)
RegisterCouncil ==
  /\ creating # None
  /\ councils' = IF councils[creating.specialty] = None
                 THEN [councils EXCEPT ![creating.specialty] = creating.members]
                 ELSE councils
  /\ creating' = None
  /\ UNCHANGED <<mode, wiring, agents, orch, wire, hand, answered, stats, vacated, sent,
                 changes, boots>>

DeleteCouncil(sp) ==
  /\ mode = "serving" /\ changes < MaxChanges
  /\ councils[sp] # None
  /\ councils' = [councils EXCEPT ![sp] = None]
  /\ changes' = changes + 1
  /\ UNCHANGED <<mode, wiring, agents, creating, orch, wire, hand, answered, stats,
                 vacated, sent, boots>>

-----------------------------------------------------------------------------
(* Deliberating, for a specialty and the council found for it. *)

BusFails == IF wiring.messaging = "nats" THEN BOOLEAN ELSE {FALSE}
DatabaseFails == IF wiring.persistence = "postgres" THEN BOOLEAN ELSE {FALSE}

Ends(seats) ==
  IF \E a \in seats : ~Resolves(agents, a) THEN {"unresolved"}
  ELSE {"won", "no_valid", "agent_error"}
       \cup {e \in {"save_failed", "stats_failed"} : TRUE \in DatabaseFails}
       \cup {e \in {"publish_failed"} : TRUE \in BusFails}

(* Counted once saved, whether or not a winner could then be picked. *)
Counts(end) == end \in {"won", "no_valid", "publish_failed"}

RecordDeliberation(counters, sp, end) ==
  IF Counts(end) THEN [counters EXCEPT !.deliberations = @ + 1, !.per[sp] = @ + 1]
  ELSE counters
RecordOrchestration(counters) == [counters EXCEPT !.orchestrations = @ + 1]

-----------------------------------------------------------------------------
(* Orchestrating.  Each await of orchestrate.rs is a step of its own. *)

Move(c, o) ==
  /\ orch' = [orch EXCEPT ![c] = o]
  /\ UNCHANGED <<mode, wiring, agents, councils, creating, wire, hand, answered,
                 vacated, sent, changes, boots>>

(* The bound on what arrives: calls in progress or done, and triggers sent. *)
MoreMayArrive ==
  Len(sent) + Cardinality({c \in Callers : orch[c].stage # "idle"}) < MaxArrivals

Orchestrate(c, sp, call) ==
  /\ mode = "serving" /\ orch[c].stage = "idle" /\ MoreMayArrive
  /\ Move(c, [Unasked EXCEPT !.stage = "lookup", !.specialty = sp, !.call = call])
  /\ UNCHANGED stats

Announcing(o, event, result) ==
  [o EXCEPT !.stage = "announce", !.pending = event, !.result = result]

LookupCouncil(c) ==
  /\ orch[c].stage = "lookup"
  /\ LET o == orch[c] IN
       Move(c, IF councils[o.specialty] = None
               THEN Announcing(o, "failed", "err")
               ELSE [o EXCEPT !.stage = "convene", !.seats = councils[o.specialty]])
  /\ UNCHANGED stats

Deliberate(c) ==
  /\ orch[c].stage = "convene"
  /\ LET o == orch[c] IN
       \E end \in Ends(o.seats) :
         /\ stats' = RecordDeliberation(stats, o.specialty, end)
         /\ Move(c, IF end = "won" THEN [o EXCEPT !.stage = "dispatch"]
                                   ELSE Announcing(o, "failed", "err"))

Published(o, event) == [o EXCEPT !.events = Append(@, event)]
Faulted(o, port) == [o EXCEPT !.faults = @ \cup {port}]

PublishDispatched(c) ==
  /\ orch[c].stage = "dispatch"
  /\ LET o == orch[c] IN
       \E fails \in BusFails :
         Move(c, IF fails
                 THEN [Faulted(o, "bus") EXCEPT !.stage = "done", !.result = "err"]
                 ELSE [Published(o, "dispatched") EXCEPT !.stage = "execute"])
  /\ UNCHANGED stats

(* What the request of an execution amounts to, from the merged options. *)
Options(o) == MergeExecutionOptions(o.call.profile, o.call.explicit)
Request(o) == FromInputs(Options(o), o.call.winner)

Settled(o, outcome) ==
  IF outcome = "error" THEN [Announcing(o, "failed", "err") EXCEPT !.outcome = "error"]
  ELSE [o EXCEPT !.stage = "record", !.outcome = outcome]

(* Two sets of options that are each small enough may be too many once     *)
(* merged: the call then ends there and then.  The noop executor succeeds  *)
(* at once; the runtime one uses the session the caller named, or opens    *)
(* one of its own first.                                                   *)
Execute(c) ==
  /\ orch[c].stage = "execute"
  /\ LET o == orch[c] IN
       IF Cardinality(DOMAIN Options(o)) > MaxKeys
       THEN Move(c, [Faulted(o, "options") EXCEPT !.stage = "done", !.result = "err"])
       ELSE IF wiring.executor = "noop" THEN Move(c, Settled(o, "succeeded"))
       ELSE IF ~Request(o).ok THEN Move(c, Settled(o, "error"))
       ELSE IF Request(o).session
            THEN Move(c, [o EXCEPT !.stage = "invoke", !.session = "theirs"])
       ELSE LET asked == [o EXCEPT !.asked = {CreateSessionRequest(Request(o))}]
            IN \E opened \in BOOLEAN :
                 Move(c, IF opened THEN [asked EXCEPT !.stage = "invoke", !.session = "ours"]
                                   ELSE Settled(asked, "error"))
  /\ UNCHANGED stats

(* The tool runs; its answer is kept back until a session opened here has  *)
(* been closed.                                                            *)
InvokeTool_ErrorSkipsClose(c) ==
  /\ orch[c].stage = "invoke"
  /\ LET o == [orch[c] EXCEPT !.asked = @ \cup {InvokeToolRequest(Request(orch[c]),
                                                                   orch[c].session)}] IN
       \E status \in Statuses \cup {"call_failed"}, duration \in {-1, 1} :
         LET outcome == IF status = "call_failed" THEN "error"
                        ELSE ExecutionOutcome(status, duration)
         IN Move(c, IF o.session = "ours" /\ outcome # "error"
                    THEN [o EXCEPT !.stage = "close", !.outcome = outcome]
                    ELSE Settled(o, outcome))
  /\ UNCHANGED stats
InvokeTool(c) ==
  /\ orch[c].stage = "invoke"
  /\ LET o == [orch[c] EXCEPT !.asked = @ \cup {InvokeToolRequest(Request(orch[c]),
                                                                   orch[c].session)}] IN
       \E status \in Statuses \cup {"call_failed"}, duration \in {-1, 1} :
         LET outcome == IF status = "call_failed" THEN "error"
                        ELSE ExecutionOutcome(status, duration)
         IN Move(c, IF o.session = "ours"
                    THEN [o EXCEPT !.stage = "close", !.outcome = outcome]
                    ELSE Settled(o, outcome))
  /\ UNCHANGED stats

(* best_effort_close_session: a close that fails is only logged. *)
CloseSession(c) ==
  /\ orch[c].stage = "close"
  /\ \E closed \in BOOLEAN :
       Move(c, Settled([orch[c] EXCEPT !.session = IF closed THEN "closed" ELSE "close_failed"],
                       orch[c].outcome))
  /\ UNCHANGED stats

RecordExecution_FailedCounts(c) ==
  /\ orch[c].stage = "record"
  /\ stats' = RecordOrchestration(stats)
  /\ Move(c, Announcing(orch[c], "completed", "ok"))
RecordExecution(c) ==
  /\ orch[c].stage = "record"
  /\ LET o == orch[c] IN
       \E fails \in DatabaseFails :
         IF fails
         THEN /\ Move(c, [Faulted(o, "database") EXCEPT !.stage = "done", !.result = "err"])
              /\ UNCHANGED stats
         ELSE /\ stats' = RecordOrchestration(stats)
              /\ Move(c, Announcing(o, IF o.outcome = "succeeded" THEN "completed" ELSE "failed",
                                    "ok"))

(* publish_task_completed, publish_task_failed: one that fails takes the   *)
(* place of whatever the call was about to return.                         *)
PublishEnding(c) ==
  /\ orch[c].stage = "announce"
  /\ LET o == orch[c] IN
       \E fails \in BusFails :
         Move(c, IF fails
                 THEN [Faulted(o, "bus") EXCEPT !.stage = "done", !.result = "err"]
                 ELSE [Published(o, o.pending) EXCEPT !.stage = "done"])
  /\ UNCHANGED stats

-----------------------------------------------------------------------------
(* Triggers.  Core NATS delivers at most once, to whoever is subscribed;   *)
(* a producer that hears nothing may publish again.                        *)

SendTrigger(t) ==
  /\ MoreMayArrive
  /\ sent' = Append(sent, t)
  /\ wire' = IF mode # "down" /\ wiring.messaging = "nats" THEN Append(wire, t) ELSE wire
  /\ UNCHANGED <<mode, wiring, agents, councils, creating, orch, hand, answered, stats,
                 vacated, changes, boots>>

LoseTrigger ==
  /\ wire # <<>>
  /\ wire' = Tail(wire)
  /\ UNCHANGED <<mode, wiring, agents, councils, creating, orch, hand, answered, stats,
                 vacated, sent, changes, boots>>

(* TriggerEvent::new, which the gRPC path goes through: each specialty     *)
(* once, where it first appears, and none is refused.                      *)
Unique(list) ==
  LET firsts == {i \in DOMAIN list : \A j \in 1..i-1 : list[j] # list[i]}
      nth(k) == CHOOSE i \in firsts : Cardinality({j \in firsts : j <= i}) = k
  IN [k \in 1..Cardinality(firsts) |-> list[nth(k)]]

InHand(t, list) == [trigger |-> t, list |-> list, seats |-> None, results |-> <<>>]

(* handle_message: the JSON is read straight into the event, so its list   *)
(* stands as sent; one that is not a trigger is dropped.                   *)
HandleMessage ==
  /\ mode # "down" /\ hand["nats"] = None /\ wire # <<>>
  /\ wire' = Tail(wire)
  /\ hand' = [hand EXCEPT !["nats"] = IF Requested[Head(wire)] = None THEN None
                                      ELSE InHand(Head(wire), Requested[Head(wire)])]
  /\ UNCHANGED <<mode, wiring, agents, councils, creating, orch, answered, stats,
                 vacated, sent, changes, boots>>

ProcessTriggerEvent(t) ==
  /\ mode = "serving" /\ hand["grpc"] = None /\ MoreMayArrive
  /\ sent' = Append(sent, t)
  /\ Requested[t] # None /\ Unique(Requested[t]) # <<>>
  /\ hand' = [hand EXCEPT !["grpc"] = InHand(t, Unique(Requested[t]))]
  /\ UNCHANGED <<mode, wiring, agents, councils, creating, orch, wire, answered, stats,
                 vacated, changes, boots>>

Position(h) == Len(h.results) + 1
Underway(w) == hand[w] # None /\ Position(hand[w]) <= Len(hand[w].list)
Answer(w, success) ==
  hand' = [hand EXCEPT ![w].seats = None,
                       ![w].results = Append(@, <<hand[w].list[Position(hand[w])], success>>)]

(* AutoDispatchService::dispatch, one specialty at a time: a specialty     *)
(* that fails is noted and the next one still runs.                        *)
DispatchLookup_FailsFast(w) ==
  /\ Underway(w) /\ hand[w].seats = None
  /\ LET sp == hand[w].list[Position(hand[w])] IN
       hand' = IF councils[sp] = None
               THEN [hand EXCEPT ![w].list = SubSeq(@, 1, Position(hand[w])),
                                 ![w].results = Append(@, <<sp, FALSE>>)]
               ELSE [hand EXCEPT ![w].seats = councils[sp]]
  /\ UNCHANGED <<mode, wiring, agents, councils, creating, orch, wire, answered, stats,
                 vacated, sent, changes, boots>>
DispatchLookup(w) ==
  /\ Underway(w) /\ hand[w].seats = None
  /\ LET sp == hand[w].list[Position(hand[w])] IN
       IF councils[sp] = None THEN Answer(w, FALSE)
       ELSE hand' = [hand EXCEPT ![w].seats = councils[sp]]
  /\ UNCHANGED <<mode, wiring, agents, councils, creating, orch, wire, answered, stats,
                 vacated, sent, changes, boots>>

DispatchDeliberate(w) ==
  /\ Underway(w) /\ hand[w].seats # None
  /\ \E end \in Ends(hand[w].seats) :
       /\ stats' = RecordDeliberation(stats, hand[w].list[Position(hand[w])], end)
       /\ Answer(w, end = "won")
  /\ UNCHANGED <<mode, wiring, agents, councils, creating, orch, wire, answered,
                 vacated, sent, changes, boots>>

(* AutoDispatchOutcome::accepted *)
Accepted(results) == \E i \in DOMAIN results : results[i][2]

DispatchReturns(w) ==
  /\ hand[w] # None /\ ~Underway(w)
  /\ answered' = Append(answered, [trigger |-> hand[w].trigger, by |-> w,
                                   results |-> hand[w].results,
                                   accepted |-> Accepted(hand[w].results)])
  /\ hand' = [hand EXCEPT ![w] = None]
  /\ UNCHANGED <<mode, wiring, agents, councils, creating, orch, wire, stats,
                 vacated, sent, changes, boots>>

-----------------------------------------------------------------------------
OrchestrationStep(c) ==
  \/ LookupCouncil(c) \/ Deliberate(c) \/ PublishDispatched(c) \/ Execute(c)
  \/ InvokeTool(c) \/ CloseSession(c) \/ RecordExecution(c) \/ PublishEnding(c)
DispatchStep(w) == DispatchLookup(w) \/ DispatchDeliberate(w) \/ DispatchReturns(w)

Next ==
  \/ Boot \/ Signal \/ Stop \/ Crash
  \/ \E a \in Newcomers, d \in Descriptors : RegisterAgent(a, d)
  \/ \E a \in AgentIds : UnregisterAgent(a)
  \/ \E sp \in Specialties, n \in 1..Seats : CreateCouncil(sp, n)
  \/ RegisterCouncil
  \/ \E sp \in Specialties : DeleteCouncil(sp)
  \/ \E c \in Callers, sp \in Specialties, call \in Calls : Orchestrate(c, sp, call)
  \/ \E c \in Callers : OrchestrationStep(c)
  \/ \E t \in Triggers : SendTrigger(t) \/ ProcessTriggerEvent(t)
  \/ LoseTrigger \/ HandleMessage
  \/ \E w \in Dispatchers : DispatchStep(w)

(* Every await of a call returns: provider and runtime calls carry         *)
(* timeouts, and the runtime schedules every task that can move.           *)
Fairness ==
  /\ \A c \in Callers : WF_vars(OrchestrationStep(c))
  /\ WF_vars(DispatchStep("grpc"))
  /\ WF_vars(RegisterCouncil) /\ WF_vars(Stop)

Spec == Init /\ [][Next]_vars /\ Fairness

-----------------------------------------------------------------------------
(* Properties. *)

Endings == {"completed", "failed"}

(* Where among what a call published its endings are. *)
EndsTold(o) == {i \in DOMAIN o.events : o.events[i] \in Endings}

(* An orchestration tells the bus what happened to it: work is only done   *)
(* after it was announced as dispatched, it is called completed only if    *)
(* the executor said it succeeded, and it is never ended twice.  The       *)
(* header promises an ending of every call (orchestrate.rs:4-6); what the  *)
(* code gives is one of every call under which neither the bus nor the     *)
(* counters failed and whose options could be merged (121-122, 131-133).   *)
AnnouncedAsItWent ==
  \A c \in Callers :
    LET o == orch[c]
        ends == EndsTold(o)
    IN /\ Cardinality(ends) <= 1
       /\ \A i \in ends : /\ i = Len(o.events)
                          /\ o.events[i] = "completed" <=> o.outcome = "succeeded"
       /\ o.outcome # "none" => o.events # <<>> /\ o.events[1] = "dispatched"
       /\ o.stage = "done" /\ ends = {} => o.faults # {}
       /\ o.stage = "done" /\ o.result = "ok" => ends # {} /\ o.outcome # "error"

(* The value of an option the caller meant: the explicit one, else the     *)
(* task profile's, else the winner's.                                      *)
Meant(call, key) ==
  IF key \in DOMAIN call.explicit THEN call.explicit[key]
  ELSE IF key \in DOMAIN call.profile THEN call.profile[key]
  ELSE IF key \in DOMAIN call.winner THEN call.winner[key] ELSE "null"

(* A runtime session opened for one execution is handed back before the    *)
(* call ends, however the invocation went, and a session the caller named  *)
(* is used as it is: nothing else is opened and it is not closed.  The     *)
(* tool is asked for as approved only where the option that takes          *)
(* precedence says so (runtime.rs execute, orchestrate.rs merge).          *)
SessionsHandedBack ==
  \A c \in Callers :
    LET o == orch[c] IN
      /\ o.stage \in {"record", "announce", "done"} => o.session # "ours"
      /\ o.session # "none" =>
           (o.session = "theirs" <=> Meant(o.call, "session_id") = "text")
      /\ \A ask \in o.asked :
           "approved" \in DOMAIN ask => (ask.approved <=> Meant(o.call, "approved") = "true")

(* Every member of a council resolves, or was unregistered after the       *)
(* council's creation had checked it (create_council.rs).                  *)
SeatsWereFilled ==
  \A sp \in Specialties :
    councils[sp] # None => \A a \in councils[sp] : agents[a] # None \/ a \in vacated

(* A dispatch that returned answered for all its trigger listed, in order  *)
(* and whatever became of the ones before: over gRPC each specialty once,  *)
(* over NATS once for every mention, as the subscriber does not go through *)
(* TriggerEvent::new and its promise (trigger.rs:38-40); and a trigger,    *)
(* however often it is sent again, is answered no more often than that     *)
(* (auto_dispatch.rs).                                                     *)
EachSpecialtyAnswered ==
  /\ \A i \in DOMAIN answered :
       LET e == answered[i]
           asked == IF e.by = "grpc" THEN Unique(Requested[e.trigger])
                                     ELSE Requested[e.trigger]
       IN /\ [k \in DOMAIN e.results |-> e.results[k][1]] = asked
          /\ e.accepted <=> \E k \in DOMAIN e.results : e.results[k][2]
  /\ \A t \in Triggers :
       Cardinality({i \in DOMAIN answered : answered[i].trigger = t})
         <= Cardinality({i \in DOMAIN sent : sent[i] = t})

(* The counters agree with each other at all times, across drains, crashes *)
(* and restarts on either store: the total is the sum over specialties     *)
(* (the size of the union of what each has counted), no orchestration is   *)
(* counted whose deliberation was not, and each one whose ending says "ok" *)
(* was counted (statistics.rs).                                            *)
StatisticsAddUp ==
  LET each == UNION {{sp} \X (1..stats.per[sp]) : sp \in Specialties}
      won == {c \in Callers : orch[c].stage = "done" /\ orch[c].result = "ok"}
  IN /\ stats.deliberations = Cardinality(each)
     /\ stats.orchestrations <= stats.deliberations
     /\ wiring # None /\ wiring.persistence = "postgres" =>
          stats.orchestrations >= Cardinality(won)

(* What the service says of its work is what became of it: on the bus, to  *)
(* the caller and in the counters, although each is written by a step of   *)
(* its own and any of them may fail.                                       *)
ToldAsItWent == AnnouncedAsItWent /\ StatisticsAddUp

(* Every orchestration that was let in comes to an end, and a process told *)
(* to stop does stop, however busy it was.                                 *)
WorkEnds ==
  /\ \A c \in Callers : Busy(c) ~> ~Busy(c)
  /\ mode = "draining" ~> mode = "down"
=============================================================================
