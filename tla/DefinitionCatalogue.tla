------------------------- MODULE DefinitionCatalogue -------------------------
(***************************************************************************)
(* Where definitions live and how sessions find theirs. The repository     *)
(* holds the latest definition saved under a version and is kept in memory *)
(* only; the catalogue of published versions and the sessions share one    *)
(* store, durable or not (compose.rs). A session started from the          *)
(* catalogue is bound to the digest of what it was started from; any other *)
(* resolves, each time it is advanced, to what the repository then holds.  *)
(* Callers save, publish and open in separate steps that interleave, and   *)
(* the process may stop between any two of them.                           *)
(***************************************************************************)
EXTENDS CeremonyDefinition

CONSTANTS
    Versions,     \* names and versions a definition may carry
    Drafts,       \* the drafts an author may walk in with
    Offered,      \* drafts submitted later on
    Mountable,    \* the definitions in the directory that is mounted
    Callers, Sessions,
    NoSession,
    Durable       \* a store path is configured

\* Everything that may be submitted, mounted or stored.
Designs == Drafts \cup Offered \cup ToSet(Mountable)

ASSUME DesignsAssumption ==
    /\ \A d \in Designs : WellTyped(d, Versions)
    /\ Mountable \in Seq(Designs)
    /\ NoDefinition \notin Designs

VARIABLES
    desk,         \* the draft an author is about to submit
    repository,   \* CeremonyDefinitionRepositoryPort, in memory
    catalogue,    \* CeremonyDefinitionPublicationPort
    sessions,     \* the ceremony store
    hand          \* what each caller holds between two steps of its use case

vars == <<desk, repository, catalogue, sessions, hand>>

Idle == [doing |-> "nothing"]
Opening(id, definition, bound) ==
    [doing |-> "opening", id |-> id, definition |-> definition, bound |-> bound]
Mounting(definitions) == [doing |-> "mounting", rest |-> definitions]

Slots == [Versions -> {NoDefinition}]

Init ==
    /\ desk \in Drafts
    /\ repository \in Slots
    /\ catalogue \in Slots
    /\ sessions = [s \in Sessions |-> NoSession]
    /\ hand = [c \in Callers |-> Idle]

-----------------------------------------------------------------------------
(***************************************************************************)
(* The identity of a definition's content: everything the aggregate holds, *)
(* in canonical form. Declarations are maps, transitions and the order of  *)
(* steps are not. The hash is taken to be injective.                       *)
(***************************************************************************)
Digest(d) ==
    [d EXCEPT !.states = ToSet(@), !.guards = ToSet(@), !.roles = ToSet(@),
              !.inputs = ToSet(@), !.outputs = ToSet(@)]

ASSUME DigestsAssumption == \A d \in Designs : Digest(d) # NoDefinition

\* Seal the definition and take the slot, or be told that it is taken, by
\* the same content or by another; read and write are one critical section.
Publish_Overwrites(slots, d) == [slots EXCEPT ![d.version] = d]

Publish(slots, d) ==
    IF slots[d.version] = NoDefinition THEN [slots EXCEPT ![d.version] = d] ELSE slots

\* CeremonyDefinitionRepositoryPort::save: the last one wins.
Save(slots, d) == [slots EXCEPT ![d.version] = d]

\* CeremonyInstance::start and start_bound.
Started(d, bound) ==
    [version |-> d.version, digest |-> IF bound THEN Digest(d) ELSE NoDefinition,
     ran |-> d,             \* what it was opened under, remembered for the properties
     here |-> TRUE,         \* and whether the process that opened it is still up
     state |-> CHOOSE s \in StatesOf(d, "initial") : TRUE,
     done |-> {}, approved |-> {}]

SessionRecords ==
    [version: Versions, digest: {NoDefinition} \cup {Digest(d) : d \in Designs},
     ran: Designs, here: BOOLEAN, state: Nat, done: SUBSET Nat, approved: SUBSET Nat]

ASSUME NoSessionAssumption == NoSession \notin SessionRecords

\* ResolveCeremonyDefinitionUseCase: NoDefinition stands for its errors.
Resolve(s) ==
    IF s.digest = NoDefinition THEN repository[s.version]
    ELSE IF catalogue[s.version] = NoDefinition THEN NoDefinition
    ELSE IF Digest(catalogue[s.version]) # s.digest THEN NoDefinition
    ELSE catalogue[s.version]

-----------------------------------------------------------------------------
\* An author submits a draft. One that does not construct is refused, with
\* the defect Refusal names, and leaves nothing behind.
Withdraw ==
    /\ desk # NoDefinition
    /\ ~Constructs(desk)
    /\ desk' = NoDefinition
    /\ UNCHANGED <<repository, catalogue, sessions, hand>>

PublishDefinition ==
    /\ desk # NoDefinition
    /\ Constructs(desk)
    /\ catalogue' = Publish(catalogue, desk)
    /\ desk' = NoDefinition
    /\ UNCHANGED <<repository, sessions, hand>>

Revise(d) ==
    /\ desk = NoDefinition
    /\ desk' = d
    /\ UNCHANGED <<repository, catalogue, sessions, hand>>

\* mount_ceremony_definitions: everything is loaded first, and one document
\* that does not construct fails the whole load; then each is saved in turn.
Mount(c) ==
    /\ hand[c] = Idle
    /\ Mountable # <<>>
    /\ \A p \in DOMAIN Mountable : Constructs(Mountable[p])
    /\ hand' = [hand EXCEPT ![c] = Mounting(Mountable)]
    /\ UNCHANGED <<desk, repository, catalogue, sessions>>

MountNext(c) ==
    /\ hand[c].doing = "mounting"
    /\ repository' = Save(repository, Head(hand[c].rest))
    /\ hand' = [hand EXCEPT ![c] = IF Len(@.rest) = 1 THEN Idle ELSE Mounting(Tail(@.rest))]
    /\ UNCHANGED <<desk, catalogue, sessions>>

\* run_ceremony, up to the opening commit: the session must not exist, then
\* the definition is saved.
Run(c, id) ==
    /\ hand[c] = Idle
    /\ desk # NoDefinition
    /\ Constructs(desk)
    /\ sessions[id] = NoSession
    /\ repository' = Save(repository, desk)
    /\ hand' = [hand EXCEPT ![c] = Opening(id, desk, FALSE)]
    /\ desk' = NoDefinition
    /\ UNCHANGED <<catalogue, sessions>>

\* start_ceremony: no look at the sessions, the commit is the guard.
Start(c, id, v) ==
    /\ hand[c] = Idle
    /\ repository[v] # NoDefinition
    /\ hand' = [hand EXCEPT ![c] = Opening(id, repository[v], FALSE)]
    /\ UNCHANGED <<desk, repository, catalogue, sessions>>

\* start_published_ceremony: never from the repository.
StartPublished(c, id, v) ==
    /\ hand[c] = Idle
    /\ catalogue[v] # NoDefinition
    /\ hand' = [hand EXCEPT ![c] = Opening(id, catalogue[v], TRUE)]
    /\ UNCHANGED <<desk, repository, catalogue, sessions>>

\* SessionJournal::open: stored if new; the loser of a race is told.
Open(c) ==
    /\ hand[c].doing = "opening"
    /\ IF sessions[hand[c].id] = NoSession
       THEN sessions' = [sessions EXCEPT ![hand[c].id] = Started(hand[c].definition, hand[c].bound)]
       ELSE UNCHANGED sessions
    /\ hand' = [hand EXCEPT ![c] = Idle]
    /\ UNCHANGED <<desk, repository, catalogue>>

-----------------------------------------------------------------------------
(***************************************************************************)
(* Advancing a session, under whatever it resolves to at that moment. The  *)
(* operations themselves are CeremonyInstance; here they are only what the *)
(* definition allows.                                                      *)
(***************************************************************************)
RoleFor(d, action) == {r \in ToSet(d.roles) : action \in r.actions}

GuardHolds(d, s, name) ==
    LET c == Get(d.guards, name).condition IN
    CASE c.kind = "always" -> TRUE
      [] c.kind = "step_status" -> c.step \in s.done
      [] c.kind = "human_approval" -> name \in s.approved

MayAdvance(s, d) ==
    d # NoDefinition /\ s.state \in Ids(d.states) \ StatesOf(d, "terminal")

\* transition_for_trigger and its guards.
WaysOut(d, s) ==
    {t \in ToSet(d.transitions) : t.from = s.state /\ \A g \in t.guards : GuardHolds(d, s, g)}

Advances(s, d) ==
    {[s EXCEPT !.state = t.to] :
        t \in {t \in WaysOut(d, s) : RoleFor(d, TransitionAction(t.trigger)) # {}}}
    \cup {[s EXCEPT !.done = @ \cup {x.id}] :
        x \in {x \in ToSet(d.steps) : x.state = s.state /\ RoleFor(d, StepAction(x.id)) # {}}}
    \cup {[s EXCEPT !.approved = @ \cup {g.id}] :
        g \in {g \in ToSet(d.guards) : g.condition.kind = "human_approval" /\ d.roles # <<>>}}

Advance(id) ==
    /\ sessions[id] # NoSession
    /\ MayAdvance(sessions[id], Resolve(sessions[id]))
    /\ \E next \in Advances(sessions[id], Resolve(sessions[id])) :
         sessions' = [sessions EXCEPT ![id] = next]
    /\ UNCHANGED <<desk, repository, catalogue, hand>>

-----------------------------------------------------------------------------
\* The process stops and starts again, with nothing in flight. The catalogue
\* and the sessions survive together or not at all.
Restart ==
    /\ hand' = [c \in Callers |-> Idle]
    /\ repository' \in Slots
    /\ IF Durable THEN UNCHANGED catalogue ELSE catalogue' \in Slots
    /\ sessions' = [s \in Sessions |-> IF sessions[s] = NoSession \/ ~Durable THEN NoSession
                                       ELSE [sessions[s] EXCEPT !.here = FALSE]]
    /\ UNCHANGED desk

Next ==
    \/ Withdraw \/ PublishDefinition \/ \E d \in Offered : Revise(d)
    \/ \E c \in Callers :
        \/ Mount(c) \/ MountNext(c) \/ Open(c)
        \/ \E id \in Sessions :
            \/ Run(c, id)
            \/ \E v \in Versions : Start(c, id, v) \/ StartPublished(c, id, v)
    \/ \E id \in Sessions : Advance(id)
    \/ Restart

Spec == Init /\ [][Next]_vars

-----------------------------------------------------------------------------
OpenSessions == {sessions[id] : id \in Sessions} \ {NoSession}

Known == {repository[v] : v \in Versions} \cup {catalogue[v] : v \in Versions}

(***************************************************************************)
(* Whatever got past the constructor is a state machine a session can run: *)
(* the assumptions CeremonyInstance makes of its definition. The analysis  *)
(* stops at the first rule a transition breaks, and skips rules after it,  *)
(* so this is about the rules together (ceremony_definition_analysis.rs).  *)
(***************************************************************************)
IsStateMachine(d) ==
    LET running == Ids(d.states) \ StatesOf(d, "terminal") IN
    /\ \E s \in running : StatesOf(d, "initial") = {s}
    /\ \A x \in ToSet(d.steps) : x.state \in running
    /\ \A t \in ToSet(d.transitions) :
         t.from \in running /\ t.to \in Ids(d.states) /\ t.guards \subseteq Ids(d.guards)
    /\ \A p, q \in DOMAIN d.transitions :
         Keyed(d.transitions[p]) = Keyed(d.transitions[q]) => p = q
    /\ \A g \in ToSet(d.guards) :
         g.condition.kind = "step_status" => g.condition.step \in Ids(d.steps)
    /\ \A items \in {d.states, d.steps, d.guards, d.roles, d.inputs, d.outputs} :
         Cardinality(Ids(items)) = Len(items)

\* Every stored definition is one (CeremonyDefinition::new).
AcceptedIsSound == \A d \in Known \ {NoDefinition} : IsStateMachine(d)

(***************************************************************************)
(* The first error of the report on a draft is the error the constructor   *)
(* refuses it with, and there is one exactly when it is refused, although  *)
(* the report goes on past duplicates and the constructor does not         *)
(* (ceremony_definition.rs, 306-307; ceremony_validation_report.rs, 9-10). *)
(***************************************************************************)
RefusedForItsFirstError ==
    desk # NoDefinition => Refusal(desk) = FirstError(AnalyzeDraft(desk))

\* The states no set closed under the transitions can leave out.
ForcedBy(d, start) ==
    {s \in Ids(d.states) :
       \A S \in SUBSET Ids(d.states) :
         start \subseteq S /\ (\A t \in ToSet(d.transitions) : t.from \in S => t.to \in S)
           => s \in S}

\* The states the analysis of a definition warns of.
Warned(d, defect) == {f.state : f \in {f \in ToSet(AnalyzeDraft(d)) : f.defect = defect}}

(***************************************************************************)
(* The warnings tell the truth about bound sessions: none is ever in a     *)
(* state its definition was warned cannot be reached, and where a session  *)
(* is warned that it cannot finish, and only there, no way on leads to an  *)
(* end. An unbound session can be moved by one definition and then resolve *)
(* to another, whose warnings say nothing of how it got there.             *)
(***************************************************************************)
WarningsAreRight ==
    \A s \in {s \in OpenSessions : s.digest # NoDefinition} :
      /\ s.state \notin Warned(s.ran, "unreachable")
      /\ s.state \in Warned(s.ran, "cannot finish") \/ 0 \in Warned(s.ran, "no terminal state")
           <=> ForcedBy(s.ran, {s.state}) \cap StatesOf(s.ran, "terminal") = {}

(***************************************************************************)
(* What the analysis says of a draft is so, for every draft and however it *)
(* came: what it accepts is a state machine, what it refuses it refuses    *)
(* for the reason it reports first, and what it warns of is what sessions  *)
(* then meet.                                                              *)
(***************************************************************************)
AnalysisIsRight == AcceptedIsSound /\ RefusedForItsFirstError /\ WarningsAreRight

(***************************************************************************)
(* A bound session always resolves, to exactly the content it was started  *)
(* from: through racing publications, definitions saved under the same     *)
(* version, and restarts. Any other resolves to some definition until the  *)
(* process that opened it stops (resolve_ceremony_definition, 38-46).      *)
(***************************************************************************)
SessionsResolve ==
    \A s \in OpenSessions :
      /\ s.digest # NoDefinition => Resolve(s) # NoDefinition /\ Digest(Resolve(s)) = Digest(s.ran)
      /\ s.here => Resolve(s) # NoDefinition

\* Where a way out of the session's state leads, under a definition.
Leads(d, s) == {<<Keyed(t), t.to>> : t \in {t \in ToSet(d.transitions) : t.from = s.state}}

(***************************************************************************)
(* A version that does not strand running sessions leaves a bound one with *)
(* somewhere to go: its state is there, open or final as it was, every way *)
(* out it had leads where it led, and is open if it was, unless guards     *)
(* were put in its way (ceremony_definition_diff.rs, 30-44).               *)
(***************************************************************************)
CarriedSessionsGoOn ==
    \A s \in {s \in OpenSessions : s.digest # NoDefinition} : \A d \in Known \ {NoDefinition} :
      ~StrandsRunningSessions(s.ran, d) =>
        /\ s.state \in Ids(d.states)
        /\ s.state \in StatesOf(s.ran, "terminal") <=> s.state \in StatesOf(d, "terminal")
        /\ Leads(s.ran, s) \subseteq Leads(d, s)
        /\ \A t \in WaysOut(s.ran, s) :
             WayOut(d, Keyed(t)).guards \subseteq t.guards => WayOut(d, Keyed(t)) \in WaysOut(d, s)

=============================================================================
