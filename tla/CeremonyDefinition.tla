-------------------------- MODULE CeremonyDefinition --------------------------
(***************************************************************************)
(* Ceremony definitions as values (choreo-core, entities/ceremony_         *)
(* definition*.rs): the document an author writes, the draft it becomes,   *)
(* the report on a draft, the constructor that accepts or refuses one, and *)
(* the comparison of two accepted ones. Identifiers are numbers, because   *)
(* the maps of the code are walked in identifier order; a role's action in *)
(* a document is a bare label that is resolved against steps and triggers. *)
(* A definition is a draft that was accepted.                              *)
(***************************************************************************)
EXTENDS Naturals, Sequences, FiniteSets, SequencesExt

CONSTANTS
    NoDefinition,      \* where a definition might be, and is not
    CapabilityLabels   \* the labels of actions that name no step or trigger

\* RoleAction: a step, a trigger, or one of two capabilities without a value.
StepAction(id) == [kind |-> "step", of |-> id]
TransitionAction(trigger) == [kind |-> "transition", of |-> trigger]
Capability(label) == [kind |-> "capability", of |-> label]

IdOf(x) == x.id

\* The declarations. `handling` stands for a step's handler, configuration,
\* retries and timeout, which no rule here looks at.
State(id, kind) == [id |-> id, kind |-> kind]
Transition(from, trigger, to, guards) ==
    [from |-> from, trigger |-> trigger, to |-> to, guards |-> guards]
Step(id, state) == [id |-> id, state |-> state, handling |-> "x"]
Guard(id, condition) == [id |-> id, condition |-> condition]
Role(id, actions) == [id |-> id, actions |-> actions]
Input(id, required) == [id |-> id, required |-> required]

\* Everything an author declared, in the order it was declared.
Draft(version, states, transitions, steps, guards, roles) ==
    [version |-> version, description |-> "x", inputs |-> <<>>, outputs |-> <<>>,
     states |-> states, transitions |-> transitions, steps |-> steps,
     guards |-> guards, roles |-> roles]

\* What may stand where in one. Names are numbers here; a set a declaration
\* carries is finite.
Conditions == [kind: {"always", "human_approval"}] \cup [kind: {"step_status"}, step: Nat]
Actions == [kind: {"step", "transition", "capability"}, of: Nat]
WellTyped(d, versions) ==
    /\ d \in [version: versions, description: STRING,
              inputs: Seq([id: Nat, required: BOOLEAN]), outputs: Seq([id: Nat]),
              states: Seq([id: Nat, kind: {"initial", "intermediate", "terminal"}]),
              transitions: Seq([from: Nat, trigger: Nat, to: Nat, guards: SUBSET Nat]),
              steps: Seq([id: Nat, state: Nat, handling: STRING]),
              guards: Seq([id: Nat, condition: Conditions]),
              roles: Seq([id: Nat, actions: SUBSET Actions])]
    /\ \A t \in ToSet(d.transitions) : IsFiniteSet(t.guards)
    /\ \A r \in ToSet(d.roles) : IsFiniteSet(r.actions)

-----------------------------------------------------------------------------
(***************************************************************************)
(* From the document to the draft (adapters, yaml/). A failure here is a   *)
(* parse failure, and there is no draft to report on.                      *)
(***************************************************************************)
KindOf(state) ==
    IF state.initial THEN "initial" ELSE IF state.terminal THEN "terminal" ELSE "intermediate"

\* What a label may mean, given the steps and triggers of the document.
Meanings(label, doc) ==
    {StepAction(label) : s \in {s \in ToSet(doc.steps) : s.id = label}}
        \cup {TransitionAction(label) : t \in {t \in ToSet(doc.transitions) : t.trigger = label}}
        \cup {Capability(label) : c \in CapabilityLabels \cap {label}}

\* The one meaning; none means a step yet to be declared; two are refused.
ToRoleAction(label, doc) ==
    IF Meanings(label, doc) = {} THEN {StepAction(label)} ELSE Meanings(label, doc)

DocumentParses(doc) ==
    /\ \A s \in ToSet(doc.states) : ~(s.initial /\ s.terminal)
    /\ \A r \in ToSet(doc.roles) :
         r.labels # {} /\ \A l \in r.labels : Cardinality(ToRoleAction(l, doc)) = 1

IntoDraft(doc) ==
    [doc EXCEPT
        !.states = [p \in DOMAIN @ |-> State(@[p].id, KindOf(@[p]))],
        !.roles = [p \in DOMAIN @ |->
                     Role(@[p].id, UNION {ToRoleAction(l, doc) : l \in @[p].labels})]]

-----------------------------------------------------------------------------
(***************************************************************************)
(* The report. Findings come in check order, each with its severity and    *)
(* its defect; where it is (the locus) is kept for states, the only ones a *)
(* later definition here looks at.                                         *)
(***************************************************************************)
Error(defect) == [severity |-> "error", defect |-> defect, state |-> 0]
Warning(defect, state) == [severity |-> "warning", defect |-> defect, state |-> state]

Duplicate(kind) == Error(<<"AlreadyExists", kind>>)

\* The positions of declarations whose identity was declared before.
Repeated(items) ==
    {p \in DOMAIN items : \E q \in 1..(p - 1) : IdOf(items[q]) = IdOf(items[p])}

Ids(items) == {IdOf(x) : x \in ToSet(items)}

\* A finite set of numbers from the least to the greatest.
Ascending(S) ==
    CHOOSE f \in [1..Cardinality(S) -> S] : \A p, q \in DOMAIN f : p < q => f[p] < f[q]

\* index: the first declaration of each identity, in the order the map is walked.
Index(items) ==
    LET ids == Ascending(Ids(items))
        first(id) == CHOOSE p \in DOMAIN items \ Repeated(items) : IdOf(items[p]) = id
    IN [k \in DOMAIN ids |-> items[first(ids[k])]]

PushDuplicates(items, kind) == [p \in 1..Cardinality(Repeated(items)) |-> Duplicate(kind)]

\* The declarations that are indexed, in the order they are indexed.
Declared(d) ==
    <<<<"input", d.inputs>>, <<"output", d.outputs>>, <<"state", d.states>>,
      <<"step", d.steps>>, <<"guard", d.guards>>, <<"role", d.roles>>>>

DuplicateFindings(d) ==
    FlattenSeq([k \in DOMAIN Declared(d) |->
                  PushDuplicates(Declared(d)[k][2], Declared(d)[k][1])])

\* The maps that are analysed, whether or not there were duplicates.
Parts(d) ==
    [d EXCEPT !.states = Index(@), !.steps = Index(@), !.guards = Index(@), !.roles = Index(@)]

StatesOf(d, kind) == {s.id : s \in {s \in ToSet(d.states) : s.kind = kind}}

InitialStateFindings(d) ==
    IF d.states = <<>> THEN <<Error(<<"EmptyCollection", "states">>)>>
    ELSE IF Cardinality(StatesOf(d, "initial")) # 1
    THEN <<Error(<<"InvariantViolated", "one initial state">>)>>
    ELSE <<>>

TransitionFindings_SourceOnly(d, p) ==
    IF d.transitions[p].from \notin Ids(d.states)
    THEN <<Error(<<"NotFound", "from_state">>)>> ELSE <<>>

\* The first rule a transition breaks hides the later ones, except that
\* every guard it names is looked up. A pair is taken by an earlier
\* transition only if that one got as far as claiming it.
TransitionFindings(d, p) ==
    LET t == d.transitions[p]
        claimed == {q \in 1..(p - 1) : /\ d.transitions[q].from = t.from
                                       /\ d.transitions[q].trigger = t.trigger
                                       /\ d.transitions[q].to \in Ids(d.states)}
        missing == t.guards \ Ids(d.guards)
    IN  IF t.from \notin Ids(d.states) THEN <<Error(<<"NotFound", "from_state">>)>>
        ELSE IF t.to \notin Ids(d.states) THEN <<Error(<<"NotFound", "to_state">>)>>
        ELSE IF t.from \in StatesOf(d, "terminal")
        THEN <<Error(<<"InvariantViolated", "terminal outgoing">>)>>
        ELSE IF claimed # {} THEN <<Error(<<"AlreadyExists", "state_trigger">>)>>
        ELSE [g \in 1..Cardinality(missing) |-> Error(<<"NotFound", "guard">>)]

TransitionGraphFindings(d) ==
    FlattenSeq([p \in DOMAIN d.transitions |-> TransitionFindings(d, p)])

StepFindings(d) ==
    FlattenSeq([p \in DOMAIN d.steps |->
        IF d.steps[p].state \notin Ids(d.states) THEN <<Error(<<"NotFound", "step.state">>)>>
        ELSE IF d.steps[p].state \in StatesOf(d, "terminal")
        THEN <<Error(<<"InvariantViolated", "terminal step">>)>>
        ELSE <<>>])

GuardFindings(d) ==
    LET lost(g) == g.condition.kind = "step_status" /\ g.condition.step \notin Ids(d.steps)
    IN FlattenSeq([p \in DOMAIN d.guards |->
          IF lost(d.guards[p]) THEN <<Error(<<"NotFound", "guard.step">>)>> ELSE <<>>])

RoleFindings(d) ==
    LET triggers == {t.trigger : t \in ToSet(d.transitions)}
        steps(r) == {a \in r.actions : a.kind = "step" /\ a.of \notin Ids(d.steps)}
        moves(r) == {a \in r.actions : a.kind = "transition" /\ a.of \notin triggers}
    IN FlattenSeq([p \in DOMAIN d.roles |->
          [a \in 1..Cardinality(steps(d.roles[p])) |-> Error(<<"NotFound", "role.step">>)]
          \o [a \in 1..Cardinality(moves(d.roles[p])) |-> Error(<<"NotFound", "role.transition">>)]])

-----------------------------------------------------------------------------
\* Reachability, walked only on a graph sound enough to walk; warnings only.

\* states_reachable_from: the work list run to its end.
StatesReachableFrom(d, initial) ==
    LET reached[n \in 0..Len(d.states)] ==
            IF n = 0 THEN {initial}
            ELSE reached[n - 1] \cup {t.to : t \in {t \in ToSet(d.transitions) :
                                                      t.from \in reached[n - 1]}}
    IN reached[Len(d.states)]

\* states_that_reach_a_terminal: passes over the transitions until none grows.
StatesThatReachATerminal(d) ==
    LET finishing[n \in 0..Len(d.states)] ==
            IF n = 0 THEN StatesOf(d, "terminal")
            ELSE finishing[n - 1] \cup {t.from : t \in {t \in ToSet(d.transitions) :
                                                          t.to \in finishing[n - 1]}}
    IN finishing[Len(d.states)]

Walkable(d) ==
    /\ Cardinality(StatesOf(d, "initial")) = 1
    /\ \A t \in ToSet(d.transitions) : {t.from, t.to} \subseteq Ids(d.states)

ReachabilityFindings(d) ==
    LET initial == CHOOSE s \in StatesOf(d, "initial") : TRUE
        of(s) == IF s \notin StatesReachableFrom(d, initial) THEN <<Warning("unreachable", s)>>
                 ELSE IF s \notin StatesThatReachATerminal(d) THEN <<Warning("cannot finish", s)>>
                 ELSE <<>>
    IN  IF ~Walkable(d) THEN <<>>
        ELSE IF StatesOf(d, "terminal") = {} THEN <<Warning("no terminal state", 0)>>
        ELSE FlattenSeq([p \in DOMAIN d.states |-> of(d.states[p].id)])

CollectFindings(d) ==
    InitialStateFindings(d) \o TransitionGraphFindings(d) \o StepFindings(d)
        \o GuardFindings(d) \o RoleFindings(d) \o ReachabilityFindings(d)

\* first_error: its defect, if there is an error.
FirstError(report) ==
    LET errors == {p \in DOMAIN report : report[p].severity = "error"} IN
    IF errors = {} THEN <<>>
    ELSE <<report[CHOOSE p \in errors : \A q \in errors : p <= q].defect>>

\* CeremonyDefinitionDraft::analyze.
AnalyzeDraft(d) == DuplicateFindings(d) \o CollectFindings(Parts(d))

\* CeremonyDefinition::new: what it refuses the draft with, if it does. The
\* first kind declared twice stops it; then the analysis, read to its first error.
Refusal(d) ==
    LET twice == {k \in DOMAIN Declared(d) : Repeated(Declared(d)[k][2]) # {}} IN
    IF twice # {}
    THEN <<<<"AlreadyExists", Declared(d)[CHOOSE k \in twice : \A j \in twice : k <= j][1]>>>>
    ELSE FirstError(CollectFindings(Parts(d)))

Constructs(d) == Refusal(d) = <<>>

-----------------------------------------------------------------------------
(***************************************************************************)
(* The comparison of two definitions, by the impact of each change on a    *)
(* session that runs the earlier one (CeremonyDefinitionDiff::between).    *)
(***************************************************************************)
Get(items, id) == CHOOSE x \in ToSet(items) : IdOf(x) = id
Removed(before, after) == Ids(before) \ Ids(after)
Added(before, after) == Ids(after) \ Ids(before)
Kept(before, after) == Ids(before) \cap Ids(after)

Changes(kind, of, ids, impact) == {[kind |-> kind, of |-> <<of, i>>, impact |-> impact] : i \in ids}

DiffStates(b, a) ==
    LET altered == {i \in Kept(b.states, a.states) : Get(b.states, i).kind # Get(a.states, i).kind}
    IN  Changes("removed", "state", Removed(b.states, a.states), "strands")
            \cup Changes("altered", "state", altered, "strands")
            \cup Changes("added", "state", Added(b.states, a.states), "carries")

Keyed(t) == <<t.from, t.trigger>>
WayOut(d, key) == CHOOSE t \in ToSet(d.transitions) : Keyed(t) = key

TransitionImpact_TargetIgnored(b, a, key) ==
    IF WayOut(b, key).guards # WayOut(a, key).guards
         /\ WayOut(b, key).guards \subseteq WayOut(a, key).guards
    THEN "strands" ELSE "carries"

\* What became of one transition of the earlier definition.
TransitionImpact(b, a, key) ==
    LET old == WayOut(b, key)
        now == WayOut(a, key)
    IN  IF now.to # old.to THEN "strands"
        ELSE IF old.guards \subseteq now.guards THEN "strands" ELSE "carries"

DiffTransitions(b, a) ==
    LET keys(d) == {Keyed(t) : t \in ToSet(d.transitions)}
        altered == {k \in keys(b) \cap keys(a) : WayOut(b, k).to # WayOut(a, k).to
                                                 \/ WayOut(b, k).guards # WayOut(a, k).guards}
    IN  Changes("removed", "transition", keys(b) \ keys(a), "strands")
            \cup UNION {Changes("altered", "transition", {k}, TransitionImpact(b, a, k)) : k \in altered}
            \cup Changes("added", "transition", keys(a) \ keys(b), "carries")

\* One step may have changed in several ways, each reported for itself;
\* `handling` stands for its handler, configuration, retries and timeout.
DiffSteps(b, a) ==
    LET changed(f(_)) == {i \in Kept(b.steps, a.steps) : f(Get(b.steps, i)) # f(Get(a.steps, i))}
    IN  Changes("removed", "step", Removed(b.steps, a.steps), "strands")
            \cup Changes("moved", "step", changed(LAMBDA s : s.state), "strands")
            \cup Changes("altered", "step", changed(LAMBDA s : s.handling), "carries")
            \cup Changes("added", "step", Added(b.steps, a.steps), "strands")

DiffGuards(b, a) ==
    LET altered == {i \in Kept(b.guards, a.guards) :
                      Get(b.guards, i).condition # Get(a.guards, i).condition}
    IN  Changes("removed", "guard", Removed(b.guards, a.guards), "carries")
            \cup Changes("altered", "guard", altered, "strands")
            \cup Changes("added", "guard", Added(b.guards, a.guards), "carries")

DiffRoles(b, a) ==
    LET narrowed == {i \in Kept(b.roles, a.roles) :
                       ~(Get(b.roles, i).actions \subseteq Get(a.roles, i).actions)}
        widened == {i \in Kept(b.roles, a.roles) \ narrowed :
                      Get(b.roles, i).actions # Get(a.roles, i).actions}
    IN  Changes("removed", "role", Removed(b.roles, a.roles), "strands")
            \cup Changes("altered", "role", narrowed, "strands")
            \cup Changes("altered", "role", widened, "carries")
            \cup Changes("added", "role", Added(b.roles, a.roles), "carries")

\* Inputs newly required strand; the rest of the shape carries.
DiffShape(b, a) ==
    LET required(d) == {i \in Ids(d.inputs) : Get(d.inputs, i).required}
        added == Added(b.inputs, a.inputs)
        kept == Kept(b.inputs, a.inputs)
    IN  Changes("removed", "input", Removed(b.inputs, a.inputs), "carries")
            \cup Changes("added", "input", added \cap required(a), "strands")
            \cup Changes("added", "input", added \ required(a), "carries")
            \cup Changes("altered", "input", (kept \cap required(a)) \ required(b), "strands")
            \cup Changes("altered", "input", (kept \cap required(b)) \ required(a), "carries")
            \cup Changes("removed", "output", Removed(b.outputs, a.outputs), "carries")
            \cup Changes("added", "output", Added(b.outputs, a.outputs), "carries")
            \cup Changes("altered", "definition",
                         IF b.description # a.description THEN {0} ELSE {}, "carries")

Between(b, a) ==
    DiffStates(b, a) \cup DiffTransitions(b, a) \cup DiffSteps(b, a) \cup DiffGuards(b, a)
        \cup DiffRoles(b, a) \cup DiffShape(b, a)

StrandsRunningSessions(b, a) == \E c \in Between(b, a) : c.impact = "strands"
=============================================================================
