------------------------ MODULE MCDefinitionCatalogue ------------------------
(***************************************************************************)
(* Instances of DefinitionCatalogue for TLC: every draft over a few        *)
(* states and at most two transitions, every placement of a step, a guard  *)
(* and a role, and documents with ambiguous and unknown role labels.       *)
(***************************************************************************)
EXTENDS DefinitionCatalogue, TLC

CONSTANTS v1, v2

Always(id) == Guard(id, [kind |-> "always"])
Human(id) == Guard(id, [kind |-> "human_approval"])
After(id, step) == Guard(id, [kind |-> "step_status", step |-> step])
\* A role that may fire everything there is to fire.
Anyone(transitions) ==
    Role(1, {Capability(20)} \cup {TransitionAction(t.trigger) : t \in ToSet(transitions)})

Two == <<State(1, "initial"), State(3, "terminal")>>
Three == <<State(1, "initial"), State(2, "intermediate"), State(3, "terminal")>>

\* Graphs: the states, and up to two transitions between them and beyond.
StateLists ==
    {Two, Three, <<>>, <<State(1, "initial"), State(1, "terminal")>>,
     <<State(1, "initial"), State(2, "initial")>>,
     <<State(1, "initial"), State(2, "intermediate")>>}

Arrows ==
    {Transition(f, t, to, g) : f \in 1..3, t \in {7, 8}, to \in 1..3, g \in {{}}}

Graphs ==
    {Draft(v1, s, t, <<>>, <<Human(6)>>, <<Anyone(t)>>) :
       s \in StateLists,
       t \in {<<>>} \cup {<<a>> : a \in {a \in Arrows : a.trigger = 7}}
                \cup {<<Transition(1, 7, 2, {}), a>> : a \in {a \in Arrows : a.trigger = 7}}
                \cup {<<Transition(2, 8, 3, {6}), a>> : a \in {a \in Arrows : a.from = 1 /\ a.trigger = 8}}}

Line == <<Transition(1, 7, 3, {6})>>
Everyone == Role(1, {TransitionAction(7), StepAction(5)})

\* What hangs on a graph: steps, guards, roles, inputs, declared well or not.
Furnishings ==
    {Draft(v1, Two, Line, s, g, r) :
       s \in {<<>>, <<Step(5, 1)>>, <<Step(5, 3)>>, <<Step(5, 4)>>, <<Step(5, 1), Step(5, 3)>>},
       g \in {<<>>, <<Always(6)>>, <<Human(6)>>, <<After(6, 5)>>, <<After(6, 9)>>, <<Human(6), Human(6)>>},
       r \in {<<>>, <<Everyone>>, <<Role(1, {TransitionAction(9)}), Role(2, {StepAction(5)})>>,
              <<Everyone, Role(1, {TransitionAction(7)})>>}}

\* Documents, read as the adapter reads them: label 5 is a step, 7 a trigger
\* (a step too in the second), 9 nothing yet, 20 a capability.
Documents ==
    {[Draft(v1, <<[id |-> 1, initial |-> TRUE, terminal |-> FALSE],
                  [id |-> 3, initial |-> FALSE, terminal |-> last]>>,
            Line, steps, <<Human(6)>>, <<[id |-> 1, labels |-> labels]>>)
       EXCEPT !.inputs = <<Input(1, TRUE)>>] :
       last \in BOOLEAN, steps \in {<<Step(5, 1)>>, <<Step(5, 1), Step(7, 1)>>},
       labels \in {{}, {5}, {7}, {9}, {5, 7, 20}}}

AllDrafts ==
    Graphs \cup Furnishings \cup {IntoDraft(d) : d \in {d \in Documents : DocumentParses(d)}}

\* The same version with another guard in the way, and a second version.
Alternative == Draft(v1, Two, Line, <<Step(5, 1)>>, <<After(6, 5)>>, <<Everyone>>)
Free == <<Transition(1, 7, 3, {})>>
Second == Draft(v2, Two, Free, <<>>, <<Human(6)>>, <<Anyone(Free)>>)
Directory == <<Alternative, Second>>
Alternatives == {Alternative}

CallerSymmetry == Permutations(Callers)
=============================================================================
