------------------------------- MODULE MCAgenda -------------------------------
(* Instances of Agenda for TLC: two seats, a question and its follow-up.      *)
EXTENDS Agenda, TLC

CONSTANTS a, b, q1, q2, log, x, y

\* The question to the whole table, and follow-ups that cite an answer to it.
Questions ==
    {[act |-> "Request", item |-> q1, by |-> a, target |-> Seats, from |-> None]}
        \cup {[act |-> "Request", item |-> q2, by |-> s, target |-> {b},
               from |-> [item |-> q1, answeredBy |-> b, selected |-> b]] : s \in {a, b}}

Answers ==
    {[act |-> "Respond", item |-> i, by |-> b] : i \in {q1, q2}}
        \cup {[act |-> "Collect", item |-> q1, by |-> a, source |-> log, pack |-> None]}

Closings == {[act |-> "Close", item |-> q1, by |-> s] : s \in {a, b}}

FirstAnswer == Ref("Answer", q1, 0)
TheGuard == Ref("Guard", None, 0)

\* Testimony on the first answer and on the decision, and a claim about them.
Whys ==
    {[act |-> "Assert", from |-> FirstAnswer, to |-> TheGuard, claim |-> "ItsAuthor", by |-> b],
     [act |-> "Assert", from |-> TheGuard, to |-> FirstAnswer, claim |-> "ItsAuthor", by |-> b],
     [act |-> "Assert", from |-> Ref("Transition", None, 1), to |-> TheGuard,
      claim |-> "AnySeat", by |-> a]}

Seatings == {[act |-> "Bind", seating |-> f] : f \in {a :> x, a :> y @@ b :> y}}

Decisions ==
    {[act |-> "Defer", by |-> b], [act |-> "Approve", by |-> a], [act |-> "End", by |-> a]}

AllCalls == Questions \cup Answers \cup Closings \cup Whys \cup Seatings \cup Decisions

CallerSymmetry == Permutations(Callers)
=============================================================================
