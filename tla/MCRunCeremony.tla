---------------------------- MODULE MCRunCeremony ----------------------------
(* An instance of RunCeremony for TLC: three steps of writing, a review that    *)
(* goes back to writing until a person approves, two drivers and their clients. *)
EXTENDS RunCeremony, TLC

mcStates == {"draft", "review", "closed"}
mcStepState == [s \in Steps |-> "draft"]
mcMaxAttempts == [s \in Steps |-> 2]
mcTriggers == {"submit", "accept", "rework", "shelve"}
Submit == [from |-> "draft", trigger |-> "submit", to |-> "review", guards |-> {"written"}]
Accept == [from |-> "review", trigger |-> "accept", to |-> "closed", guards |-> {"approved"}]
Rework == [from |-> "review", trigger |-> "rework", to |-> "draft", guards |-> {}]
Shelve == [from |-> "draft", trigger |-> "shelve", to |-> "review", guards |-> {}]
mcTransitions == {Submit, Accept, Rework, Shelve}
mcTransitionOrder == <<Submit, Accept, Rework, Shelve>>
mcGuardCondition ==
    "approved" :> [kind |-> "HumanApproval"] @@ "written" :> [kind |-> "AllStepsCompleted"]
mcStepRoles == [s \in Steps |-> Roles]
mcTriggerRoles == [t \in Triggers |-> Roles]
mcStepOrder == <<"write", "edit", "proof">>
mcKeys == (Steps \X (1..3)) \cup {<<"client", 1>>}

\* Clients run the second step themselves, or report on it, approve, and
\* shelve the draft under the driver.
ClientRequests ==
    [kind: {"RunStep"}, step: {"edit"}, key: {<<"client", 1>>}]
        \cup [kind: {"CompleteStep"}, step: {"edit"}, status: {"Completed"}]
        \cup [kind: {"ApplyTransition"}, trigger: {"shelve"}]
        \cup [kind: {"ApproveGuard"}, guard: {"approved"}]

SomeContexts == {{}, {"approved"}}
=============================================================================
