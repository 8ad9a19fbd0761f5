-------------------------- MODULE MCCeremonySession --------------------------
(* Instances of CeremonySession for TLC: a draft that is written in one step  *)
(* and can go back and forth between writing and review before it is closed.  *)
EXTENDS CeremonySession, TLC

CONSTANTS k1, k2, k3, lead

mcStates == {"draft", "review", "closed"}
mcStepState == [s \in Steps |-> "draft"]
mcMaxAttempts == [s \in Steps |-> 2]
mcTriggers == {"submit", "withdraw", "rework", "accept", "publish"}
mcTransitions ==
    {[from |-> "draft", trigger |-> "submit", to |-> "review", guards |-> {"settled"}],
     [from |-> "draft", trigger |-> "withdraw", to |-> "closed", guards |-> {"failed"}],
     [from |-> "review", trigger |-> "rework", to |-> "draft", guards |-> {}],
     [from |-> "review", trigger |-> "accept", to |-> "closed", guards |-> {"approved"}],
     [from |-> "review", trigger |-> "publish", to |-> "closed",
      guards |-> {"written", "settled"}]}
mcGuardCondition ==
    "approved" :> [kind |-> "HumanApproval"]
        @@ "written" :> [kind |-> "AllStepsCompleted"]
        @@ "failed" :> [kind |-> "StepStatus", step |-> "write", status |-> "Failed"]
        @@ "settled" :> [kind |-> "Always"]
mcStepRoles == [s \in Steps |-> Roles]
mcTriggerRoles == [t \in Triggers |-> Roles]

\* Steps claimed, run and reported on by competing workers.
StepCalls ==
    ClaimCalls
        \cup [kind: {"CompleteStep"}, step: Steps, status: {"Completed", "Failed"}]
        \cup [kind: {"ApplyTransition"}, trigger: {"withdraw"}]

\* Human decisions and moves racing each other around one step.
DecisionCalls ==
    [kind: {"StartStep"}, step: Steps, key: Keys]
        \cup [kind: {"CompleteStep"}, step: Steps, status: {"Completed"}]
        \cup MoveCalls
        \cup [kind: {"ApproveGuard", "DeferGuard"}, guard: {"approved"}]

AllCalls == StepCalls \cup DecisionCalls

\* Contexts that are empty, or already hold the human guard as approved.
EmptyContext == {{}}
DecidedContexts == {{}, {"approved"}}

KeySymmetry == Permutations(Keys)
CallerSymmetry == Permutations(Callers)
Symmetry == KeySymmetry \cup CallerSymmetry
=============================================================================
