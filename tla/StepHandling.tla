---------------------------- MODULE StepHandling ----------------------------
(***************************************************************************)
(* A ceremony step put to a council, from the definition's participants    *)
(* being made ready to the answer that wins: the participant plan and its  *)
(* preparation (ceremony_participant_plan_adapter.rs,                      *)
(* prepare_ceremony_participants_use_case.rs), the step's brief and        *)
(* contract (deliberating_ceremony_step_handler.rs, OutputContract), the   *)
(* calls to the model providers and judges (agents/), and the validators,  *)
(* scoring and choice of winner that hold every answer to the contract.    *)
(*                                                                         *)
(* Several ceremonies run side by side over one registry of agents and     *)
(* councils.  Review rounds are the Deliberation module's.                 *)
(***************************************************************************)
EXTENDS Providers, TLC
LOCAL INSTANCE Functions
LOCAL INSTANCE SequencesExt

CONSTANTS Ceremonies,
          Scripts,     \* per ceremony, the scripts it may run: [context, steps]
          Replies,     \* per agent kind, what its provider may answer
          Judgements,  \* what a judge may reply
          Deployments, \* the sets of settings the process may be started with
          Threshold,   \* CHOREO_JUDGE_THRESHOLD, in hundredths
          MaxClaims,   \* MAX_JUDGED_CLAIMS
          Widths,      \* the texts that are not one byte long, by their characters' widths
          Cap,         \* MAX_RENDERED_CONTRIBUTION_LEN
          MaxBrief     \* MAX_TASK_DESCRIPTION_LEN

ASSUME BriefAssumption == Cap \in Nat /\ MaxBrief \in Nat

VARIABLES wired,     \* are the judges of proposals and of evidence wired
          script,    \* what each ceremony runs
          agents,    \* the kind of each registered agent, by <<specialty, index>>
          councils,  \* the seats of each registered council, by specialty
          prep,      \* how far each ceremony's preparation is
          step,      \* the step each ceremony has in hand
          verdicts,  \* what the support judge said, and of what
          metrics    \* provider accounting: calls in flight, answered, faulted

vars == <<wired, script, agents, councils, prep, step, verdicts, metrics>>

Idle == [at |-> "idle"]

-----------------------------------------------------------------------------
(* Participants.  participants_from_step reads the specialty, the agent    *)
(* kind, and either a label per participant or how many there are; a step  *)
(* that names neither gets one.                                            *)

Specialty(s) ==
  LET named == OptionalString(Get(s.config, "specialty"))
  IN IF named = {} THEN s.kind ELSE CHOOSE n \in named : TRUE

AgentKind(s) ==
  LET named(key) == OptionalString(Get(s.config, key))
      kinds == IF named("agent_kind") # {} THEN named("agent_kind") ELSE named("agent.kind")
  IN IF kinds = {} THEN "noop" ELSE CHOOSE n \in kinds : TRUE

StepIsReadable(s) ==
  /\ Specialty(s) \notin Overlong
  /\ StringArray(Get(s.config, "participants")).ok
  /\ OptionalNumber(Get(s.config, "num_agents"), 1..64).ok

ParticipantsFromStep(s) ==
  LET labels == StringArray(Get(s.config, "participants")).is
      asked == OptionalNumber(Get(s.config, "num_agents"), 1..64).is
      count == IF labels # <<>> THEN Len(labels)
               ELSE IF asked = {} THEN 1 ELSE CHOOSE n \in asked : TRUE
  IN {<<Specialty(s), i>> : i \in 0..(count - 1)}

(* CeremonyParticipantPlanAdapter::from_definition: the first step to name *)
(* a participant decides its kind.                                         *)
ParticipantPlan(steps) ==
  LET first(id) == CHOOSE i \in DOMAIN steps :
                     /\ id \in ParticipantsFromStep(steps[i])
                     /\ \A j \in 1..(i - 1) : id \notin ParticipantsFromStep(steps[j])
  IN {[id |-> id, kind |-> AgentKind(steps[first(id)]), attributes |-> steps[first(id)].config] :
        id \in UNION {ParticipantsFromStep(steps[i]) : i \in DOMAIN steps}}

Plan(c) ==
  /\ prep[c].at = "new"
  /\ LET steps == script[c].steps IN
       prep' = [prep EXCEPT ![c] =
                  IF \A i \in DOMAIN steps : StepIsReadable(steps[i])
                  THEN [at |-> "agents", todo |-> ParticipantPlan(steps), seats |-> {}]
                  ELSE [at |-> "failed"]]
  /\ UNCHANGED <<wired, script, agents, councils, step, verdicts, metrics>>

(* One participant is built and registered; one that is there already is   *)
(* left as it is.  The alphabetical order of the participants, and below   *)
(* of the councils, is left open.                                          *)
PrepareAgent(c) ==
  /\ prep[c].at = "agents"
  /\ \E p \in prep[c].todo :
       IF Create(p.kind, p.attributes)
       THEN /\ agents' = agents @@ (p.id :> p.kind)
            /\ prep' = [prep EXCEPT ![c].todo = @ \ {p}, ![c].seats = @ \cup {p.id}]
       ELSE /\ prep' = [prep EXCEPT ![c] = [at |-> "failed"]]
            /\ UNCHANGED agents
  /\ UNCHANGED <<wired, script, councils, step, verdicts, metrics>>

AgentsReady_Early(c) == prep[c].at = "agents" /\ prep[c].seats # {}
AgentsReady(c) == prep[c].at = "agents" /\ prep[c].todo = {}

(* A council per specialty, of the participants this definition names; a   *)
(* council that is there already stays as another ceremony seated it.      *)
PrepareCouncil(c) ==
  /\ AgentsReady(c)
  /\ LET seats == prep[c].seats
         left == {id[1] : id \in seats} \ DOMAIN councils
     IN IF left = {}
        THEN /\ prep' = [prep EXCEPT ![c] = [at |-> "ready"]]
             /\ UNCHANGED councils
        ELSE /\ \E s \in left : councils' = councils @@ (s :> {id \in seats : id[1] = s})
             /\ UNCHANGED prep
  /\ UNCHANGED <<wired, script, agents, step, verdicts, metrics>>

-----------------------------------------------------------------------------
(* The brief: the ceremony's context without its flags, the turns so far,  *)
(* the interventions the role may see, and the prompt; each part but the   *)
(* prompt is cut.  A text is the sequence of the widths of its characters: *)
(* parts are cut by characters and the whole is limited in bytes.  The     *)
(* words around a part are one byte a line.                                *)

Written(text) == IF text \in DOMAIN Widths THEN Widths[text] ELSE <<1>>
Bytes(t) == FoldFunction(LAMBDA a, b : a + b, 0, t)
Truncate_Whole(t) == t
Truncate(t) == IF Len(t) <= Cap THEN t ELSE SubSeq(t, 1, Cap) \o <<3>>

RECURSIVE Json(_)
(* Value::to_string: quotes, brackets, commas and colons are one byte. *)
Json(v) ==
  LET between == FoldLeft(LAMBDA a, b : IF a = <<>> THEN b ELSE a \o <<1>> \o b, <<>>,
                          CASE v.is = "array" -> [i \in DOMAIN v.items |-> Json(v.items[i])]
                            [] v.is = "object" ->
                                 LET keys == SetToSeq(DOMAIN v.fields)
                                 IN [i \in DOMAIN keys |-> <<1>> \o Written(keys[i]) \o <<1, 1>>
                                                            \o Json(v.fields[keys[i]])]
                            [] v.is = "string" -> <<Written(v.text)>>
                            [] OTHER -> <<<<1>>>>)
  IN IF v.is \in {"array", "object", "string"} THEN <<1>> \o between \o <<1>> ELSE between

RenderBrief(context) ==
  LET keys == SetToSeq({k \in DOMAIN context : context[k].is # "boolean"})
  IN [i \in DOMAIN keys |-> LET v == context[keys[i]]
                            IN IF v.is = "string" THEN Written(v.text) ELSE Json(v)]

(* target().accepts: a request put to nobody in particular is the table's. *)
Visible(request, role) ==
  role # "" => request.by = role \/ request.to = {} \/ role \in request.to

(* The request, its details if it has any, and each response with its own. *)
RenderInterventions(s) ==
  LET contents(c) == IF c.details.fields = <<>> THEN <<c.message>>
                     ELSE <<c.message, Json(c.details)>>
      said(request) == FlattenSeq([i \in DOMAIN request.says |-> contents(request.says[i])])
      seen == SelectSeq(s.asked, LAMBDA request : Visible(request, s.role))
  IN FlattenSeq([i \in DOMAIN seen |-> said(seen[i])])

BriefParts(s, context, prior) ==
  RenderBrief(context) \o (IF prior THEN s.turns ELSE <<>>) \o RenderInterventions(s)

Prompt(s) == Written(Trim(s.config["prompt"].text))

(* build_description *)
BriefSize(s, context, prior) ==
  LET parts == BriefParts(s, context, prior)
  IN 1 + Bytes([i \in DOMAIN parts |-> 1 + Bytes(Truncate(parts[i]))]) + 1 + Bytes(Prompt(s))

(* DeliberatingCeremonyStepHandler::execute up to the first draft: the     *)
(* configuration read, the brief composed, the council looked up - the     *)
(* session's seating before the step's - and its agents resolved.          *)
Fail(c, why, i) == step' = [step EXCEPT ![c] = [at |-> "failed", why |-> why, of |-> i]]

Begin(c) ==
  /\ prep[c].at = "ready" /\ step[c].at = "idle"
  /\ \E i \in DOMAIN script[c].steps :
       LET s == script[c].steps[i]
           read == FromRequest(s.config, script[c].context)
           specialty == IF s.bound # "" THEN s.bound ELSE Specialty(s)
           council == IF specialty \in DOMAIN councils THEN councils[specialty] ELSE {}
           seats == IF read.ok /\ read.is.seats # {}
                    THEN {id \in council : id[2] < CHOOSE n \in read.is.seats : TRUE} ELSE council
       IN IF ~read.ok \/ Bytes(Prompt(s)) > MaxBrief THEN Fail(c, "config", i)
          ELSE IF BriefSize(s, script[c].context, read.is.prior) > MaxBrief THEN Fail(c, "brief", i)
          ELSE IF council = {} \/ ~(seats \subseteq DOMAIN agents) THEN Fail(c, "not_found", i)
          ELSE step' = [step EXCEPT ![c] =
                          [at |-> "drafting", of |-> i, contract |-> read.is.contract,
                           todo |-> seats, said |-> <<>>, reports |-> <<>>, claim |-> 0,
                           held |-> TRUE]]
  /\ UNCHANGED <<wired, script, agents, councils, prep, verdicts, metrics>>

-----------------------------------------------------------------------------
(* Drafting: one call to a provider per seat, in the order of the seats.   *)
(* ProviderCallGuard keeps the gauge of calls in flight.                   *)

CallProvider(c) ==
  /\ step[c].at = "drafting" /\ step[c].todo # {}
  /\ step' = [step EXCEPT ![c].at = "calling"]
  /\ metrics' = CallEntered(metrics)
  /\ UNCHANGED <<wired, script, agents, councils, prep, verdicts>>

(* complete: a call that times out, cannot be sent, is refused, or answers *)
(* with a body that cannot be read or has no text ends the step.           *)
ProviderAnswers(c) ==
  /\ step[c].at = "calling"
  /\ LET id == CHOOSE a \in step[c].todo : \A b \in step[c].todo : a[2] <= b[2]
     IN \E reply \in Replies[agents[id]] :
          LET outcome == Complete(agents[id], reply)
              left == step[c].todo \ {id}
          IN IF outcome.text = {}
             THEN /\ Fail(c, "provider", step[c].of)
                  /\ metrics' = CallDropped(RecordProviderError(metrics))
             ELSE /\ metrics' = CallDropped(metrics)
                  /\ step' = [step EXCEPT
                       ![c].at = IF left = {} THEN "validating" ELSE "drafting",
                       ![c].todo = left,
                       ![c].said = Append(@, CHOOSE t \in outcome.text : TRUE)]
  /\ UNCHANGED <<wired, script, agents, councils, prep, verdicts>>

-----------------------------------------------------------------------------
(* Validation: every proposal through every validator, in the order        *)
(* compose wires them.  Without a contract only the first can fail.        *)

Current(c) == step[c].said[Len(step[c].reports) + 1]

StructuralReports(content, contracts) ==
  LET under(Holds(_)) == \A k \in contracts : Holds(k)
  IN <<ContentNonEmpty(content),
       under(LAMBDA k : JsonObjectOutput(content)),
       under(LAMBDA k : RequiredFields(content, k)),
       under(LAMBDA k : AllowedStringValues(content, k)),
       under(LAMBDA k : JsonSchema(content, k)),
       under(LAMBDA k : ClaimsEvidenceGrounded(content, k)),
       under(LAMBDA k : BoundedEventShape(content))>>

Demanded(c) ==   \* the grounding rules of the contract that ask for a judge
  {rule \in UNION {k.evidence : k \in step[c].contract} : rule.support # {}}

(* ClaimsEvidenceSupportedValidator::validate up to the judging. *)
Validate(c) ==
  /\ step[c].at = "validating"
  /\ IF Demanded(c) = {}
     THEN step' = [step EXCEPT ![c].at = "rating", ![c].held = TRUE]
     ELSE IF ~wired.support THEN Fail(c, "no_judge", step[c].of)
     ELSE LET claims == Claims(Current(c), CHOOSE r \in Demanded(c) : TRUE)
              held == claims.ok /\ Len(claims.is) <= MaxClaims
          IN step' = [step EXCEPT ![c].held = held, ![c].claim = 1,
                        ![c].at = IF held /\ claims.is # <<>> THEN "judging" ELSE "rating"]
  /\ UNCHANGED <<wired, script, agents, councils, prep, verdicts, metrics>>

(* judge_claims: the judge sees a claim and the bodies of what it cites; a *)
(* claim with nothing to show is a violation without a call; a judge that  *)
(* cannot answer ends the step.                                            *)
Accepted_AnyConfidence(verdict, support) == verdict.supported
Accepted(verdict, support) == verdict.supported /\ verdict.confidence >= support.least

JudgeClaim(c) ==
  /\ step[c].at = "judging"
  /\ LET rule == CHOOSE r \in Demanded(c) : TRUE
         support == CHOOSE s \in rule.support : TRUE
         claims == Claims(Current(c), rule).is
         i == step[c].claim
         shown == CitedExcerpts(claims[i], rule, support)
         next(held) == step' = [step EXCEPT ![c].held = @ /\ held, ![c].claim = i + 1,
                         ![c].at = IF i < Len(claims) THEN "judging" ELSE "rating"]
     IN IF shown = {} THEN next(FALSE) /\ UNCHANGED verdicts
        ELSE \E reply \in Judgements :
               LET read == ParseVerdict(reply)
               IN IF ~read.ok THEN Fail(c, "judge", step[c].of) /\ UNCHANGED verdicts
                  ELSE /\ next(Accepted(read.is, support))
                       /\ verdicts' = verdicts \cup
                            {[by |-> c, of |-> Len(step[c].reports) + 1, claim |-> i,
                              shown |-> shown, verdict |-> read.is]}
  /\ UNCHANGED <<wired, script, agents, councils, prep, metrics>>

(* LlmJudgeValidator::validate, when it is wired, and the score: its       *)
(* rating, or the number of validators passed.                             *)
Rate(c) ==
  /\ step[c].at = "rating"
  /\ LET structural == Append(StructuralReports(Current(c), step[c].contract), step[c].held)
         passes == \A i \in DOMAIN structural : structural[i]
         report(passed, score) == step' = [step EXCEPT
           ![c].reports = Append(@, [passed |-> passed, score |-> score]),
           ![c].at = IF Len(step[c].reports) + 1 < Len(step[c].said)
                     THEN "validating" ELSE "choosing"]
     IN IF wired.judge
        THEN \E reply \in Judgements :
               LET score == ParseScore(reply)
               IN IF score.ok THEN report(passes /\ score.is >= Threshold, score.is)
                              ELSE Fail(c, "judge", step[c].of)
        ELSE report(passes, Cardinality({i \in DOMAIN structural : structural[i]}))
  /\ UNCHANGED <<wired, script, agents, councils, prep, verdicts, metrics>>

(* pick_winner over the ranked outcomes: with a contract the best that     *)
(* passed everything, and none if none did; without one, the best.  Ties   *)
(* are broken by proposal ids, which are random.                           *)
Eligible(c) ==
  LET reports == step[c].reports
  IN IF step[c].contract = {} THEN DOMAIN reports ELSE {p \in DOMAIN reports : reports[p].passed}

Choose(c) ==
  /\ step[c].at = "choosing"
  /\ IF Eligible(c) = {} THEN Fail(c, "no_valid_proposal", step[c].of)
     ELSE \E p \in Eligible(c) :
            /\ \A q \in Eligible(c) : step[c].reports[q].score <= step[c].reports[p].score
            /\ step' = [step EXCEPT ![c] = [at |-> "done", of |-> step[c].of, won |-> p,
                          said |-> step[c].said[p], contract |-> step[c].contract]]
  /\ UNCHANGED <<wired, script, agents, councils, prep, verdicts, metrics>>

-----------------------------------------------------------------------------
Init ==
  /\ \E d \in Deployments :
       LET judge == JudgeFromEnv(d, "judge")
           support == JudgeFromEnv(d, "support_judge")
       IN /\ judge.ok /\ support.ok   \* or the process does not start
          /\ wired = [judge |-> judge.is, support |-> support.is]
  /\ script \in {f \in [Ceremonies -> UNION {Scripts[c] : c \in Ceremonies}] :
                   \A c \in Ceremonies : f[c] \in Scripts[c]}
  /\ agents = <<>> /\ councils = <<>>
  /\ prep = [c \in Ceremonies |-> [at |-> "new"]]
  /\ step = [c \in Ceremonies |-> Idle]
  /\ verdicts = {}
  /\ metrics = NoCalls

Advance(c) ==
  \/ Plan(c) \/ PrepareAgent(c) \/ PrepareCouncil(c) \/ Begin(c)
  \/ CallProvider(c) \/ ProviderAnswers(c)
  \/ Validate(c) \/ JudgeClaim(c) \/ Rate(c) \/ Choose(c)

(* Nothing is left to do: any other state without a step would be a        *)
(* ceremony that hangs.                                                    *)
Ended ==
  /\ \A c \in Ceremonies : prep[c].at = "failed" \/ step[c].at \in {"done", "failed"}
  /\ UNCHANGED vars

Next == Ended \/ \E c \in Ceremonies : Advance(c)

Spec == Init /\ [][Next]_vars

-----------------------------------------------------------------------------
Block(c) == Get(script[c].steps[step[c].of].config, "output_contract")

(* "a typo in a policy gate must fail the parse, not silently weaken the   *)
(* contract" (ceremony_step_config.rs:238), for the gates that stand or    *)
(* fall as a whole: a step whose configuration declares grounding, or      *)
(* semantic support, and that gets as far as putting its question runs     *)
(* under a contract that has it.                                           *)
GatesKept ==
  \A c \in Ceremonies :
    (step[c].at \notin {"idle", "failed"} /\ Block(c).is = "object") =>
      LET evidence == Get(Block(c).fields, "evidence")
      IN evidence.is # "null" =>
           /\ \A k \in step[c].contract : k.evidence # {}
           /\ step[c].contract # {}
           /\ evidence.is = "object" /\ Get(evidence.fields, "semantic_support").is # "null" =>
                Demanded(c) # {}

(* The same sentence, of the fields a contract requires: each one that     *)
(* required_fields names is required by the contract the step runs under.  *)
(* The code keeps less: where allowed_values spells the name with white    *)
(* space around it, the requirement is lost when both are trimmed into one *)
(* map (output_contract.rs:366-371), and that case is set aside here.      *)
RequirementsKept ==
  \A c \in Ceremonies :
    (step[c].at \notin {"idle", "failed"} /\ Block(c).is = "object") =>
      LET names == Elements(StringArray(Get(Block(c).fields, "required_fields")).is)
          allowed == Get(Block(c).fields, "allowed_values")
          respelt == IF allowed.is # "object" THEN {}
                     ELSE {Trim(n) : n \in DOMAIN allowed.fields \cap DOMAIN Trimmed}
      IN \A k \in step[c].contract : \A name \in names \ respelt :
           name \in DOMAIN k.fields /\ k.fields[name].required

(* An answer that wins under a contract is an object with every field the  *)
(* contract came to require; each of its claims cites something, cites     *)
(* nothing outside the pack, and, where support is demanded, was put to    *)
(* the judge with exactly the evidence it cites and found supported with   *)
(* enough confidence.  Validators, judge and winner selection are separate *)
(* steps (validators.rs, winner_selection.rs): the property ties the       *)
(* winner to the judge's calls about that very proposal.  And the contract *)
(* has the grounding and the support that the step's configuration         *)
(* declares, and requires what it names (GatesKept, RequirementsKept).     *)
WinnerHonoursContract ==
  /\ GatesKept /\ RequirementsKept
  /\ \A c \in Ceremonies : step[c].at = "done" =>
    \A k \in step[c].contract :
      LET answer == step[c].said.json
      IN /\ answer.is = "object"
         /\ \A name \in DOMAIN k.fields : k.fields[name].required => name \in DOMAIN answer.fields
         /\ \A rule \in k.evidence :
              LET claims == answer.fields[rule.claims].items
                  cited(i) == {r.text : r \in Elements(claims[i].fields[rule.cites].items)}
              IN \A i \in DOMAIN claims :
                   /\ cited(i) # {} /\ cited(i) \subseteq rule.refs
                   /\ \A s \in rule.support : \E v \in verdicts :
                        /\ v.by = c /\ v.of = step[c].won /\ v.claim = i /\ v.shown = cited(i)
                        /\ v.verdict.supported /\ v.verdict.confidence >= s.least

(* Ceremonies prepare their participants side by side, one registration at *)
(* a time, and a failure leaves what was done (prepare_ceremony_           *)
(* participants_use_case.rs:52): a council never seats an agent that is    *)
(* not registered, and a ceremony that is ready has a council for every    *)
(* step of its definition.                                                 *)
CouncilsSeatRegistered ==
  /\ \A s \in DOMAIN councils : councils[s] # {} /\ councils[s] \subseteq DOMAIN agents
  /\ \A c \in Ceremonies : prep[c].at = "ready" =>
       \A i \in DOMAIN script[c].steps : Specialty(script[c].steps[i]) \in DOMAIN councils

(* "so one runaway turn cannot dominate the brief"                         *)
(* (deliberating_ceremony_step_handler.rs:21): a brief is refused for its  *)
(* length only if it is too long with every part that was cut counted as   *)
(* the most a cut part can be, its characters four bytes wide and the mark *)
(* of the cut three.  A long prompt, or many parts, can still fill it.     *)
NoPartDominates ==
  \A c \in Ceremonies : (step[c].at = "failed" /\ step[c].why = "brief") =>
    LET s == script[c].steps[step[c].of]
        prior == SeePriorSteps(Get(s.config, "see_prior")).is
        parts == BriefParts(s, script[c].context, prior)
        share(t) == IF Len(t) <= Cap THEN Bytes(t) ELSE 4 * Cap + 3
    IN 2 + Bytes([i \in DOMAIN parts |-> 1 + share(parts[i])]) + Bytes(Prompt(s)) > MaxBrief
=============================================================================
