---------------------------- MODULE EmbeddedRequests ----------------------------
(***************************************************************************)
(* How the in-process MCP backend reads the arguments of a tool            *)
(* (crates/choreo-mcp/src/embedded/): one reader per field, each of which  *)
(* hands over a value or refuses the call.                                 *)
(***************************************************************************)
EXTENDS ToolSchemas

Refused == "refused"
None == "none"

\* A reading is a record of what each field became; one refusal refuses it.
Refuses(reading) == \E f \in DOMAIN reading : reading[f] = Refused

unwrap_or(x, default) == IF x = None THEN default ELSE x

\* The value of an enumeration, which only its own members spell.
Member(x) == IF x = "text" THEN "text" ELSE Refused

\* A definition is read by parsing it, to which white space around it is nothing.
parse_str(x) == IF x \in {"text", "padded"} THEN "text" ELSE Refused

optional_string(v) ==
    CASE v = "absent" -> None
      [] v \in {"text", "padded"} -> "text"
      [] v = "other" -> "other"
      [] OTHER -> Refused

required_string(v) == IF optional_string(v) = None THEN Refused ELSE optional_string(v)

required_strings(v) == IF v \in {"list", "emptylist"} THEN v ELSE Refused

optional_u64(v) ==
    CASE v = "absent" -> None
      [] v \in {"zero", "small", "huge"} -> v
      [] OTHER -> Refused

optional_attributes(v) ==
    CASE v = "absent" -> None
      [] v \in Structs -> v
      [] OTHER -> Refused

context_from_json(v) == optional_attributes(v)

optional_role_ids(v) ==
    CASE v = "absent" -> None
      [] v \in {"list", "emptylist"} -> v
      [] OTHER -> Refused

required_actor_kind(v) == Member(required_string(v))

\* A duration of nothing means the default one, which every reader has its own of.
lease_ttl(x, default) == IF x \in {None, "zero"} THEN default ELSE x

-----------------------------------------------------------------------------

EmbeddedRunCeremonyRequest(a) ==
    [definition_yaml |-> parse_str(required_string(a.definition_yaml)),
     ceremony_id     |-> unwrap_or(optional_string(a.ceremony_id), "minted"),
     context         |-> context_from_json(a.context),
     lease_owner_id  |-> unwrap_or(optional_string(a.lease_owner_id), "choreo-mcp-embedded"),
     lease_ttl_ms    |-> lease_ttl(optional_u64(a.lease_ttl_ms), "30 s"),
     actor_id        |-> required_string(a.actor_id),
     actor_kind      |-> required_actor_kind(a.actor_kind)]

EmbeddedStartCeremonyRequest(a) ==
    [definition_yaml |-> parse_str(required_string(a.definition_yaml)),
     ceremony_id     |-> unwrap_or(optional_string(a.ceremony_id), "minted"),
     context         |-> context_from_json(a.context),
     actor_id        |-> required_string(a.actor_id),
     actor_kind      |-> required_actor_kind(a.actor_kind)]

EmbeddedStartPublishedCeremonyRequest(a) ==
    [ceremony        |-> required_string(a.ceremony),
     version         |-> required_string(a.version),
     ceremony_id     |-> unwrap_or(optional_string(a.ceremony_id), "minted"),
     context         |-> context_from_json(a.context),
     actor_id        |-> required_string(a.actor_id),
     actor_kind      |-> required_actor_kind(a.actor_kind)]

EmbeddedRunCeremonyStepRequest(a) ==
    [ceremony_id     |-> required_string(a.ceremony_id),
     step_id         |-> required_string(a.step_id),
     actor_kind      |-> required_actor_kind(a.actor_kind),
     lease_owner_id  |-> unwrap_or(optional_string(a.lease_owner_id), "choreo-mcp-embedded"),
     idempotency_key |-> unwrap_or(optional_string(a.idempotency_key), "minted"),
     lease_ttl_ms    |-> lease_ttl(optional_u64(a.lease_ttl_ms), "30 s")]

EmbeddedClaimCeremonyStepRequest(a) ==
    [ceremony_id     |-> required_string(a.ceremony_id),
     step_id         |-> required_string(a.step_id),
     actor_kind      |-> required_actor_kind(a.actor_kind),
     lease_owner_id  |-> unwrap_or(optional_string(a.lease_owner_id), "choreo-mcp-external-host"),
     idempotency_key |-> unwrap_or(optional_string(a.idempotency_key), "minted"),
     lease_ttl_ms    |-> lease_ttl(optional_u64(a.lease_ttl_ms), "300 s")]

\* `failed` says whether the status is the one of a failure: a failure carries
\* an error and nothing else does.
EmbeddedCompleteCeremonyStepRequest(a, failed) ==
    LET error == optional_string(a.error)
    IN  [ceremony_id |-> required_string(a.ceremony_id),
         step_id     |-> required_string(a.step_id),
         actor_kind  |-> required_actor_kind(a.actor_kind),
         status      |-> Member(required_string(a.status)),
         output      |-> optional_attributes(a.output),
         error       |-> IF failed = (error # None) THEN error ELSE Refused]

EmbeddedApproveCeremonyGuardRequest(a) ==
    [ceremony_id |-> required_string(a.ceremony_id),
     guard_name  |-> required_string(a.guard_name),
     role_id     |-> required_string(a.role_id),
     role_kind   |-> required_actor_kind(a.role_kind)]

EmbeddedDeferCeremonyGuardRequest(a) ==
    LET conditions == required_strings(a.reconsider_when)
    IN  [ceremony_id     |-> required_string(a.ceremony_id),
         guard_name      |-> required_string(a.guard_name),
         role_id         |-> required_string(a.role_id),
         role_kind       |-> required_actor_kind(a.role_kind),
         statement       |-> required_string(a.statement),
         reason          |-> required_string(a.reason),
         reconsider_when |-> IF conditions = "list" THEN "list" ELSE Refused]

\* A reference is asked for exactly what its kind names, and for all of it.
record_ref(a, kind) ==
    LET text(v) == IF v \in {"text", "padded"} THEN "text"
                   ELSE IF v = "other" THEN "other" ELSE Refused
        ordinal(v) == IF v \in {"zero", "small"} THEN v ELSE Refused
    IN  [f \in {"kind"} \cup NamedBy(kind) |->
            CASE f = "kind"    -> IF a.kind = "text" THEN "text" ELSE Refused
              [] f = "ordinal" -> ordinal(a.ordinal)
              [] OTHER         -> text(a[f])]

EmbeddedAssertCeremonyReasonRequest(a) ==
    [ceremony_id |-> required_string(a.ceremony_id),
     role_id     |-> required_string(a.role_id),
     role_kind   |-> required_actor_kind(a.role_kind),
     from        |-> IF a.from = "object" THEN "object" ELSE Refused,
     to          |-> IF a.to = "object" THEN "object" ELSE Refused,
     kind        |-> Member(required_string(a.kind)),
     why         |-> required_string(a.why),
     confidence  |-> Member(required_string(a.confidence))]

\* No roles named is the whole table; an empty list of roles is a mistake.
EmbeddedRequestCeremonyInterventionRequest(a) ==
    LET roles == optional_role_ids(a.target_role_ids)
    IN  [ceremony_id     |-> required_string(a.ceremony_id),
         intervention_id |-> unwrap_or(optional_string(a.intervention_id), "minted"),
         role_id         |-> required_string(a.role_id),
         role_kind       |-> required_actor_kind(a.role_kind),
         kind            |-> Member(required_string(a.kind)),
         target_role_ids |-> CASE roles = None -> "table"
                               [] roles = "list" -> "list"
                               [] OTHER -> Refused,
         message         |-> required_string(a.message),
         details         |-> optional_attributes(a.details),
         provenance      |-> IF a.provenance = "absent" THEN None
                             ELSE IF a.provenance = "object" THEN "object"
                             ELSE Refused]

optional_provenance(a) ==
    [source_intervention_id  |-> required_string(a.source_intervention_id),
     source_response_role_id |-> required_string(a.source_response_role_id),
     selected_role_id        |-> required_string(a.selected_role_id)]

EmbeddedRespondToCeremonyInterventionRequest(a) ==
    [ceremony_id     |-> required_string(a.ceremony_id),
     intervention_id |-> required_string(a.intervention_id),
     role_id         |-> required_string(a.role_id),
     role_kind       |-> required_actor_kind(a.role_kind),
     message         |-> required_string(a.message),
     details         |-> optional_attributes(a.details)]

EmbeddedCloseCeremonyInterventionRequest(a) ==
    [ceremony_id     |-> required_string(a.ceremony_id),
     intervention_id |-> required_string(a.intervention_id),
     role_id         |-> required_string(a.role_id),
     role_kind       |-> required_actor_kind(a.role_kind)]

EmbeddedCollectCeremonyEvidenceRequest(a) ==
    [ceremony_id     |-> required_string(a.ceremony_id),
     intervention_id |-> required_string(a.intervention_id),
     role_id         |-> required_string(a.role_id),
     role_kind       |-> required_actor_kind(a.role_kind),
     source_id       |-> required_string(a.source_id),
     query           |-> required_string(a.query),
     details         |-> optional_attributes(a.details)]

EmbeddedApplyCeremonyTransitionRequest(a) ==
    [ceremony_id |-> required_string(a.ceremony_id),
     trigger     |-> required_string(a.trigger),
     actor_kind  |-> required_actor_kind(a.actor_kind)]

EmbeddedBindCeremonyParticipantsRequest(a) ==
    [ceremony_id |-> required_string(a.ceremony_id),
     seating     |-> IF a.seating = "object" THEN "object" ELSE Refused,
     actor_id    |-> required_string(a.actor_id),
     actor_kind  |-> required_actor_kind(a.actor_kind)]

EmbeddedGetCeremonyInstanceRequest(a) ==
    [ceremony_id |-> required_string(a.ceremony_id)]

EmbeddedGenerateCeremonyReportRequest(a) ==
    LET ids == required_strings(a.ceremony_ids)
    IN  [ceremony_ids |-> IF ids = "list" THEN "list" ELSE Refused,
         title        |-> optional_string(a.title)]

EmbeddedCeremonyDraftRequest(a) ==
    [definition_yaml |-> parse_str(required_string(a.definition_yaml))]

EmbeddedPublishCeremonyDefinitionRequest(a) ==
    [definition_yaml |-> parse_str(required_string(a.definition_yaml))]

EmbeddedDiffCeremonyDefinitionsRequest(a) ==
    [before |-> IF a.before = "object" THEN "object" ELSE Refused,
     after  |-> IF a.after = "object" THEN "object" ELSE Refused]

\* One side of a comparison: a published version named in full, or a definition
\* supplied, and never both.
source(a) ==
    LET ceremony == optional_string(a.ceremony)
        version == optional_string(a.version)
        yaml == optional_string(a.definition_yaml)
        Side(c, v, y) == [ceremony |-> c, version |-> v, definition_yaml |-> y]
    IN  CASE (ceremony # None \/ version # None) /\ yaml # None ->
                Side(Refused, Refused, Refused)
          [] yaml # None -> Side(None, None, parse_str(yaml))
          [] ceremony # None /\ version # None -> Side(ceremony, version, None)
          [] OTHER -> Side(Refused, Refused, Refused)

-----------------------------------------------------------------------------
\* A ceremony designed from its purpose.  The parts of the design not looked at
\* name one role, the "text" of the field that names it.

\* A number the design needs some of.
AtLeastOne(x) == IF x = "zero" THEN Refused ELSE x

EmbeddedDesignCeremonyRequest(a) ==
    LET names(v, default) == IF v = "absent" THEN default ELSE required_strings(v)
        given(v) == IF v = "object" THEN "object" ELSE Refused
        attempts == IF a.max_attempts = "huge" THEN Refused ELSE optional_u64(a.max_attempts)
    IN  [name            |-> required_string(a.name),
         version         |-> unwrap_or(optional_string(a.version), "1.0"),
         objective       |-> required_string(a.objective),
         required_inputs |-> names(a.required_inputs, "emptylist"),
         optional_inputs |-> names(a.optional_inputs, "emptylist"),
         outputs         |-> IF a.outputs = "list" THEN "list" ELSE Refused,
         participants    |-> given(a.participants),
         stages          |-> given(a.stages),
         final_approval  |-> IF a.final_approval \in {"absent", "null"} THEN None
                             ELSE given(a.final_approval),
         step_timeout_seconds |->
             AtLeastOne(unwrap_or(optional_u64(a.step_timeout_seconds), "300")),
         max_attempts    |-> AtLeastOne(unwrap_or(attempts, "2")),
         backoff_seconds |-> unwrap_or(optional_u64(a.backoff_seconds), "1")]

\* Who takes part owns the stage, so a role by another name leaves the stage
\* without its owner.
ParticipantIntent(a) ==
    [role_id      |-> Member(required_string(a.role_id)),
     capabilities |-> IF a.capabilities = "absent" THEN "emptylist"
                      ELSE required_strings(a.capabilities)]

\* Only more than one agent can review one another.
StageIntent(a) ==
    LET agents == unwrap_or(optional_u64(a.num_agents), "1")
        rounds == unwrap_or(optional_u64(a.review_rounds), "zero")
    IN  [id            |-> required_string(a.id),
         owner_role_id |-> Member(required_string(a.owner_role_id)),
         instructions  |-> required_string(a.instructions),
         handler       |-> unwrap_or(optional_string(a.handler), "host_callback"),
         see_prior     |-> CASE a.see_prior \in {"absent", "null"} -> "after the first"
                             [] a.see_prior \in {"true", "false"} -> a.see_prior
                             [] OTHER -> Refused,
         num_agents    |-> AtLeastOne(agents),
         review_rounds |-> IF rounds # "zero" /\ agents = "1" THEN Refused ELSE rounds]

FinalApprovalIntent(a) ==
    [role_id    |-> Member(required_string(a.role_id)),
     guard_name |-> unwrap_or(optional_string(a.guard_name), "human_approved_outcome"),
     trigger    |-> unwrap_or(optional_string(a.trigger), "approve_outcome")]
=============================================================================
