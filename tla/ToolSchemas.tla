------------------------------ MODULE ToolSchemas ------------------------------
(***************************************************************************)
(* What the MCP server advertises: the tools, and for each of them the     *)
(* schema of its arguments (crates/choreo-mcp/src/protocol.rs).            *)
(*                                                                         *)
(* A JSON value is abstracted to what the schemas and the readers of the   *)
(* arguments tell apart; a JSON object to a record from its field names to *)
(* such values.  Objects nested in the arguments have schemas of their own *)
(* and are read on their own, so a call varies one object at a time.       *)
(***************************************************************************)
EXTENDS Naturals

\* "absent": the field is not there.  "text": a string of the kind the field
\* is meant to hold (a member of its enumeration, a definition that parses, a
\* point in time).  "padded": the same within white space.  "blank" is white
\* space, "empty" has no character at all, and "other" is a string that does
\* not mean anything to the field.  "small" fits every integer type, "huge"
\* only 64 bits.  "list" holds strings, no two of them alike, "mixedlist"
\* something else besides.
Values == {"absent", "null", "text", "padded", "blank", "empty", "other",
           "zero", "small", "huge", "true", "false", "object",
           "list", "blanklist", "mixedlist", "emptylist"}

\* Objects of any content at all, which also come with an integer inside: one a
\* double holds exactly, or one past 2^53.
Structs == {"object", "numbers", "numbers64"}

\* What each type of a schema admits.
Admits(type) ==
    CASE type = "string"   -> {"text", "padded", "blank", "other"}
      [] type = "label"    -> {"text", "padded", "blank", "other", "empty"}
      [] type = "enum"     -> {"text"}
      [] type = "natural"  -> {"zero", "small", "huge"}
      [] type = "positive" -> {"small", "huge"}
      [] type = "flag"     -> {"true", "false"}
      [] type = "object"   -> {"object"}
      [] type = "struct"   -> Structs
      [] type = "strings"  -> {"list", "blanklist", "emptylist"}
      [] type = "strings1" -> {"list", "blanklist"}

Must(type) == [type |-> type, required |-> TRUE]
May(type) == [type |-> type, required |-> FALSE]

\* The argument object satisfies the schema.  Every schema closes its object to
\* other fields, so a call has no field the schema does not name.
Allows(schema, a) ==
    \A f \in DOMAIN schema :
        IF a[f] = "absent" THEN ~ schema[f].required
                           ELSE a[f] \in Admits(schema[f].type)

-----------------------------------------------------------------------------
\* Sessions of a ceremony.

run_ceremony_schema ==
    [definition_yaml |-> Must("string"), actor_id |-> Must("string"),
     actor_kind |-> Must("enum"), ceremony_id |-> May("string"),
     context |-> May("struct"), lease_owner_id |-> May("string"),
     lease_ttl_ms |-> May("natural")]

start_ceremony_schema ==
    [definition_yaml |-> Must("string"), actor_id |-> Must("string"),
     actor_kind |-> Must("enum"), ceremony_id |-> May("string"),
     context |-> May("struct")]

start_published_ceremony_schema ==
    [ceremony |-> Must("string"), version |-> Must("string"),
     actor_id |-> Must("string"), actor_kind |-> Must("enum"),
     ceremony_id |-> May("string"), context |-> May("struct")]

run_ceremony_step_schema ==
    [ceremony_id |-> Must("string"), step_id |-> Must("string"),
     actor_kind |-> Must("enum"), lease_owner_id |-> May("string"),
     idempotency_key |-> May("string"), lease_ttl_ms |-> May("natural")]

claim_ceremony_step_schema ==
    [ceremony_id |-> Must("string"), step_id |-> Must("string"),
     actor_kind |-> Must("enum"), lease_owner_id |-> May("string"),
     idempotency_key |-> May("string"), lease_ttl_ms |-> May("natural")]

complete_ceremony_step_schema ==
    [ceremony_id |-> Must("string"), step_id |-> Must("string"),
     actor_kind |-> Must("enum"), status |-> Must("enum"),
     output |-> May("struct"), error |-> May("string")]

ceremony_guard_approval_schema ==
    [ceremony_id |-> Must("string"), guard_name |-> Must("string"),
     role_id |-> Must("string"), role_kind |-> Must("enum")]

ceremony_guard_deferral_schema ==
    [ceremony_id |-> Must("string"), guard_name |-> Must("string"),
     role_id |-> Must("string"), role_kind |-> Must("enum"),
     statement |-> Must("string"), reason |-> Must("string"),
     reconsider_when |-> Must("strings1")]

\* Only the kind is required; which of the others it needs depends on it.
ceremony_record_ref_schema ==
    [kind |-> Must("enum"), step_id |-> May("string"),
     agenda_item |-> May("string"), ordinal |-> May("natural"),
     guard_name |-> May("string")]

ceremony_reason_schema ==
    [ceremony_id |-> Must("string"), role_id |-> Must("string"),
     role_kind |-> Must("enum"), from |-> Must("object"), to |-> Must("object"),
     kind |-> Must("enum"), why |-> Must("string"), confidence |-> Must("enum")]

ceremony_transition_schema ==
    [ceremony_id |-> Must("string"), trigger |-> Must("string"),
     actor_kind |-> Must("enum")]

ceremony_instance_schema == [ceremony_id |-> Must("string")]

request_ceremony_intervention_schema ==
    [ceremony_id |-> Must("string"), role_id |-> Must("string"),
     role_kind |-> Must("enum"), kind |-> Must("enum"),
     message |-> Must("string"), intervention_id |-> May("string"),
     target_role_ids |-> May("strings1"), details |-> May("struct"),
     provenance |-> May("object")]

\* The object under `provenance` of the request above.
provenance_schema ==
    [source_intervention_id |-> Must("string"),
     source_response_role_id |-> Must("string"),
     selected_role_id |-> Must("string")]

respond_to_ceremony_intervention_schema ==
    [ceremony_id |-> Must("string"), intervention_id |-> Must("string"),
     role_id |-> Must("string"), role_kind |-> Must("enum"),
     message |-> Must("string"), details |-> May("struct")]

close_ceremony_intervention_schema ==
    [ceremony_id |-> Must("string"), intervention_id |-> Must("string"),
     role_id |-> Must("string"), role_kind |-> Must("enum")]

collect_ceremony_evidence_schema ==
    [ceremony_id |-> Must("string"), intervention_id |-> Must("string"),
     role_id |-> Must("string"), role_kind |-> Must("enum"),
     source_id |-> Must("string"), query |-> Must("string"),
     details |-> May("struct")]

bind_ceremony_participants_schema ==
    [ceremony_id |-> Must("string"), seating |-> Must("object"),
     actor_id |-> Must("string"), actor_kind |-> Must("enum")]

ceremony_report_schema ==
    [ceremony_ids |-> Must("strings1"), title |-> May("string")]

-----------------------------------------------------------------------------
\* Definitions.

ceremony_draft_schema == [definition_yaml |-> Must("string")]

ceremony_definition_ref_schema ==
    [ceremony |-> May("string"), version |-> May("string"),
     definition_yaml |-> May("string")]

diff_ceremony_definitions_schema ==
    [before |-> Must("object"), after |-> Must("object")]

\* What a ceremony is for, from which the in-process backend draws a draft up.
ceremony_design_schema ==
    [name |-> Must("string"), objective |-> Must("string"),
     outputs |-> Must("strings1"), participants |-> Must("object"),
     stages |-> Must("object"), version |-> May("string"),
     required_inputs |-> May("strings"), optional_inputs |-> May("strings"),
     final_approval |-> May("object"), step_timeout_seconds |-> May("positive"),
     max_attempts |-> May("positive"), backoff_seconds |-> May("natural")]

design_participant_schema ==
    [role_id |-> Must("string"), capabilities |-> May("strings")]

design_stage_schema ==
    [id |-> Must("string"), owner_role_id |-> Must("string"),
     instructions |-> Must("string"), handler |-> May("string"),
     see_prior |-> May("flag"), num_agents |-> May("positive"),
     review_rounds |-> May("natural")]

design_approval_schema ==
    [role_id |-> Must("string"), guard_name |-> May("string"),
     trigger |-> May("string")]

-----------------------------------------------------------------------------
\* Councils, agents, contracts and tasks.

task_schema ==
    [task_id |-> Must("string"), description |-> Must("string"),
     specialty |-> Must("string"), constraints |-> May("object"),
     attributes |-> May("struct"), external_context |-> May("object"),
     metadata |-> May("object")]

constraints_schema ==
    [rubric |-> May("struct"), rounds |-> May("natural"),
     num_agents |-> May("natural"), deadline_ms |-> May("natural"),
     output_contract |-> May("object")]

output_contract_schema ==
    [contract_id |-> Must("string"), format |-> Must("enum"),
     fields |-> May("object"), json_schema |-> May("label")]

external_context_bundle_schema ==
    [bundle_id |-> May("string"), schema_version |-> May("string"),
     summary |-> May("object"), items |-> May("object"),
     references |-> May("object"), metadata |-> May("struct")]

context_item_schema ==
    [item_id |-> Must("string"), kind |-> Must("string"),
     title |-> May("label"), narrative |-> May("label"),
     attributes |-> May("struct"), reference_ids |-> May("strings")]

context_reference_schema ==
    [reference_id |-> Must("string"), uri |-> Must("string"),
     title |-> May("label"), media_type |-> May("label"),
     attributes |-> May("struct")]

task_metadata_schema ==
    [source_event_id |-> May("label"), causation_id |-> May("label"),
     correlation_id |-> May("label"), council_contract_id |-> May("label"),
     output_contract_id |-> May("label"), execution_profile |-> May("struct")]

agent_summary_schema ==
    [agent_id |-> Must("string"), specialty |-> Must("string"),
     kind |-> Must("string"), attributes |-> May("struct")]

trigger_event_schema ==
    [event_id |-> Must("string"), kind |-> Must("string"),
     source |-> Must("string"), requested_specialties |-> Must("strings1"),
     emitted_at |-> May("string"), task_description_template |-> May("label"),
     constraints |-> May("object"), payload |-> May("struct"),
     external_context |-> May("object"), correlation_id |-> May("label"),
     causation_id |-> May("label")]

run_council_decision_schema ==
    [contract_id |-> Must("string"), description |-> Must("string"),
     council_id |-> May("string"), specialty |-> May("string"),
     external_context |-> May("object"), validation_mode |-> May("enum"),
     metadata |-> May("object")]

summary_schema == [text |-> May("string"), attributes |-> May("struct")]

create_council_schema ==
    [specialty |-> Must("string"), num_agents |-> Must("positive"),
     agent_config |-> May("struct")]

register_agent_schema ==
    [specialty |-> Must("string"), agent |-> Must("object"),
     agent_config |-> May("struct")]

orchestrate_schema ==
    [task |-> Must("object"), execution_options |-> May("struct")]

\* The kinds of record a reason may be between.
RefKinds == {"step", "agenda_item", "contribution", "guard_decision", "transition"}

\* What each kind of record reference names its record by.
NamedBy(kind) ==
    CASE kind = "step" -> {"step_id"}
      [] kind = "agenda_item" -> {"agenda_item"}
      [] kind = "contribution" -> {"agenda_item", "ordinal"}
      [] kind = "guard_decision" -> {"guard_name"}
      [] kind = "transition" -> {"ordinal"}
=============================================================================
