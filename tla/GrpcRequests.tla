------------------------------ MODULE GrpcRequests ------------------------------
(***************************************************************************)
(* The same tools over gRPC.  The MCP process writes the arguments into a  *)
(* protobuf message (crates/choreo-mcp/src/grpc/), where a string left out *)
(* is the empty one and a number left out is zero, and the server makes    *)
(* the engine's input of the message                                       *)
(* (crates/choreo-adapters/src/grpc/mappers/).                             *)
(***************************************************************************)
EXTENDS EmbeddedRequests

Strings == {"text", "padded", "blank", "empty", "other"}

-----------------------------------------------------------------------------
\* Arguments to message.

\* A value that is not a string counts as none given.
optional_str(v) == IF v \in Strings THEN v ELSE "empty"

require_str(v) == IF v \in Strings THEN v ELSE Refused

optional_u32(v) ==
    CASE v \in {"absent", "null"} -> "zero"
      [] v \in {"zero", "small"} -> v
      [] OTHER -> Refused

g_optional_u64(v) ==
    CASE v \in {"absent", "null"} -> "zero"
      [] v \in {"zero", "small", "huge"} -> v
      [] OTHER -> Refused

optional_bool(v) == IF v = "true" THEN "true" ELSE "false"

\* A protobuf Struct has one kind of number, a double: an integer past 2^53
\* becomes the nearest one.
json_to_pb_value(v) ==
    CASE v = "numbers" -> "doubles"
      [] v = "numbers64" -> "near doubles"
      [] OTHER -> v

optional_pb_struct(v) ==
    CASE v \in {"absent", "null"} -> None
      [] v \in Structs -> json_to_pb_value(v)
      [] OTHER -> Refused

\* An object that is a message of its own, read apart: one that may be left out,
\* and one that may not.
optional_message(v) ==
    CASE v \in {"absent", "null"} -> None
      [] v = "object" -> "object"
      [] OTHER -> Refused

require_object(v) == IF v = "object" THEN "object" ELSE Refused

string_array(v) ==
    CASE v \in {"list", "mixedlist"} -> "list"
      [] v = "blanklist" -> "blanklist"
      [] OTHER -> "emptylist"

optional_timestamp(v) ==
    CASE optional_str(v) = "empty" -> None
      [] optional_str(v) = "text" -> "text"
      [] OTHER -> Refused

minted_id(v) == IF v \in {"text", "padded", "other"} THEN v ELSE "minted"

-----------------------------------------------------------------------------
\* Message to input.

\* The constructors of ids, names and messages: trimmed, and never blank.
Id(x) ==
    CASE x \in {"text", "padded"} -> "text"
      [] x \in {"other", "minted"} -> x
      [] OTHER -> Refused

\* Blank means that the caller left it to the server.
IdOr(x, default) == IF x \in {"blank", "empty"} THEN default ELSE Id(x)

\* Kept as given, as long as something is given.
Verbatim(x) == IF x \in {"blank", "empty"} THEN Refused ELSE x

\* Blank means none, and the rest is trimmed.
optional_text(x) == IdOr(x, None)

actor_kind_from_proto(x) == Member(x)

\* Who acts travels as it was given, and is judged where it is recorded.
AuditActor(x) == Id(x)

\* The doubles of a Struct are floats to the engine, and no integers any more.
attributes_from_struct(x) ==
    CASE x = "doubles" -> "floats"
      [] x = "near doubles" -> "near floats"
      [] OTHER -> x

\* Two messages deep: what the second makes of what the first let through.
Then(message, input) == IF Refuses(message) THEN message ELSE input

-----------------------------------------------------------------------------
\* Sessions of a ceremony.

build_run_ceremony_request(a) ==
    [definition_yaml |-> require_str(a.definition_yaml),
     ceremony_id     |-> optional_str(a.ceremony_id),
     context         |-> optional_pb_struct(a.context),
     lease_owner_id  |-> optional_str(a.lease_owner_id),
     lease_ttl_ms    |-> g_optional_u64(a.lease_ttl_ms),
     actor_id        |-> require_str(a.actor_id),
     actor_kind      |-> require_str(a.actor_kind)]

run_ceremony_input_from_proto(p) ==
    [definition_yaml |-> parse_str(p.definition_yaml),
     ceremony_id     |-> IdOr(p.ceremony_id, "minted"),
     context         |-> attributes_from_struct(p.context),
     lease_owner_id  |-> IdOr(p.lease_owner_id, "grpc-run-ceremony"),
     lease_ttl_ms    |-> lease_ttl(p.lease_ttl_ms, "60 s"),
     actor_id        |-> p.actor_id,
     actor_kind      |-> actor_kind_from_proto(p.actor_kind)]

build_start_ceremony_request(a) ==
    [definition_yaml |-> require_str(a.definition_yaml),
     ceremony_id     |-> minted_id(a.ceremony_id),
     context         |-> optional_pb_struct(a.context),
     actor_id        |-> require_str(a.actor_id),
     actor_kind      |-> require_str(a.actor_kind)]

start_ceremony_from_proto(p) ==
    [definition_yaml |-> parse_str(p.definition_yaml),
     ceremony_id     |-> Id(p.ceremony_id),
     context         |-> attributes_from_struct(p.context),
     actor_id        |-> p.actor_id,
     actor_kind      |-> actor_kind_from_proto(p.actor_kind)]

build_start_published_ceremony_request(a) ==
    [ceremony        |-> require_str(a.ceremony),
     version         |-> require_str(a.version),
     ceremony_id     |-> minted_id(a.ceremony_id),
     context         |-> optional_pb_struct(a.context),
     actor_id        |-> require_str(a.actor_id),
     actor_kind      |-> require_str(a.actor_kind)]

start_published_ceremony_input_from_proto(p) ==
    [ceremony        |-> Id(p.ceremony),
     version         |-> Id(p.version),
     ceremony_id     |-> Id(p.ceremony_id),
     context         |-> attributes_from_struct(p.context),
     actor_id        |-> p.actor_id,
     actor_kind      |-> actor_kind_from_proto(p.actor_kind)]

build_run_ceremony_step_request(a) ==
    [ceremony_id     |-> require_str(a.ceremony_id),
     step_id         |-> require_str(a.step_id),
     actor_kind      |-> require_str(a.actor_kind),
     lease_owner_id  |-> optional_str(a.lease_owner_id),
     idempotency_key |-> optional_str(a.idempotency_key),
     lease_ttl_ms    |-> g_optional_u64(a.lease_ttl_ms)]

\* The bug a reader of optional strings invites: the key a caller chose is
\* replaced by a fresh one, and its retry is a new execution.
run_ceremony_step_input_from_proto_FreshKey(p) ==
    [ceremony_id     |-> Id(p.ceremony_id),
     step_id         |-> Id(p.step_id),
     actor_kind      |-> actor_kind_from_proto(p.actor_kind),
     lease_owner_id  |-> IdOr(p.lease_owner_id, "grpc-run-ceremony-step"),
     idempotency_key |-> "minted",
     lease_ttl_ms    |-> lease_ttl(p.lease_ttl_ms, "30 s")]

run_ceremony_step_input_from_proto(p) ==
    [ceremony_id     |-> Id(p.ceremony_id),
     step_id         |-> Id(p.step_id),
     actor_kind      |-> actor_kind_from_proto(p.actor_kind),
     lease_owner_id  |-> IdOr(p.lease_owner_id, "grpc-run-ceremony-step"),
     idempotency_key |-> IdOr(p.idempotency_key, "minted"),
     lease_ttl_ms    |-> lease_ttl(p.lease_ttl_ms, "30 s")]

build_apply_ceremony_transition_request(a) ==
    [ceremony_id |-> require_str(a.ceremony_id),
     trigger     |-> require_str(a.trigger),
     actor_kind  |-> require_str(a.actor_kind)]

apply_ceremony_transition_input_from_proto(p) ==
    [ceremony_id |-> Id(p.ceremony_id),
     trigger     |-> Id(p.trigger),
     actor_kind  |-> actor_kind_from_proto(p.actor_kind)]

build_approve_ceremony_guard_request(a) ==
    [ceremony_id |-> require_str(a.ceremony_id),
     guard_name  |-> require_str(a.guard_name),
     role_id     |-> require_str(a.role_id),
     role_kind   |-> require_str(a.role_kind)]

approve_ceremony_guard_input_from_proto(p) ==
    [ceremony_id |-> Id(p.ceremony_id),
     guard_name  |-> Id(p.guard_name),
     role_id     |-> Id(p.role_id),
     role_kind   |-> actor_kind_from_proto(p.role_kind)]

build_defer_ceremony_guard_request(a) ==
    [ceremony_id     |-> require_str(a.ceremony_id),
     guard_name      |-> require_str(a.guard_name),
     role_id         |-> require_str(a.role_id),
     role_kind       |-> require_str(a.role_kind),
     statement       |-> require_str(a.statement),
     reason          |-> require_str(a.reason),
     reconsider_when |-> string_array(a.reconsider_when)]

defer_ceremony_guard_input_from_proto(p) ==
    [ceremony_id     |-> Id(p.ceremony_id),
     guard_name      |-> Id(p.guard_name),
     role_id         |-> Id(p.role_id),
     role_kind       |-> actor_kind_from_proto(p.role_kind),
     statement       |-> Id(p.statement),
     reason          |-> Id(p.reason),
     reconsider_when |-> IF p.reconsider_when = "list" THEN "list" ELSE Refused]

\* Every field of a reference that is missing, or that is not what it should
\* be, is written as the zero of its type.
build_ceremony_record_ref(a) ==
    [kind        |-> require_str(a.kind),
     step_id     |-> optional_str(a.step_id),
     agenda_item |-> optional_str(a.agenda_item),
     ordinal     |-> IF a.ordinal \in {"zero", "small"} THEN a.ordinal ELSE "zero",
     guard_name  |-> optional_str(a.guard_name)]

ceremony_record_ref_from_proto(p, kind) ==
    [f \in {"kind"} \cup NamedBy(kind) |->
        CASE f = "kind"    -> Member(p.kind)
          [] f = "ordinal" -> p.ordinal
          [] OTHER         -> Id(p[f])]

build_assert_ceremony_reason_request(a) ==
    [ceremony_id |-> require_str(a.ceremony_id),
     role_id     |-> require_str(a.role_id),
     role_kind   |-> require_str(a.role_kind),
     from        |-> require_object(a.from),
     to          |-> require_object(a.to),
     kind        |-> require_str(a.kind),
     why         |-> require_str(a.why),
     confidence  |-> require_str(a.confidence)]

assert_ceremony_reason_input_from_proto(p) ==
    [ceremony_id |-> Id(p.ceremony_id),
     role_id     |-> Id(p.role_id),
     role_kind   |-> actor_kind_from_proto(p.role_kind),
     from        |-> p.from,
     to          |-> p.to,
     kind        |-> Member(p.kind),
     why         |-> Id(p.why),
     confidence  |-> Member(p.confidence)]

build_request_ceremony_intervention_request(a) ==
    [ceremony_id     |-> require_str(a.ceremony_id),
     intervention_id |-> minted_id(a.intervention_id),
     role_id         |-> require_str(a.role_id),
     role_kind       |-> require_str(a.role_kind),
     kind            |-> require_str(a.kind),
     target_role_ids |-> string_array(a.target_role_ids),
     message         |-> require_str(a.message),
     details         |-> optional_pb_struct(a.details),
     provenance      |-> IF a.provenance = "absent" THEN None
                         ELSE require_object(a.provenance)]

request_ceremony_intervention_input_from_proto(p) ==
    [ceremony_id     |-> Id(p.ceremony_id),
     intervention_id |-> IdOr(p.intervention_id, "minted"),
     role_id         |-> Id(p.role_id),
     role_kind       |-> actor_kind_from_proto(p.role_kind),
     kind            |-> Member(p.kind),
     target_role_ids |-> CASE p.target_role_ids = "emptylist" -> "table"
                           [] p.target_role_ids = "list" -> "list"
                           [] OTHER -> Refused,
     message         |-> Id(p.message),
     details         |-> attributes_from_struct(p.details),
     provenance      |-> p.provenance]

provenance_from_json(a) ==
    [source_intervention_id  |-> require_str(a.source_intervention_id),
     source_response_role_id |-> require_str(a.source_response_role_id),
     selected_role_id        |-> require_str(a.selected_role_id)]

provenance_from_proto(p) ==
    [source_intervention_id  |-> Id(p.source_intervention_id),
     source_response_role_id |-> Id(p.source_response_role_id),
     selected_role_id        |-> Id(p.selected_role_id)]

build_respond_to_ceremony_intervention_request(a) ==
    [ceremony_id     |-> require_str(a.ceremony_id),
     intervention_id |-> require_str(a.intervention_id),
     role_id         |-> require_str(a.role_id),
     role_kind       |-> require_str(a.role_kind),
     message         |-> require_str(a.message),
     details         |-> optional_pb_struct(a.details)]

respond_to_ceremony_intervention_input_from_proto(p) ==
    [ceremony_id     |-> Id(p.ceremony_id),
     intervention_id |-> Id(p.intervention_id),
     role_id         |-> Id(p.role_id),
     role_kind       |-> actor_kind_from_proto(p.role_kind),
     message         |-> Id(p.message),
     details         |-> attributes_from_struct(p.details)]

build_close_ceremony_intervention_request(a) ==
    [ceremony_id     |-> require_str(a.ceremony_id),
     intervention_id |-> require_str(a.intervention_id),
     role_id         |-> require_str(a.role_id),
     role_kind       |-> require_str(a.role_kind)]

close_ceremony_intervention_input_from_proto(p) ==
    [ceremony_id     |-> Id(p.ceremony_id),
     intervention_id |-> Id(p.intervention_id),
     role_id         |-> Id(p.role_id),
     role_kind       |-> actor_kind_from_proto(p.role_kind)]

build_collect_ceremony_evidence_request(a) ==
    [ceremony_id     |-> require_str(a.ceremony_id),
     intervention_id |-> require_str(a.intervention_id),
     role_id         |-> require_str(a.role_id),
     role_kind       |-> require_str(a.role_kind),
     source_id       |-> require_str(a.source_id),
     query           |-> require_str(a.query),
     details         |-> optional_pb_struct(a.details)]

collect_ceremony_evidence_input_from_proto(p) ==
    [ceremony_id     |-> Id(p.ceremony_id),
     intervention_id |-> Id(p.intervention_id),
     role_id         |-> Id(p.role_id),
     role_kind       |-> actor_kind_from_proto(p.role_kind),
     source_id       |-> Id(p.source_id),
     query           |-> Id(p.query),
     details         |-> attributes_from_struct(p.details)]

build_bind_ceremony_participants_request(a) ==
    [ceremony_id |-> require_str(a.ceremony_id),
     seating     |-> require_object(a.seating),
     actor_id    |-> require_str(a.actor_id),
     actor_kind  |-> require_str(a.actor_kind)]

bind_ceremony_participants_input_from_proto(p) ==
    [ceremony_id |-> Id(p.ceremony_id),
     seating     |-> p.seating,
     actor_id    |-> p.actor_id,
     actor_kind  |-> actor_kind_from_proto(p.actor_kind)]

get_ceremony_instance_request(a) ==
    Then([ceremony_id |-> require_str(a.ceremony_id)],
         [ceremony_id |-> Id(a.ceremony_id)])

-----------------------------------------------------------------------------
\* Definitions.

definition_yaml_request(a) ==
    Then([definition_yaml |-> require_str(a.definition_yaml)],
         [definition_yaml |-> parse_str(a.definition_yaml)])

diff_ceremony_definitions_request(a) ==
    [before |-> require_object(a.before), after |-> require_object(a.after)]

definition_ref(a) ==
    [ceremony        |-> optional_str(a.ceremony),
     version         |-> optional_str(a.version),
     definition_yaml |-> optional_str(a.definition_yaml)]

ceremony_definition_source_from_proto(p) ==
    LET given(x) == x \notin {"blank", "empty"}
        named == given(p.ceremony) \/ given(p.version)
        supplied == given(p.definition_yaml)
        Side(c, v, y) == [ceremony |-> c, version |-> v, definition_yaml |-> y]
    IN  CASE named /\ ~supplied -> Side(Id(p.ceremony), Id(p.version), None)
          [] ~named /\ supplied -> Side(None, None, parse_str(p.definition_yaml))
          [] OTHER -> Side(Refused, Refused, Refused)

-----------------------------------------------------------------------------
\* Tasks, councils, agents and contracts.

task_from_json(a) ==
    [task_id          |-> require_str(a.task_id),
     description      |-> optional_str(a.description),
     specialty        |-> require_str(a.specialty),
     constraints      |-> optional_message(a.constraints),
     attributes       |-> optional_pb_struct(a.attributes),
     external_context |-> optional_message(a.external_context),
     metadata         |-> optional_message(a.metadata)]

task_from_proto(p) ==
    [task_id          |-> Id(p.task_id),
     description      |-> Verbatim(p.description),
     specialty        |-> Id(p.specialty),
     constraints      |-> p.constraints,
     attributes       |-> attributes_from_struct(p.attributes),
     external_context |-> p.external_context,
     metadata         |-> p.metadata]

optional_constraints(a) ==
    [rubric          |-> optional_pb_struct(a.rubric),
     rounds          |-> optional_u32(a.rounds),
     num_agents      |-> optional_u32(a.num_agents),
     deadline_ms     |-> g_optional_u64(a.deadline_ms),
     output_contract |-> optional_message(a.output_contract)]

\* Zero leaves the number to the server.
constraints_from_proto(p) ==
    LET or_default(x) == IF x = "zero" THEN "default" ELSE x
    IN  [p EXCEPT !.rubric = attributes_from_struct(@), !.rounds = or_default(@),
                  !.num_agents = or_default(@), !.deadline_ms = or_default(@)]

output_contract_from_json(a) ==
    [contract_id |-> optional_str(a.contract_id),
     format      |-> IF a.format \in Strings \ {"text"} THEN Refused ELSE "text",
     fields      |-> IF a.fields = "object" THEN "object" ELSE None,
     json_schema |-> optional_str(a.json_schema)]

output_contract_from_proto(p) ==
    [p EXCEPT !.contract_id = Id(@), !.json_schema = optional_text(@)]

optional_external_context(a) ==
    [bundle_id      |-> optional_str(a.bundle_id),
     schema_version |-> optional_str(a.schema_version),
     summary        |-> optional_message(a.summary),
     items          |-> optional_message(a.items),
     references     |-> optional_message(a.references),
     metadata       |-> optional_pb_struct(a.metadata)]

external_context_from_proto(p) ==
    [p EXCEPT !.bundle_id = Id(@), !.schema_version = Id(@),
              !.metadata = attributes_from_struct(@)]

optional_context_summary(a) ==
    [text       |-> optional_str(a.text),
     attributes |-> optional_pb_struct(a.attributes)]

summary_from_proto(p) ==
    [p EXCEPT !.text = Id(@), !.attributes = attributes_from_struct(@)]

context_item_from_json(a) ==
    [item_id       |-> require_str(a.item_id),
     kind          |-> require_str(a.kind),
     title         |-> optional_str(a.title),
     narrative     |-> optional_str(a.narrative),
     attributes    |-> optional_pb_struct(a.attributes),
     reference_ids |-> string_array(a.reference_ids)]

\* The engine's item has a title, which the schema does not ask for.
item_from_proto(p) ==
    [p EXCEPT !.item_id = Id(@), !.kind = Id(@), !.title = Id(@),
              !.narrative = optional_text(@),
              !.attributes = attributes_from_struct(@),
              !.reference_ids = IF @ = "blanklist" THEN Refused ELSE @]

context_reference_from_json(a) ==
    [reference_id |-> require_str(a.reference_id),
     uri          |-> require_str(a.uri),
     title        |-> optional_str(a.title),
     media_type   |-> optional_str(a.media_type),
     attributes   |-> optional_pb_struct(a.attributes)]

reference_from_proto(p) ==
    [p EXCEPT !.reference_id = Id(@), !.uri = Id(@),
              !.title = optional_text(@), !.media_type = optional_text(@),
              !.attributes = attributes_from_struct(@)]

optional_task_metadata(a) ==
    [source_event_id     |-> optional_str(a.source_event_id),
     causation_id        |-> optional_str(a.causation_id),
     correlation_id      |-> optional_str(a.correlation_id),
     council_contract_id |-> optional_str(a.council_contract_id),
     output_contract_id  |-> optional_str(a.output_contract_id),
     execution_profile   |-> optional_pb_struct(a.execution_profile)]

metadata_from_proto(p) ==
    [f \in DOMAIN p |-> IF f = "execution_profile" THEN attributes_from_struct(p[f])
                        ELSE optional_text(p[f])]

trigger_event_from_json(a) ==
    LET specialties == string_array(a.requested_specialties)
    IN  [event_id                  |-> require_str(a.event_id),
         kind                      |-> require_str(a.kind),
         source                    |-> require_str(a.source),
         emitted_at                |-> optional_timestamp(a.emitted_at),
         requested_specialties     |-> IF specialties = "emptylist" THEN Refused
                                       ELSE specialties,
         task_description_template |-> optional_str(a.task_description_template),
         constraints               |-> optional_message(a.constraints),
         payload                   |-> optional_pb_struct(a.payload),
         external_context          |-> optional_message(a.external_context),
         correlation_id            |-> optional_str(a.correlation_id),
         causation_id              |-> optional_str(a.causation_id)]

trigger_event_from_proto(p) ==
    [p EXCEPT !.event_id = IdOr(@, "minted"), !.kind = Id(@), !.source = Id(@),
              !.requested_specialties = IF @ = "blanklist" THEN Refused ELSE @,
              !.task_description_template =
                    IF @ \in {"blank", "empty"} THEN None ELSE @,
              !.payload = attributes_from_struct(@),
              !.correlation_id = optional_text(@),
              !.causation_id = optional_text(@)]

\* Exactly one of the two ways to name the council.
run_council_decision_request_from_json(a) ==
    LET one == (a.council_id \in Strings) # (a.specialty \in Strings)
    IN  [contract_id      |-> require_str(a.contract_id),
         description      |-> require_str(a.description),
         council_id       |-> IF ~one THEN Refused
                              ELSE IF a.council_id \in Strings THEN a.council_id ELSE None,
         specialty        |-> IF ~one THEN Refused
                              ELSE IF a.specialty \in Strings THEN a.specialty ELSE None,
         external_context |-> optional_message(a.external_context),
         validation_mode  |-> IF optional_str(a.validation_mode) \in {"text", "empty"}
                              THEN optional_str(a.validation_mode) ELSE Refused,
         metadata         |-> optional_message(a.metadata)]

run_council_decision_input_from_proto(p) ==
    [p EXCEPT !.contract_id = Verbatim(@), !.description = Verbatim(@),
              !.council_id = IF @ = None THEN None ELSE Id(@),
              !.specialty = IF @ = None THEN None ELSE Id(@)]

agent_summary_from_json(a) ==
    [agent_id   |-> require_str(a.agent_id),
     specialty  |-> require_str(a.specialty),
     kind       |-> require_str(a.kind),
     attributes |-> optional_pb_struct(a.attributes)]

\* Of the agent, the engine keeps who it is and of what kind; its specialty is
\* the request's unless that is blank, its attributes the request's agent_config.
descriptor_from_register_request(p) ==
    [agent_id |-> Id(p.agent_id), kind |-> Id(p.kind)]

build_register_agent_request(a) ==
    [specialty    |-> require_str(a.specialty),
     agent        |-> require_object(a.agent),
     agent_config |-> optional_pb_struct(a.agent_config)]

register_agent(p) ==
    [p EXCEPT !.specialty = IdOr(@, "of the agent"),
              !.agent_config = attributes_from_struct(@)]

build_create_council_request(a) ==
    [specialty    |-> require_str(a.specialty),
     num_agents   |-> optional_u32(a.num_agents),
     agent_config |-> optional_pb_struct(a.agent_config)]

\* The council is made of ids derived from the specialty; the configuration sent
\* along is not looked at.
create_council(p) ==
    [specialty  |-> Id(p.specialty),
     num_agents |-> IF p.num_agents = "zero" THEN Refused ELSE p.num_agents]

\* The tools that take one name: of a council, an agent, a task, a contract.
build_delete_council_request(a) == [specialty |-> require_str(a.specialty)]
build_unregister_agent_request(a) == [agent_id |-> require_str(a.agent_id)]
build_get_deliberation_result_request(a) == [task_id |-> require_str(a.task_id)]
build_delete_contract_request(a) == [contract_id |-> require_str(a.contract_id)]

\* The tools that ask for more of the same.
build_list_councils_request(a) == [include_agents |-> optional_bool(a.include_agents)]
build_get_status_request(a) == [include_stats |-> optional_bool(a.include_stats)]

\* The tools around an object read apart.
build_deliberate_request(a) == [task |-> require_object(a.task)]
build_stream_deliberation_request(a) == [task |-> require_object(a.task)]
build_orchestrate_request(a) ==
    [task |-> require_object(a.task),
     execution_options |-> optional_pb_struct(a.execution_options)]
orchestrate(p) == [p EXCEPT !.execution_options = attributes_from_struct(@)]
build_process_trigger_event_request(a) == [event |-> require_object(a.event)]
build_register_contract_request(a) == [contract |-> require_object(a.contract)]
=============================================================================
