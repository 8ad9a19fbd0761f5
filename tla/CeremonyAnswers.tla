---------------------------- MODULE CeremonyAnswers ----------------------------
(***************************************************************************)
(* What a caller is shown of a session, a draft, a publication, a          *)
(* comparison and a run, by the in-process backend                         *)
(* (crates/choreo-mcp/src/embedded/*_presenter.rs) and by the gRPC one,    *)
(* where the server writes a message                                       *)
(* (crates/choreo-adapters/src/grpc/mappers/) and the MCP process writes   *)
(* the JSON from it (crates/choreo-mcp/src/grpc/proto_to_json.rs).  Every  *)
(* object of an answer is shown on its own.  A shown object is a function  *)
(* from its keys to the kind of each value, which is what the repository's *)
(* parity tests call its shape.                                            *)
(***************************************************************************)
EXTENDS ToolSchemas

Absent == "none"

\* What an object of the domain may hold in a field: a text, a moment, a number,
\* a flag, attributes, an evidence pack, a list; for some of them nothing.
Text == {"text"}
Perhaps == {Absent, "text"}
List == {"list", "emptylist"}

\* The objects, and what each of their fields may hold.
Held(part) ==
    CASE part = "session" ->
            [ceremony_id |-> Text, definition_name |-> Text, definition_version |-> Text,
             bound_definition_digest |-> Perhaps, current_state |-> Text,
             completed |-> {"flag"}, next_step_id |-> Perhaps, waiting_for_human |-> List,
             guard_deferrals |-> List, transitions |-> List, steps |-> List,
             interventions |-> List, open_intervention_ids |-> List,
             context |-> {"map"}, participant_bindings |-> List, reasons |-> List]
      [] part = "sessions" -> [count |-> {"number"}, instances |-> List]
      [] part = "step of session" ->
            [step_id |-> Text, state_id |-> Text, status |-> Text, attempt |-> {"number"},
             output |-> {"map"}, error |-> Perhaps]
      [] part = "transition of session" ->
            [trigger |-> Text, to |-> Text, enabled |-> {"flag"}, guards |-> List]
      [] part = "guard" -> [name |-> Text, kind |-> Text, satisfied |-> {"flag"}]
      [] part = "deferral" ->
            [guard_name |-> Text, statement |-> Text, reason |-> Text,
             reconsider_when |-> {"list"}, deferred_at |-> {"time"}]
      [] part = "binding" -> [role_id |-> Text, specialty |-> Text, bound_at |-> {"time"}]
      [] part = "reason" ->
            [from |-> {"map"}, to |-> {"map"}, kind |-> Text, why |-> Text,
             confidence |-> Text, asserted_by_role_id |-> Perhaps, asserted_at |-> {"time"}]
      [] part = "intervention" ->
            [intervention_id |-> Text, kind |-> Text, status |-> Text, requested_by |-> Text,
             target |-> {"map"}, request |-> {"map"}, provenance |-> {Absent, "map"},
             responses |-> List, created_at |-> {"time"}, updated_at |-> {"time"},
             closed_at |-> {Absent, "time"}]
      [] part = "target" -> [kind |-> Text, role_ids |-> {Absent, "list"}]
      [] part = "request" -> [message |-> Text, details |-> {"map"}]
      [] part = "provenance shown" ->
            [source_intervention_id |-> Text, source_response_role_id |-> Text,
             selected_role_id |-> Text]
      [] part = "response" ->
            [role_id |-> Text, message |-> Text, details |-> {"map"},
             evidence_pack |-> {Absent, "pack"}, responded_at |-> {"time"}]
      [] part \in RefKinds ->
            [f \in {"kind"} \cup NamedBy(part) |->
                IF f = "ordinal" THEN {"number"} ELSE Text]
      [] part = "validation" ->
            [ceremony |-> Text, version |-> Text, publishable |-> {"flag"},
             error_count |-> {"number"}, warning_count |-> {"number"}, findings |-> List]
      [] part = "finding" -> [severity |-> Text, locus |-> {"map"}, message |-> Text]
      [] part = "explanation" ->
            [ceremony |-> Text, version |-> Text, publishable |-> {"flag"},
             summary |-> {"map"}, narrative |-> List]
      [] part = "published" ->
            [outcome |-> Text, ceremony |-> Text, version |-> Text, digest |-> Text]
      [] part = "version_occupied" ->
            [outcome |-> Text, published_digest |-> Text, offered_digest |-> Text]
      [] part = "diff" ->
            [identical |-> {"flag"}, strands_running_sessions |-> {"flag"},
             strand_count |-> {"number"}, changes |-> List]
      [] part = "change" ->
            [kind |-> Text, locus |-> {"map"}, impact |-> Text, detail |-> Text]
      [] part = "run" ->
            [ceremony_id |-> Text, definition_name |-> Text, definition_version |-> Text,
             final_state |-> Text, completed |-> {"flag"}, steps |-> List,
             mermaid_sequence |-> Text]
      [] part = "trace" ->
            [state_id |-> Text, step_id |-> Text, role_id |-> Text, status |-> Text,
             attempt |-> {"number"}, output |-> Perhaps]

\* The objects of a kind: with everything there is, and with all but one thing;
\* with nothing that may be left out, and with one such thing.
Objects(part) ==
    LET held == Held(part)
        empty == {Absent, "emptylist"}
        most == [f \in DOMAIN held |-> CHOOSE x \in held[f] : x \notin empty]
        least == [f \in DOMAIN held |-> IF held[f] \cap empty = {} THEN most[f]
                                        ELSE CHOOSE x \in held[f] : x \in empty]
    IN  {most, least} \cup {[most EXCEPT ![f] = least[f]] : f \in DOMAIN held}
                      \cup {[least EXCEPT ![f] = most[f]] : f \in DOMAIN held}

-----------------------------------------------------------------------------
\* JSON written straight from the domain.

json(x) ==
    CASE x = Absent -> "null"
      [] x \in {"text", "empty", "time"} -> "string"
      [] x \in {"list", "emptylist"} -> "array"
      [] x \in {"map", "pack"} -> "object"
      [] OTHER -> x

ShownAsHeld(v) == [f \in DOMAIN v |-> json(v[f])]

Without(v, fields) == [f \in DOMAIN v \ fields |-> v[f]]

Rename(v, was, is) ==
    [f \in (DOMAIN v \ {was}) \cup {is} |-> IF f = is THEN v[was] ELSE v[f]]

\* The in-process presenters.
present_instance(v) == ShownAsHeld(v)
present_instances(v) == ShownAsHeld(v)
present_step(v) == ShownAsHeld(v)
present_transition(v) == ShownAsHeld(Rename(v, "to", "to_state"))
record_ref_value(v) == ShownAsHeld(v)
guard_deferral_values(v) == ShownAsHeld(v)
target_value(v) ==
    ShownAsHeld(IF v.role_ids = Absent THEN Without(v, {"role_ids"}) ELSE v)
intervention_values(v) == ShownAsHeld(v)
response_value(v) == ShownAsHeld(v)
present_validation(v) == ShownAsHeld(v)
present_finding(v) == ShownAsHeld(v)
present_explanation(v) == ShownAsHeld(v)
present_publication(v) == ShownAsHeld(v)
present_definition_diff(v) == ShownAsHeld(v)
\* A step that produced no winner shows an empty text.
unwrap_or_default(x) == IF x = Absent THEN "empty" ELSE x
present_run(v) ==
    ShownAsHeld(IF "output" \in DOMAIN v THEN [v EXCEPT !.output = unwrap_or_default(@)] ELSE v)

EmbeddedShows(part, v) ==
    CASE part = "session" -> present_instance(v)
      [] part = "sessions" -> present_instances(v)
      [] part = "step of session" -> present_step(v)
      [] part = "transition of session" -> present_transition(v)
      [] part = "deferral" -> guard_deferral_values(v)
      [] part = "intervention" -> intervention_values(v)
      [] part = "target" -> target_value(v)
      [] part = "response" -> response_value(v)
      [] part \in RefKinds -> record_ref_value(v)
      [] part = "validation" -> present_validation(v)
      [] part = "finding" -> present_finding(v)
      [] part = "explanation" -> present_explanation(v)
      [] part \in {"published", "version_occupied"} -> present_publication(v)
      [] part \in {"diff", "change"} -> present_definition_diff(v)
      [] part \in {"run", "trace"} -> present_run(v)
      [] OTHER -> ShownAsHeld(v)

-----------------------------------------------------------------------------
\* The message the server writes: a string that is not there is the empty one,
\* a list that is not there is the empty one, a moment is written out.

written(x) == IF x = "time" THEN "text" ELSE x
Written(v) == [f \in DOMAIN v |-> written(v[f])]

ceremony_instance_state_from(v) ==
    [Written(v) EXCEPT !.bound_definition_digest = unwrap_or_default(@),
                       !.next_step_id = unwrap_or_default(@)]
step_state_from(v) == [Written(v) EXCEPT !.error = unwrap_or_default(@)]
transition_state_from(v) == Written(v)
guard_deferral_state_from(v) == Written(v)
participant_binding_state_from(v) == Written(v)
reason_state_from(v) == [Written(v) EXCEPT !.asserted_by_role_id = unwrap_or_default(@)]
intervention_state_from(v) == [Written(v) EXCEPT !.closed_at = unwrap_or_default(@)]
target_state_from(v) ==
    [Written(v) EXCEPT !.role_ids = IF @ = Absent THEN "emptylist" ELSE @]
\* The pack is written out as a text of its own.
intervention_response_state_from(v) ==
    [Written(v) EXCEPT !.evidence_pack = IF @ = "pack" THEN "text" ELSE "empty"]
\* One flat message for all kinds, with what the others name left at its default.
record_ref_state_from(v) ==
    [f \in {"kind", "step_id", "agenda_item", "ordinal", "guard_name"} |->
        IF f \in DOMAIN v THEN v[f] ELSE IF f = "ordinal" THEN "number" ELSE "empty"]
validate_ceremony_draft_response_from(v) == Written(v)
explain_ceremony_draft_response_from(v) == Written(v)
\* One flat message for all three outcomes too.
publish_ceremony_definition_response_from(v) ==
    [f \in {"outcome", "ceremony", "version", "digest", "published_digest",
            "offered_digest"} |-> IF f \in DOMAIN v THEN v[f] ELSE "empty"]
diff_ceremony_definitions_response_from(v) == Written(v)
run_ceremony_response_from(v) ==
    IF "output" \in DOMAIN v THEN [v EXCEPT !.output = unwrap_or_default(@)] ELSE v

-----------------------------------------------------------------------------
\* The JSON the MCP process makes of the message.

\* A message's empty text passed on as it is.
empty_as_null_Kept(x) == x

\* How a message says that there is nothing.
empty_as_null(x) == IF x = "empty" THEN Absent ELSE x

ceremony_instance_state_to_json(p) ==
    ShownAsHeld([p EXCEPT !.bound_definition_digest = empty_as_null(@),
                          !.next_step_id = empty_as_null(@)])
list_ceremony_instances_to_json(p) == ShownAsHeld(Without(p, {"count"}))
step_state_to_json(p) == ShownAsHeld([p EXCEPT !.error = empty_as_null(@)])
available_transition_to_json(p) == ShownAsHeld(Rename(p, "to", "to_state"))
guard_deferral_to_json(p) == ShownAsHeld(p)
participant_binding_to_json(p) == ShownAsHeld(p)
reason_to_json(p) == ShownAsHeld([p EXCEPT !.asserted_by_role_id = empty_as_null(@)])
intervention_to_json(p) == ShownAsHeld([p EXCEPT !.closed_at = empty_as_null(@)])
response_to_json(p) == ShownAsHeld([p EXCEPT !.evidence_pack = empty_as_null(@)])
intervention_target_to_json(p) ==
    ShownAsHeld(IF p.role_ids = "emptylist" THEN Without(p, {"role_ids"}) ELSE p)
record_ref_to_json(p, kind) == ShownAsHeld([f \in {"kind"} \cup NamedBy(kind) |-> p[f]])
validate_ceremony_draft_to_json(p) == ShownAsHeld(p)
explain_ceremony_draft_to_json(p) == ShownAsHeld(p)
publish_ceremony_definition_to_json(p, outcome) ==
    ShownAsHeld(IF outcome = "version_occupied"
                THEN Without(p, {"ceremony", "version", "digest"})
                ELSE Without(p, {"published_digest", "offered_digest"}))
diff_ceremony_definitions_to_json(p) == ShownAsHeld(p)
run_ceremony_response_to_json(p) == ShownAsHeld(p)

GrpcShows(part, v) ==
    CASE part = "session" -> ceremony_instance_state_to_json(ceremony_instance_state_from(v))
      [] part = "sessions" -> list_ceremony_instances_to_json(v)
      [] part = "step of session" -> step_state_to_json(step_state_from(v))
      [] part = "transition of session" ->
            available_transition_to_json(transition_state_from(v))
      [] part = "deferral" -> guard_deferral_to_json(guard_deferral_state_from(v))
      [] part = "binding" -> participant_binding_to_json(participant_binding_state_from(v))
      [] part = "reason" -> reason_to_json(reason_state_from(v))
      [] part = "intervention" -> intervention_to_json(intervention_state_from(v))
      [] part = "target" -> intervention_target_to_json(target_state_from(v))
      [] part = "response" -> response_to_json(intervention_response_state_from(v))
      [] part \in RefKinds -> record_ref_to_json(record_ref_state_from(v), part)
      [] part \in {"validation", "finding"} ->
            validate_ceremony_draft_to_json(validate_ceremony_draft_response_from(v))
      [] part = "explanation" ->
            explain_ceremony_draft_to_json(explain_ceremony_draft_response_from(v))
      [] part \in {"published", "version_occupied"} ->
            publish_ceremony_definition_to_json(
                publish_ceremony_definition_response_from(v), part)
      [] part \in {"diff", "change"} ->
            diff_ceremony_definitions_to_json(diff_ceremony_definitions_response_from(v))
      [] part \in {"run", "trace"} ->
            run_ceremony_response_to_json(run_ceremony_response_from(v))
      [] OTHER -> ShownAsHeld(Written(v))

Shows(backend, part, v) ==
    IF backend = "embedded" THEN EmbeddedShows(part, v) ELSE GrpcShows(part, v)

SessionParts ==
    {"session", "step of session", "transition of session", "guard", "deferral", "binding",
     "reason", "intervention", "target", "request", "provenance shown", "response"}
    \cup RefKinds

\* What the answer to a tool is made of.
AnswerParts(tool) ==
    CASE tool = "run_ceremony" -> {"run", "trace"}
      [] tool = "validate_ceremony_draft" -> {"validation", "finding"}
      [] tool = "explain_ceremony_draft" -> {"explanation"}
      [] tool = "publish_ceremony_definition" -> {"published", "version_occupied"}
      [] tool = "diff_ceremony_definitions" -> {"diff", "change"}
      [] tool \in {"start_ceremony", "start_published_ceremony", "run_ceremony_step",
                   "apply_ceremony_transition", "approve_ceremony_guard",
                   "defer_ceremony_guard", "assert_ceremony_reason",
                   "request_ceremony_intervention", "respond_to_ceremony_intervention",
                   "close_ceremony_intervention", "collect_ceremony_evidence",
                   "bind_ceremony_participants", "get_ceremony_instance",
                   "claim_ceremony_step", "complete_ceremony_step"} -> SessionParts
      [] tool = "list_ceremony_instances" -> SessionParts \cup {"sessions"}
      [] OTHER -> {}
=============================================================================
