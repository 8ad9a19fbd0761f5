------------------------------- MODULE ToolCalls -------------------------------
(***************************************************************************)
(* The MCP server as a process: it reads one line, answers it or does not, *)
(* and reads the next.  A tool call goes to the backend the process was    *)
(* started with, which reads the arguments (EmbeddedRequests,              *)
(* GrpcRequests), takes the engine through the steps of the operation and  *)
(* shows the caller what came of it.  Every step can fail, and what the    *)
(* steps before it did stays done.                                         *)
(***************************************************************************)
EXTENDS GrpcRequests, CeremonyAnswers, Sequences, FiniteSets

CONSTANTS Backends      \* of "embedded", "grpc" and "fixture", those that are tried

-----------------------------------------------------------------------------
\* The tools.

Bare == [x \in {} |-> "absent"]

\* Tools of ceremonies that both backends have.
SharedTools ==
    {"run_ceremony", "start_ceremony", "start_published_ceremony",
     "run_ceremony_step", "apply_ceremony_transition", "approve_ceremony_guard",
     "defer_ceremony_guard", "assert_ceremony_reason",
     "request_ceremony_intervention", "respond_to_ceremony_intervention",
     "close_ceremony_intervention", "collect_ceremony_evidence",
     "bind_ceremony_participants", "get_ceremony_instance",
     "list_ceremony_instances", "validate_ceremony_draft", "explain_ceremony_draft", "publish_ceremony_definition",
     "diff_ceremony_definitions"}

\* Tools of the host that runs steps itself and draws ceremonies up.
HostTools == {"claim_ceremony_step", "complete_ceremony_step", "design_ceremony",
              "generate_ceremony_report"}

\* Tools of councils, which only the server has.
CouncilTools ==
    {"deliberate", "stream_deliberation", "orchestrate", "get_deliberation_result",
     "create_council", "list_councils", "delete_council", "register_agent",
     "unregister_agent", "process_trigger_event", "run_council_decision",
     "register_contract", "list_contracts", "delete_contract", "get_status",
     "get_metrics"}

\* Tools that are asked nothing, or only for more of the same.
NoQuestion == {"list_ceremony_instances", "list_contracts", "get_metrics"}
Drafts == {"validate_ceremony_draft", "explain_ceremony_draft",
           "publish_ceremony_definition"}

Tools == SharedTools \cup HostTools \cup CouncilTools

supports_tool(backend, tool) ==
    CASE backend = "embedded" -> tool \in SharedTools \cup HostTools
      [] OTHER -> tool \in SharedTools \cup CouncilTools

\* The objects within a tool's arguments, each read on its own.
TaskParts == {"task", "constraints", "output_contract", "external_context",
              "summary", "item", "reference", "metadata"}

PartsOf(tool) ==
    {tool} \cup
    CASE tool = "assert_ceremony_reason" -> RefKinds
      [] tool = "request_ceremony_intervention" -> {"provenance"}
      [] tool = "diff_ceremony_definitions" -> {"source"}
      [] tool = "design_ceremony" -> {"participant", "stage", "final_approval"}
      [] tool = "deliberate" -> TaskParts
      [] tool = "process_trigger_event" -> {"event"}
      [] tool = "register_agent" -> {"agent"}
      [] OTHER -> {}

Schema(part) ==
    CASE part = "run_ceremony" -> run_ceremony_schema
      [] part = "start_ceremony" -> start_ceremony_schema
      [] part = "start_published_ceremony" -> start_published_ceremony_schema
      [] part = "run_ceremony_step" -> run_ceremony_step_schema
      [] part = "claim_ceremony_step" -> claim_ceremony_step_schema
      [] part = "complete_ceremony_step" -> complete_ceremony_step_schema
      [] part = "apply_ceremony_transition" -> ceremony_transition_schema
      [] part = "approve_ceremony_guard" -> ceremony_guard_approval_schema
      [] part = "defer_ceremony_guard" -> ceremony_guard_deferral_schema
      [] part = "assert_ceremony_reason" -> ceremony_reason_schema
      [] part \in RefKinds -> ceremony_record_ref_schema
      [] part = "request_ceremony_intervention" -> request_ceremony_intervention_schema
      [] part = "provenance" -> provenance_schema
      [] part = "respond_to_ceremony_intervention" -> respond_to_ceremony_intervention_schema
      [] part = "close_ceremony_intervention" -> close_ceremony_intervention_schema
      [] part = "collect_ceremony_evidence" -> collect_ceremony_evidence_schema
      [] part = "bind_ceremony_participants" -> bind_ceremony_participants_schema
      [] part = "get_ceremony_instance" -> ceremony_instance_schema
      [] part = "generate_ceremony_report" -> ceremony_report_schema
      [] part = "design_ceremony" -> ceremony_design_schema
      [] part = "participant" -> design_participant_schema
      [] part = "stage" -> design_stage_schema
      [] part = "final_approval" -> design_approval_schema
      [] part \in Drafts -> ceremony_draft_schema
      [] part = "diff_ceremony_definitions" -> diff_ceremony_definitions_schema
      [] part = "source" -> ceremony_definition_ref_schema
      [] part \in {"deliberate", "stream_deliberation"} -> [task |-> Must("object")]
      [] part = "list_councils" -> [include_agents |-> May("flag")]
      [] part = "get_status" -> [include_stats |-> May("flag")]
      [] part \in NoQuestion -> Bare
      [] part = "orchestrate" -> orchestrate_schema
      [] part = "task" -> task_schema
      [] part = "constraints" -> constraints_schema
      [] part = "output_contract" -> output_contract_schema
      [] part = "external_context" -> external_context_bundle_schema
      [] part = "summary" -> summary_schema
      [] part = "item" -> context_item_schema
      [] part = "reference" -> context_reference_schema
      [] part = "metadata" -> task_metadata_schema
      [] part = "get_deliberation_result" -> [task_id |-> Must("string")]
      [] part = "create_council" -> create_council_schema
      [] part = "delete_council" -> [specialty |-> Must("string")]
      [] part = "register_agent" -> register_agent_schema
      [] part = "agent" -> agent_summary_schema
      [] part = "unregister_agent" -> [agent_id |-> Must("string")]
      [] part = "process_trigger_event" -> [event |-> Must("object")]
      [] part = "event" -> trigger_event_schema
      [] part = "run_council_decision" -> run_council_decision_schema
      [] part = "register_contract" -> [contract |-> Must("object")]
      [] part = "delete_contract" -> [contract_id |-> Must("string")]

-----------------------------------------------------------------------------
\* What each backend makes of the arguments.

EmbeddedReads(part, a) ==
    CASE part = "run_ceremony" -> EmbeddedRunCeremonyRequest(a)
      [] part = "start_ceremony" -> EmbeddedStartCeremonyRequest(a)
      [] part = "start_published_ceremony" -> EmbeddedStartPublishedCeremonyRequest(a)
      [] part = "run_ceremony_step" -> EmbeddedRunCeremonyStepRequest(a)
      [] part = "claim_ceremony_step" -> EmbeddedClaimCeremonyStepRequest(a)
      [] part = "complete_ceremony_step" -> EmbeddedCompleteCeremonyStepRequest(a, FALSE)
      [] part = "apply_ceremony_transition" -> EmbeddedApplyCeremonyTransitionRequest(a)
      [] part = "approve_ceremony_guard" -> EmbeddedApproveCeremonyGuardRequest(a)
      [] part = "defer_ceremony_guard" -> EmbeddedDeferCeremonyGuardRequest(a)
      [] part = "assert_ceremony_reason" -> EmbeddedAssertCeremonyReasonRequest(a)
      [] part \in RefKinds -> record_ref(a, part)
      [] part = "request_ceremony_intervention" ->
            EmbeddedRequestCeremonyInterventionRequest(a)
      [] part = "provenance" -> optional_provenance(a)
      [] part = "respond_to_ceremony_intervention" ->
            EmbeddedRespondToCeremonyInterventionRequest(a)
      [] part = "close_ceremony_intervention" -> EmbeddedCloseCeremonyInterventionRequest(a)
      [] part = "collect_ceremony_evidence" -> EmbeddedCollectCeremonyEvidenceRequest(a)
      [] part = "bind_ceremony_participants" -> EmbeddedBindCeremonyParticipantsRequest(a)
      [] part = "get_ceremony_instance" -> EmbeddedGetCeremonyInstanceRequest(a)
      [] part = "generate_ceremony_report" -> EmbeddedGenerateCeremonyReportRequest(a)
      [] part = "design_ceremony" -> EmbeddedDesignCeremonyRequest(a)
      [] part = "participant" -> ParticipantIntent(a)
      [] part = "stage" -> StageIntent(a)
      [] part = "final_approval" -> FinalApprovalIntent(a)
      [] part \in {"validate_ceremony_draft", "explain_ceremony_draft"} ->
            EmbeddedCeremonyDraftRequest(a)
      [] part \in NoQuestion -> a
      [] part = "publish_ceremony_definition" -> EmbeddedPublishCeremonyDefinitionRequest(a)
      [] part = "diff_ceremony_definitions" -> EmbeddedDiffCeremonyDefinitionsRequest(a)
      [] part = "source" -> source(a)

\* The message the MCP process sends: of the tools of councils, ...
CouncilMessage(part, a) ==
    CASE part = "deliberate" -> build_deliberate_request(a)
      [] part = "stream_deliberation" -> build_stream_deliberation_request(a)
      [] part = "orchestrate" -> build_orchestrate_request(a)
      [] part = "get_deliberation_result" -> build_get_deliberation_result_request(a)
      [] part = "create_council" -> build_create_council_request(a)
      [] part = "list_councils" -> build_list_councils_request(a)
      [] part = "delete_council" -> build_delete_council_request(a)
      [] part = "register_agent" -> build_register_agent_request(a)
      [] part = "unregister_agent" -> build_unregister_agent_request(a)
      [] part = "process_trigger_event" -> build_process_trigger_event_request(a)
      [] part = "run_council_decision" -> run_council_decision_request_from_json(a)
      [] part = "register_contract" -> build_register_contract_request(a)
      [] part = "delete_contract" -> build_delete_contract_request(a)
      [] part = "get_status" -> build_get_status_request(a)
      [] OTHER -> a

\* ... of the objects inside their arguments, ...
TaskMessage(part, a) ==
    CASE part = "task" -> task_from_json(a)
      [] part = "constraints" -> optional_constraints(a)
      [] part = "output_contract" -> output_contract_from_json(a)
      [] part = "external_context" -> optional_external_context(a)
      [] part = "summary" -> optional_context_summary(a)
      [] part = "item" -> context_item_from_json(a)
      [] part = "reference" -> context_reference_from_json(a)
      [] part = "metadata" -> optional_task_metadata(a)
      [] part = "agent" -> agent_summary_from_json(a)
      [] part = "event" -> trigger_event_from_json(a)

\* ... of the tools that move a session along, ...
SessionMessage(part, a) ==
    CASE part = "run_ceremony" -> build_run_ceremony_request(a)
      [] part = "get_ceremony_instance" -> get_ceremony_instance_request(a)
      [] part = "start_ceremony" -> build_start_ceremony_request(a)
      [] part = "start_published_ceremony" -> build_start_published_ceremony_request(a)
      [] part = "run_ceremony_step" -> build_run_ceremony_step_request(a)
      [] part = "apply_ceremony_transition" -> build_apply_ceremony_transition_request(a)
      [] part = "approve_ceremony_guard" -> build_approve_ceremony_guard_request(a)
      [] OTHER -> a

\* ... of those that say something in one, ...
AgendaMessage(part, a) ==
    CASE part = "defer_ceremony_guard" -> build_defer_ceremony_guard_request(a)
      [] part = "assert_ceremony_reason" -> build_assert_ceremony_reason_request(a)
      [] part \in RefKinds -> build_ceremony_record_ref(a)
      [] part = "request_ceremony_intervention" ->
            build_request_ceremony_intervention_request(a)
      [] part = "provenance" -> provenance_from_json(a)
      [] part = "respond_to_ceremony_intervention" ->
            build_respond_to_ceremony_intervention_request(a)
      [] part = "close_ceremony_intervention" -> build_close_ceremony_intervention_request(a)
      [] part = "collect_ceremony_evidence" -> build_collect_ceremony_evidence_request(a)

\* ... and of those about definitions and seats.
AuthoringMessage(part, a) ==
    CASE part \in Drafts -> definition_yaml_request(a)
      [] part = "diff_ceremony_definitions" -> diff_ceremony_definitions_request(a)
      [] part = "source" -> definition_ref(a)
      [] part = "bind_ceremony_participants" -> build_bind_ceremony_participants_request(a)

Moves == {"run_ceremony", "get_ceremony_instance", "list_ceremony_instances",
          "start_ceremony", "start_published_ceremony", "run_ceremony_step",
          "apply_ceremony_transition", "approve_ceremony_guard"}
Authoring == Drafts \cup {"diff_ceremony_definitions", "source",
                          "bind_ceremony_participants"}

Message(part, a) ==
    CASE part \in CouncilTools -> CouncilMessage(part, a)
      [] part \in TaskParts \cup {"agent", "event"} -> TaskMessage(part, a)
      [] part \in Moves -> SessionMessage(part, a)
      [] part \in Authoring -> AuthoringMessage(part, a)
      [] OTHER -> AgendaMessage(part, a)

\* The input the server makes of the message.
Input(part, p) ==
    CASE part = "run_ceremony" -> run_ceremony_input_from_proto(p)
      [] part = "start_ceremony" -> start_ceremony_from_proto(p)
      [] part = "start_published_ceremony" -> start_published_ceremony_input_from_proto(p)
      [] part = "run_ceremony_step" -> run_ceremony_step_input_from_proto(p)
      [] part = "apply_ceremony_transition" -> apply_ceremony_transition_input_from_proto(p)
      [] part = "approve_ceremony_guard" -> approve_ceremony_guard_input_from_proto(p)
      [] part = "defer_ceremony_guard" -> defer_ceremony_guard_input_from_proto(p)
      [] part = "assert_ceremony_reason" -> assert_ceremony_reason_input_from_proto(p)
      [] part \in RefKinds -> ceremony_record_ref_from_proto(p, part)
      [] part = "request_ceremony_intervention" ->
            request_ceremony_intervention_input_from_proto(p)
      [] part = "provenance" -> provenance_from_proto(p)
      [] part = "respond_to_ceremony_intervention" ->
            respond_to_ceremony_intervention_input_from_proto(p)
      [] part = "close_ceremony_intervention" -> close_ceremony_intervention_input_from_proto(p)
      [] part = "collect_ceremony_evidence" -> collect_ceremony_evidence_input_from_proto(p)
      [] part = "bind_ceremony_participants" -> bind_ceremony_participants_input_from_proto(p)
      [] part = "source" -> ceremony_definition_source_from_proto(p)
      [] part = "task" -> task_from_proto(p)
      [] part = "constraints" -> constraints_from_proto(p)
      [] part = "output_contract" -> output_contract_from_proto(p)
      [] part = "external_context" -> external_context_from_proto(p)
      [] part = "summary" -> summary_from_proto(p)
      [] part = "item" -> item_from_proto(p)
      [] part = "reference" -> reference_from_proto(p)
      [] part = "metadata" -> metadata_from_proto(p)
      [] part = "orchestrate" -> orchestrate(p)
      [] part = "create_council" -> create_council(p)
      [] part = "register_agent" -> register_agent(p)
      [] part = "agent" -> descriptor_from_register_request(p)
      [] part = "event" -> trigger_event_from_proto(p)
      [] part = "run_council_decision" -> run_council_decision_input_from_proto(p)
      [] part \in {"get_deliberation_result", "delete_council", "unregister_agent"} ->
            [f \in DOMAIN p |-> Id(p[f])]
      [] OTHER -> p

GrpcReads(part, a) == Then(Message(part, a), Input(part, Message(part, a)))

Reads(backend, part, a) ==
    IF backend = "embedded" THEN EmbeddedReads(part, a) ELSE GrpcReads(part, a)

-----------------------------------------------------------------------------
\* A line the process may be sent: not JSON at all, JSON without a method, a
\* method of the protocol or of none, a call for help the server answers itself,
\* with the arguments that takes ("get_help") or with others ("bad_help"), or a
\* call, well formed or not; and whether it carries an id.
Line(kind, id) == [kind |-> kind, id |-> id, tool |-> "none", part |-> "none", args |-> Bare]

OtherLines ==
    {Line("garbage", FALSE), Line("methodless", TRUE), Line("methodless", FALSE)}
    \cup {Line(k, id) : k \in {"initialize", "initialized", "tools/list",
                                "unknown", "nameless", "get_help", "bad_help"},
                        id \in BOOLEAN}

NoLine == Line("none", FALSE)

VARIABLES
    backend,    \* what the process was started with
    phase,      \* "ready", "reading", "working", "answered"
    line,       \* the line in hand
    todo,       \* the steps of the operation still to take
    did,        \* the ones this call took
    open,       \* the sessions open: "named" by the caller, "minted" ones
    shown,      \* the object of the answer that is looked at
    answers     \* what was written back for the line in hand

vars == <<backend, phase, line, todo, did, open, shown, answers>>

Nothing == [part |-> "none", held |-> Bare]

\* The steps of an operation, in the order its handler takes them.
CeremonyVerbs ==
    {"approve_ceremony_guard", "defer_ceremony_guard", "assert_ceremony_reason",
     "request_ceremony_intervention", "respond_to_ceremony_intervention",
     "close_ceremony_intervention", "collect_ceremony_evidence",
     "bind_ceremony_participants"}

\* In process: the tools that say something in a session or work a step, ...
EmbeddedVerbSteps(tool) ==
    IF tool \in {"run_ceremony_step", "apply_ceremony_transition"}
    THEN <<"session", "change", "project">> ELSE <<"change", "project">>

\* ... and the rest.
EmbeddedSteps(tool) ==
    CASE tool = "run_ceremony" -> <<"save", "open">>
      [] tool = "start_ceremony" -> <<"save", "open", "project">>
      [] tool = "start_published_ceremony" -> <<"open", "project">>
      [] tool \in {"get_ceremony_instance", "list_ceremony_instances",
                   "generate_ceremony_report"} -> <<"project">>
      [] tool = "publish_ceremony_definition" -> <<"save">>
      [] tool = "diff_ceremony_definitions" -> <<"read">>
      [] tool \in {"design_ceremony", "validate_ceremony_draft",
                   "explain_ceremony_draft"} -> << >>
      [] OTHER -> EmbeddedVerbSteps(tool)

\* Over gRPC: deliberations, ...
DeliberationSteps(tool) ==
    IF tool = "get_deliberation_result" THEN <<"read">> ELSE <<"change">>

\* ... councils, agents, decisions and contracts, ...
RegistrySteps(tool) ==
    IF tool \in {"list_councils", "list_contracts"} THEN <<"read">> ELSE <<"change">>

\* ... the tools that move a session, ...
SessionSteps(tool) ==
    CASE tool = "run_ceremony" -> <<"prepare", "save", "open">>
      [] tool = "start_ceremony" -> <<"save", "prepare", "open">>
      [] tool = "start_published_ceremony" -> <<"open", "session", "prepare">>
      [] tool \in {"run_ceremony_step", "apply_ceremony_transition"} ->
            <<"session", "change">>

\* ... those that say something in one or seat it, ...
VerbSteps(tool) == <<"change", "project">>

\* ... those about definitions, or that only look, ...
AuthoringSteps(tool) ==
    CASE tool \in {"get_ceremony_instance", "list_ceremony_instances"} -> <<"project">>
      [] tool = "publish_ceremony_definition" -> <<"save">>
      [] tool = "diff_ceremony_definitions" -> <<"read">>
      [] OTHER -> << >>

\* ... and those about the service itself.
GrpcSteps(tool) ==
    CASE tool \in {"deliberate", "stream_deliberation", "orchestrate",
                   "get_deliberation_result"} -> DeliberationSteps(tool)
      [] tool \in {"get_status", "get_metrics"} -> <<"read">>
      [] tool \in CouncilTools -> RegistrySteps(tool)
      [] tool \in CeremonyVerbs -> VerbSteps(tool)
      [] tool \in {"get_ceremony_instance", "list_ceremony_instances",
                   "diff_ceremony_definitions"} \cup Drafts -> AuthoringSteps(tool)
      [] OTHER -> SessionSteps(tool)

Steps(b, tool) ==
    CASE b = "embedded" -> EmbeddedSteps(tool)
      [] b = "grpc" -> GrpcSteps(tool)
      [] OTHER -> << >>

Answer(to, verdict) == <<[to |-> to, verdict |-> verdict]>>

-----------------------------------------------------------------------------
Init ==
    /\ backend \in Backends
    /\ phase = "ready" /\ line = NoLine
    /\ todo = << >> /\ did = {} /\ open = {} /\ shown = Nothing /\ answers = << >>

\* The next line from standard input; a blank one is skipped there.
ReadLine(l) ==
    /\ phase = "ready"
    /\ phase' = "reading" /\ line' = l
    /\ UNCHANGED <<backend, todo, did, open, shown, answers>>

\* The answer, if there is one, is written and flushed, and the loop turns.
WriteAnswer ==
    /\ phase = "answered"
    /\ phase' = "ready" /\ line' = NoLine
    /\ todo' = << >> /\ did' = {} /\ shown' = Nothing /\ answers' = << >>
    /\ UNCHANGED <<backend, open>>

\* A bug at hand: the notification is answered, with an id it does not have.
handle_json_line_AnswersNotices ==
    /\ phase = "reading" /\ (line.kind # "call" \/ ~ line.id)
    /\ answers' = CASE line.kind \in {"garbage", "methodless"} -> Answer("null", "refusal")
                    [] line.kind \in {"unknown", "nameless"} -> Answer("caller", "refusal")
                    [] line.kind = "bad_help" -> Answer("caller", "error")
                    [] OTHER -> Answer("caller", "result")
    /\ phase' = "answered"
    /\ UNCHANGED <<backend, line, todo, did, open, shown>>

\* Every line but a call with an id, which is what the backend gets.
handle_json_line ==
    /\ phase = "reading" /\ (line.kind # "call" \/ ~ line.id)
    /\ answers' = CASE line.kind \in {"garbage", "methodless"} -> Answer("null", "refusal")
                    [] line.kind = "initialized" \/ ~ line.id -> << >>
                    [] line.kind \in {"unknown", "nameless"} -> Answer("caller", "refusal")
                    [] line.kind = "bad_help" -> Answer("caller", "error")
                    [] OTHER -> Answer("caller", "result")
    /\ phase' = "answered"
    /\ UNCHANGED <<backend, line, todo, did, open, shown>>

\* The backend reads the arguments.  The fixture backend answers without.
call_tool ==
    /\ phase = "reading" /\ line.kind = "call" /\ line.id
    /\ LET unknown == ~ supports_tool(backend, line.tool)
           refused == /\ backend # "fixture"
                      /\ Refuses(Reads(backend, line.part, line.args))
       IN  IF unknown \/ refused
           THEN /\ phase' = "answered" /\ answers' = Answer("caller", "error")
                /\ UNCHANGED todo
           ELSE /\ phase' = "working" /\ todo' = Steps(backend, line.tool)
                /\ UNCHANGED answers
    /\ UNCHANGED <<backend, line, did, open, shown>>

\* Which session the call opens: one the caller named, or one with a fresh id.
Named == /\ line.part = line.tool
         /\ line.args.ceremony_id \in {"text", "padded", "other"}

\* What the engine judges when it gets there: an id already taken, an actor it
\* cannot record.
EngineLets(step) ==
    /\ step = "open" => ~ (Named /\ "named" \in open)
    /\ (step \in {"open", "change"} /\ "actor_id" \in DOMAIN line.args) =>
          AuditActor(line.args.actor_id) # Refused

\* One step of the operation succeeds.
TakeStep ==
    /\ phase = "working" /\ todo # << >>
    /\ EngineLets(Head(todo))
    /\ todo' = Tail(todo) /\ did' = did \cup {Head(todo)}
    /\ open' = IF Head(todo) # "open" THEN open
               ELSE open \cup {IF Named THEN "named" ELSE "minted"}
    /\ UNCHANGED <<backend, phase, line, shown, answers>>

\* A step is refused by the engine, or fails in a store: the caller gets an
\* error, and what was done before it is not undone.
FailStep ==
    /\ phase = "working" /\ todo # << >>
    /\ phase' = "answered" /\ answers' = Answer("caller", "error")
    /\ UNCHANGED <<backend, line, todo, did, open, shown>>

\* The answer; over gRPC the last of it may be lost on the way.
Finish(object) ==
    /\ phase = "working" /\ todo = << >>
    /\ phase' = "answered"
    /\ \/ answers' = Answer("caller", "result") /\ shown' = object
       \/ backend = "grpc" /\ answers' = Answer("caller", "error") /\ shown' = Nothing
    /\ UNCHANGED <<backend, line, todo, did, open>>
=============================================================================
