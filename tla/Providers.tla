------------------------------ MODULE Providers ------------------------------
(***************************************************************************)
(* The model providers as the agents and judges use them                   *)
(* (choreo-adapters/src/agents): how an agent is configured, what becomes  *)
(* of one completion call, and how a judge's reply is read.  The HTTP      *)
(* services themselves are external: a reply is either the fault the       *)
(* client met or a body.                                                   *)
(***************************************************************************)
EXTENDS OutputContract

CONSTANT Env   \* the deployment's own settings: the keys and models it has

-----------------------------------------------------------------------------
(* Configuration.  A step's configuration overrides the deployment's; an   *)
(* override of the wrong type is refused, a blank one is none.             *)

AttrString(v) ==
  IF v.is \in {"null", "string"} THEN Read(OptionalString(v)) ELSE Refused
Override(config, key) == AttrString(Get(config, key))

(* validate_provider_endpoint: an absolute http or https URL. *)
ValidateProviderEndpoint(url) == url \in {"http://host", "https://host"}

Overrides(config) ==
  LET endpoint == Override(config, "provider.endpoint")
  IN /\ Override(config, "provider.model").ok
     /\ endpoint.ok /\ \A url \in endpoint.is : ValidateProviderEndpoint(url)
     /\ OptionalNumber(Get(config, "provider.max_tokens"), 1..4096).ok

AnthropicConfig(config) == "anthropic_key" \in Env /\ Overrides(config)
OpenAiConfig(config) == "openai_key" \in Env /\ Overrides(config)
VllmConfig(config) ==
  /\ "vllm_model" \in Env /\ Overrides(config)
  /\ "vllm_cert" \in Env <=> "vllm_cert_key" \in Env

(* DispatchingAgentFactory::create *)
Create(kind, config) ==
  CASE kind = "noop" -> TRUE
    [] kind = "anthropic" -> AnthropicConfig(config)
    [] kind = "openai" -> OpenAiConfig(config)
    [] kind = "vllm" -> VllmConfig(config)
    [] OTHER -> FALSE

(* judge_from_env and support_judge_from_env: off unless a flag says so,   *)
(* and refused when on without an endpoint and a model.                    *)
JudgeFromEnv(deployment, flag) ==
  IF flag \notin deployment THEN Read(FALSE)
  ELSE IF {"vllm_endpoint", "vllm_model"} \subseteq deployment THEN Read(TRUE) ELSE Refused

-----------------------------------------------------------------------------
(* A call.  [text |-> {}, error |-> kind] when it failed. *)

FromStatus(status) ==
  CASE status \in {401, 403} -> "unauthorized"
    [] status = 429 -> "rate_limited"
    [] status \in 400..499 -> "bad_request"
    [] OTHER -> "upstream_error"

Failed(kind) == [text |-> {}, error |-> kind]
Answered(text) == [text |-> text, error |-> ""]

(* Anthropic's extract_text joins the text blocks and skips the others. *)
AnthropicText(body) == {block.text : block \in {b \in body.blocks : b.type = "text"}}

(* openai_compat::extract_text: the first choice's content, or else its    *)
(* reasoning.                                                              *)
ChatText(body) == IF body.content # {} THEN body.content ELSE body.reasoning

AnthropicComplete(reply) ==
  CASE reply.fault \in {"timeout", "transport"} -> Failed(reply.fault)
    [] reply.fault = "status" -> Failed(FromStatus(reply.status))
    [] reply.fault = "body" -> Failed("malformed_body")
    [] AnthropicText(reply.body) = {} -> Failed("empty_content")
    [] OTHER -> Answered(AnthropicText(reply.body))

ChatComplete(reply) ==
  CASE reply.fault \in {"timeout", "transport"} -> Failed(reply.fault)
    [] reply.fault = "status" -> Failed(FromStatus(reply.status))
    [] reply.fault = "body" -> Failed("malformed_body")
    [] ChatText(reply.body) = {} -> Failed("empty_content")
    [] OTHER -> Answered(ChatText(reply.body))

Complete(kind, reply) ==
  IF kind = "anthropic" THEN AnthropicComplete(reply) ELSE ChatComplete(reply)

-----------------------------------------------------------------------------
(* A judge's reply: the outermost braces of its text, read as JSON. *)

Clamp(n) == IF n < 0 THEN 0 ELSE IF n > 100 THEN 100 ELSE n

ParseScore(json) ==
  IF json.is = "object" /\ Get(json.fields, "score").is = "number"
  THEN Read(Clamp(json.fields["score"].n)) ELSE Refused

ParseVerdict(json) ==
  IF /\ json.is = "object"
     /\ Get(json.fields, "supported").is = "boolean"
     /\ Get(json.fields, "confidence").is = "number"
  THEN Read([supported |-> json.fields["supported"].value,
             confidence |-> Clamp(json.fields["confidence"].n)])
  ELSE Refused

-----------------------------------------------------------------------------
(* What the metrics recorder keeps of the calls. *)

NoCalls == [inflight |-> 0, observed |-> 0, errors |-> 0]
CallEntered(m) == [m EXCEPT !.inflight = @ + 1]
CallDropped(m) == [m EXCEPT !.inflight = @ - 1, !.observed = @ + 1]
RecordProviderError(m) == [m EXCEPT !.errors = @ + 1]
=============================================================================
