--------------------------- MODULE RuntimeExecutor ---------------------------
(***************************************************************************)
(* The request the runtime executor builds from the options of a call and  *)
(* the winning proposal (runtime.rs), and what it makes of the answer.     *)
(*                                                                         *)
(* An attribute is known by what its JSON is: "null", "blank" (a string of *)
(* spaces), "text", "true", "false", "natural", "huge" (more than an i32   *)
(* holds), "number" (any other), "texts" (a list of strings), "list",      *)
(* "textmap" (an object of strings), "object".  A map of attributes is a   *)
(* function from the keys it has.                                          *)
(***************************************************************************)
EXTENDS Integers

StringKeys == {"correlation_id", "session_id", "requested_session_id",
               "repo_url", "repo_ref", "source_repo_path"}
Keys == StringKeys \cup {"tool_name", "approved", "allowed_paths",
                         "expires_in_seconds", "metadata", "args"}
(* Attributes::new keeps the last value of a key; merging puts the explicit *)
(* options of the call over the profile of the task.                       *)
MergeExecutionOptions(profile, explicit) ==
  [k \in DOMAIN profile \cup DOMAIN explicit |->
     IF k \in DOMAIN explicit THEN explicit[k] ELSE profile[k]]

LookupValue(options, winner, key) ==
  IF key \in DOMAIN options THEN options[key]
  ELSE IF key \in DOMAIN winner THEN winner[key] ELSE "null"

(* Each reader answers "absent", "refused", or what it read. *)
OptionalStringValue(json) ==
  CASE json \in {"null", "blank"} -> "absent"
    [] json = "text" -> "text"
    [] OTHER -> "refused"
OptionalBoolValue(json) ==
  CASE json = "null" -> "absent"
    [] json \in {"true", "false"} -> json
    [] OTHER -> "refused"
OptionalU32Value(json) ==
  CASE json = "null" -> "absent"
    [] json \in {"natural", "huge"} -> json
    [] OTHER -> "refused"
OptionalStringArray(json) ==
  CASE json = "null" -> "absent"
    [] json = "texts" -> "texts"
    [] OTHER -> "refused"
OptionalStringMap(json) ==
  CASE json = "null" -> "absent"
    [] json = "textmap" -> "textmap"
    [] OTHER -> "refused"
OptionalObjectValue(json) ==
  CASE json = "null" -> "absent"
    [] json \in {"textmap", "object"} -> json
    [] OTHER -> "refused"
RequiredStringValue(json) ==
  IF OptionalStringValue(json) = "absent" THEN "refused" ELSE OptionalStringValue(json)

ReadOption(key, json) ==
  CASE key = "tool_name" -> RequiredStringValue(json)
    [] key \in StringKeys -> OptionalStringValue(json)
    [] key = "approved" -> OptionalBoolValue(json)
    [] key = "expires_in_seconds" -> OptionalU32Value(json)
    [] key = "allowed_paths" -> OptionalStringArray(json)
    [] key = "metadata" -> OptionalStringMap(json)
    [] key = "args" -> OptionalObjectValue(json)

(* RuntimeExecutionRequest::from_inputs: one reading per key, and any that *)
(* is refused refuses the whole request before the runtime is called.      *)
FromInputs(options, winner) ==
  LET read == [k \in Keys |-> ReadOption(k, LookupValue(options, winner, k))]
  IN [ok |-> \A k \in Keys : read[k] # "refused",
      session |-> read["session_id"] = "text",
      approved |-> read["approved"] = "true",
      expires |-> read["expires_in_seconds"]]

(* The expiry is sent as an i32, and one it cannot hold as none at all. *)
CreateSessionRequest(request) ==
  [expires |-> IF request.expires = "natural" THEN "natural" ELSE "none"]
InvokeToolRequest(request, session) ==
  [session |-> session, approved |-> request.approved]

Statuses == {"unspecified", "running", "succeeded", "failed", "denied"}

(* execution_outcome_from_invocation: an invocation that has not come to   *)
(* an end is an error, as is a negative duration.                          *)
ExecutionOutcome(status, duration) ==
  IF status \in {"unspecified", "running"} \/ duration < 0 THEN "error"
  ELSE IF status = "succeeded" THEN "succeeded" ELSE "unsuccessful"
=============================================================================
