----------------------------- MODULE MCDispatch -----------------------------
(* Instances of Dispatch for TLC. *)
EXTENDS Dispatch

(* Of the environments, those that differ from the default in the settings *)
(* of one part at a time.                                                  *)
With(env, changed) == [v \in Vars |-> IF v \in DOMAIN changed THEN changed[v] ELSE env[v]]
Quiet == With(Defaults, [nats_enabled |-> "false", openai_key |-> "given"])

TlsEnvs == {With(Quiet, [executor |-> "runtime", rt_mode |-> word, rt_endpoint |-> scheme,
                         rt_ca |-> ca, rt_cert |-> cert, rt_key |-> key, rt_domain |-> domain]) :
              word \in {"", "disabled", "mutual", "bad"}, scheme \in {"http", "https"},
              ca \in {"", "given"}, cert \in {"", "given"}, key \in {"", "given"},
              domain \in {"", "given"}}
Refused == {With(Defaults, changed) : changed \in
             {[nats_enabled |-> "bad"], [prefix |-> ""], [trigger_subject |-> "bad"],
              [grpc_tls |-> "server", grpc_cert |-> "given"], [grpc_tls |-> "bad"],
              [grpc_tls |-> "mutual", grpc_cert |-> "given", grpc_key |-> "given"],
              [executor |-> "bad"], [executor |-> "runtime", rt_roles |-> ""],
              [judge |-> "on"], [support_judge |-> "on", vllm_model |-> "given"],
              [anthropic_key |-> "given", anthropic_tokens |-> "bad"],
              [openai_key |-> "given", openai_tokens |-> "bad"],
              [vllm_model |-> "given", vllm_endpoint |-> "given", vllm_timeout |-> "bad"]}}
Deployments ==
  {With(Defaults, [executor |-> "runtime", postgres |-> "given", store_path |-> "given",
                   grpc_tls |-> "server", grpc_cert |-> "given", grpc_key |-> "given"])}
SomeEnvs == TlsEnvs \cup Refused \cup Deployments

SomeReaches ==
  {[nats |-> nats, runtime |-> up, postgres |-> up, store |-> TRUE] :
     nats \in {<<FALSE, TRUE>>, <<FALSE, FALSE>>}, up \in BOOLEAN}

SomeNewcomers == {MintedAgent("s2", 0)}
SomeDescriptors == {[kind |-> "openai", attributes |-> "none"],
                    [kind |-> "anthropic", attributes |-> "none"]}
Nothing == [k \in {} |-> "null"]
Plain == [tool_name |-> "text", approved |-> "true"]
SomeCalls ==
  {[profile |-> [session_id |-> "text"], explicit |-> [session_id |-> "null"], winner |-> Plain],
   [profile |-> Plain, explicit |-> [session_id |-> "text", approved |-> "false"], winner |-> Plain],
   [profile |-> Plain, explicit |-> [tool_name |-> "blank"], winner |-> Nothing],
   [profile |-> Plain, explicit |-> [session_id |-> "text", repo_ref |-> "text"],
    winner |-> Nothing]}

Lists == [mixed |-> <<"s2", "s1", "s2">>, garbled |-> None]
=============================================================================
