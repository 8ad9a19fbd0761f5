-------------------------------- MODULE Host --------------------------------
(***************************************************************************)
(* What the choreographer process is made of before it serves anything:    *)
(* the configuration it reads from the environment (config.rs, runtime.rs, *)
(* factory.rs, nats/config.rs) and the ports compose() wires from it.      *)
(*                                                                         *)
(* An environment is a function from the variables the code reads to what  *)
(* their text amounts to: "" when unset or blank, "bad" when it does not   *)
(* parse, a recognised word, or "given" for free text such as a path.      *)
(***************************************************************************)
EXTENDS Naturals, Sequences

Vars == {"nats_enabled", "nats_url", "prefix", "trigger_subject", "postgres",
         "store_path", "grpc_tls", "grpc_cert", "grpc_key", "grpc_ca",
         "executor", "rt_endpoint", "rt_tenant", "rt_roles", "rt_mode",
         "rt_ca", "rt_cert", "rt_key", "rt_domain",
         "anthropic_key", "anthropic_tokens", "openai_key", "openai_tokens",
         "vllm_model", "vllm_endpoint", "vllm_tokens", "vllm_timeout",
         "judge", "support_judge"}

(* Defaults: a variable left out has the chart's value. *)
Defaults ==
  [v \in Vars |-> CASE v = "nats_enabled" -> "true"
                    [] v \in {"nats_url", "prefix", "trigger_subject",
                              "rt_tenant", "rt_roles"} -> "given"
                    [] v = "rt_endpoint" -> "http"
                    [] OTHER -> ""]

Error(why) == [ok |-> FALSE, why |-> why]
Good(value) == [ok |-> TRUE, is |-> value]

-----------------------------------------------------------------------------
(* The server's own TLS posture: a mode that needs a file it was not given *)
(* is refused at load time.                                                *)

BuildGrpcTls(env) ==
  LET lacks(vs) == \E v \in vs : env[v] = ""
      mode == env["grpc_tls"]
  IN CASE mode \in {"", "none"} -> Good("disabled")
       [] mode = "server" -> IF lacks({"grpc_cert", "grpc_key"})
                             THEN Error("grpc_tls") ELSE Good("server")
       [] mode = "mutual" -> IF lacks({"grpc_cert", "grpc_key", "grpc_ca"})
                             THEN Error("grpc_tls") ELSE Good("mutual")
       [] OTHER -> Error("grpc_tls")

(* EnvConfiguration::load *)
Load(env) ==
  IF env["nats_enabled"] \notin {"true", "false"}
    THEN Error("environment")
  ELSE LET tls == BuildGrpcTls(env) IN
       IF ~tls.ok THEN tls
       ELSE Good([nats |-> env["nats_enabled"] = "true",
                  postgres |-> env["postgres"] # "",
                  durable |-> env["store_path"] # "",
                  tls |-> tls.is])

(* NatsConfig::new: blank, overlong or unprintable subjects are refused. *)
NatsConfig(env) ==
  IF env["nats_url"] = "" \/ \E v \in {"prefix", "trigger_subject"} :
                                env[v] \in {"", "bad"}
  THEN Error("nats") ELSE Good("nats")

-----------------------------------------------------------------------------
(* The runtime executor's client TLS: an explicit mode wins, then a client *)
(* identity, then any sign that a verified server is wanted.               *)

ParseRuntimeTlsMode(word) ==
  IF word \in {"disabled", "server", "mutual"} THEN word ELSE "refused"

DetectTlsMode(env) ==
  IF env["rt_cert"] # "" \/ env["rt_key"] # "" THEN "mutual"
  ELSE IF env["rt_ca"] # "" \/ env["rt_domain"] # "" \/ env["rt_endpoint"] = "https"
       THEN "server" ELSE "disabled"

RuntimeTls(env) ==
  LET mode == IF env["rt_mode"] # "" THEN ParseRuntimeTlsMode(env["rt_mode"])
                                     ELSE DetectTlsMode(env)
  IN IF mode = "refused" THEN Error("runtime_tls")
     ELSE IF mode = "mutual" /\ (env["rt_cert"] = "" \/ env["rt_key"] = "")
          THEN Error("runtime_tls")
     ELSE Good(mode)

(* endpoint_uri_for_tls_mode *)
EndpointScheme(env, mode) ==
  IF mode # "disabled" /\ env["rt_endpoint"] = "http" THEN "https"
  ELSE env["rt_endpoint"]

(* The identity the client presents and the authority it checks against. *)
ClientTls(env, mode) ==
  [verifies |-> mode # "disabled", ownCa |-> env["rt_ca"] # "",
   presents |-> mode = "mutual"]

(* RuntimeExecutorConfig::from_env: blank settings and empty role lists are *)
(* refused, since only an unset variable takes its default.                *)
RuntimeConfig(env) ==
  IF \E v \in {"rt_endpoint", "rt_tenant", "rt_roles"} : env[v] = ""
  THEN Error("runtime")
  ELSE LET tls == RuntimeTls(env) IN
       IF tls.ok
       THEN Good([kind |-> "runtime", scheme |-> EndpointScheme(env, tls.is),
                  tls |-> ClientTls(env, tls.is)])
       ELSE tls

ExecutorBackend(env) ==
  CASE env["executor"] \in {"", "noop"} -> Good([kind |-> "noop"])
    [] env["executor"] = "runtime" -> RuntimeConfig(env)
    [] OTHER -> Error("executor")

-----------------------------------------------------------------------------
(* Which kinds of agent the factory can make.  A provider is on when its   *)
(* required variables are set; a number that does not parse stops startup, *)
(* but only for a provider that is on.                                     *)

LoadProvider(env, kind, required, numbers) ==
  IF \E v \in required : env[v] = "" THEN Good({})
  ELSE IF \E v \in numbers : env[v] = "bad" THEN Error(kind)
  ELSE Good({kind})

LoadAnthropicFromEnv(env) ==
  LoadProvider(env, "anthropic", {"anthropic_key"}, {"anthropic_tokens"})
LoadOpenaiFromEnv(env) ==
  LoadProvider(env, "openai", {"openai_key"}, {"openai_tokens"})
LoadVllmFromEnv(env) ==
  LoadProvider(env, "vllm", {"vllm_model", "vllm_endpoint"},
               {"vllm_tokens", "vllm_timeout",
         "judge", "support_judge"})

FactoryFromEnv(env) ==
  LET loaded == <<LoadAnthropicFromEnv(env), LoadOpenaiFromEnv(env), LoadVllmFromEnv(env)>>
      failed == {i \in 1..3 : ~loaded[i].ok}
  IN IF failed # {} THEN loaded[CHOOSE i \in failed : \A j \in failed : i <= j]
     ELSE Good(loaded[1].is \cup loaded[2].is \cup loaded[3].is)

SupportedKinds(providers) == {"noop"} \cup providers

-----------------------------------------------------------------------------
(* compose(): each part is read in turn and the first that cannot be had   *)
(* stops the process.  Whether a service that is configured answers at all *)
(* (reach) decides the rest: NATS is retried until its budget is spent, a  *)
(* runtime, a pool or a store that cannot be opened is final.              *)

WirePersistence(config) == IF config.postgres THEN "postgres" ELSE "memory"
WireStore(config) == IF config.durable THEN "redb" ELSE "memory"
WireMessaging(config) == IF config.nats THEN "nats" ELSE "noop"

ConnectNatsWithRetry(attempts) == \E i \in DOMAIN attempts : attempts[i]

(* A judge that is switched on needs a model to ask (judge_from_env,       *)
(* support_judge_from_env).                                                *)
JudgesReady(env) ==
  \A flag \in {"judge", "support_judge"} :
    env[flag] = "on" => env["vllm_endpoint"] # "" /\ env["vllm_model"] # ""

Compose(env, reach) ==
  LET config == Load(env)
      executor == ExecutorBackend(env)
      factory == FactoryFromEnv(env)
  IN IF ~config.ok THEN config
     ELSE IF ~JudgesReady(env) THEN Error("judge")
     ELSE IF ~executor.ok THEN executor
     ELSE IF executor.is.kind = "runtime" /\ ~reach.runtime THEN Error("runtime")
     ELSE IF ~factory.ok THEN factory
     ELSE IF config.is.postgres /\ ~reach.postgres THEN Error("postgres")
     ELSE IF config.is.durable /\ ~reach.store THEN Error("store")
     ELSE IF config.is.nats /\ ~NatsConfig(env).ok THEN NatsConfig(env)
     ELSE IF config.is.nats /\ ~ConnectNatsWithRetry(reach.nats) THEN Error("nats")
     ELSE Good([persistence |-> WirePersistence(config.is),
                store |-> WireStore(config.is),
                messaging |-> WireMessaging(config.is),
                executor |-> executor.is.kind,
                kinds |-> SupportedKinds(factory.is)])

=============================================================================
