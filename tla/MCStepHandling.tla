--------------------------- MODULE MCStepHandling ---------------------------
(* Two ceremonies that share a specialty.  Ceremony "a" runs one of the    *)
(* gated scripts below; "b" a plain step, or one whose second specialty    *)
(* cannot be staffed.                                                      *)
EXTENDS StepHandling

MCEnv == {"anthropic_key", "vllm_model", "vllm_cert", "vllm_cert_key"}
MCDeployments == {{"support_judge", "vllm_endpoint", "vllm_model"},
                  {"judge", "vllm_endpoint", "vllm_model"}, {"judge"}}
MCJudgements == {Obj([supported |-> [is |-> "boolean", value |-> TRUE],
                      confidence |-> Num(70), score |-> Num(50)]),
                 Obj([supported |-> [is |-> "boolean", value |-> TRUE],
                      confidence |-> Num(69), score |-> Num(49)]),
                 Obj([supported |-> [is |-> "boolean", value |-> FALSE],
                      confidence |-> Num(120), score |-> Num(120)]),
                 Obj([supported |-> Str("yes")])}
MCCeremonies == {"a", "b"}
MCTrimmed == ("verdict " :> "verdict") @@ (" " :> "")
MCLater == {"verdict "}
Wide(n, w) == [i \in 1..n |-> w]
MCWidths == ("runaway" :> Wide(99, 1)) @@ ("tome" :> Wide(90, 1)) @@ ("saga" :> Wide(91, 1))
MCShape == [total |-> 3, depth |-> 4, keys |-> 3, array |-> 2]

Claim(refs) == Obj([evidence_refs |-> Arr([i \in DOMAIN refs |-> Str(refs[i])])])
Answer(verdict, claims) ==
  [wrapping |-> "bare", size |-> 1,
   json |-> Obj([verdict |-> Str(verdict), claims |-> Arr(claims)])]
Good == Answer("go", <<Claim(<<"e1">>)>>)
Pair == [Answer("go", <<Claim(<<"e1">>), Claim(<<"e1", "e2">>)>>) EXCEPT !.wrapping = "fenced"]
Stray == Answer("go", <<Claim(<<"e1", "e9">>)>>)
Vague == Answer("perhaps", <<Claim(<<"e2">>)>>)
Bare == [wrapping |-> "bare", size |-> 1, json |-> Obj([claims |-> Arr(<<>>)])]
Prose == [wrapping |-> "bare", size |-> 1, json |-> Nothing]
Huge == [Good EXCEPT !.size = 4]

Sent(content, reasoning) ==
  [fault |-> "", body |-> [content |-> content, reasoning |-> reasoning,
                           blocks |-> {[type |-> "text", text |-> t] : t \in content}
                                        \cup {[type |-> "tool_use"]}]]
Fault(f) == [fault |-> f, status |-> 429]
MCReplies ==
  ("anthropic" :> {Sent({Good}, {}), Sent({Pair}, {}), Sent({Stray}, {}), Sent({Vague}, {}),
                   Sent({}, {Good}), Fault("timeout")})
  @@ ("vllm" :> {Sent({Bare}, {Good}), Sent({}, {Good}), Sent({Prose}, {}), Sent({Huge}, {}),
                 Fault("status"), Fault("body")})

Pack == Arr(<<Obj([id |-> Str("e1"), text |-> Str("body")]),
              Obj([id |-> Str("e2"), text |-> Str("body")])>>)
Context == [pack |-> Pack, mission |-> Str("ship"), approved |-> [is |-> "boolean", value |-> TRUE]]
Step(config) == [config |-> config, kind |-> "review", bound |-> "", role |-> "lead",
                 turns |-> <<Wide(3, 1)>>, asked |-> <<>>]
Base == [prompt |-> Str("decide"), agent_kind |-> Str("anthropic"), num_agents |-> Num(2)]
Lone == [Base EXCEPT !.num_agents = Num(1)]
Gate(fields) == [k \in DOMAIN Base \cup {"output_contract"} |->
                   IF k \in DOMAIN Base THEN Base[k] ELSE Obj(fields)]
Fields == [contract_id |-> Str("gate"), required_fields |-> Arr(<<Str("verdict")>>),
           allowed_values |-> Obj([verdict |-> Arr(<<Str("go"), Str("no")>>)]),
           json_schema |-> Str("closed")]
With(fields, evidence) == [k \in DOMAIN fields \cup {"evidence"} |->
                             IF k = "evidence" THEN evidence ELSE fields[k]]
Open == [contract_id |-> Str("gate"), required_fields |-> Arr(<<Str("verdict")>>)]
Misspelt == [contract_id |-> Str("gate"), required_fields |-> Arr(<<Str("verdict")>>),
             allowed_values |-> Obj("verdict " :> Arr(<<Str("go"), Str("no")>>))]
Grounded == Obj([allowed_refs_from_context |-> Str("pack")])
Judged == Obj([allowed_refs_from_context |-> Str("pack"), semantic_support |-> Obj(<<>>)])
Typo == Obj([allowed_refs_from_context |-> Str("pack"), semantic_suport |-> Obj(<<>>)])
Static == Obj([allowed_refs |-> Arr(<<Str("e1")>>), refs_field |-> Str("evidence_refs")])
Script(s) == [context |-> Context, steps |-> <<s>>]
Gated(fields) == Script(Step(Gate(fields)))
GatedLone(fields) == Script(Step([Gate(fields) EXCEPT !.num_agents = Num(1)]))

(* Briefs: one runaway part of each kind among short ones, then too many   *)
(* long ones, and prompts at the limit and past it.                        *)
Ask(to, says) == [by |-> "peer", to |-> to, says |-> says]
Says(message, details) == [message |-> message, details |-> Obj(details)]
Runaways == [Step(Lone) EXCEPT
               !.turns = <<Wide(99, 4), Wide(2, 2)>>,
               !.asked = <<Ask({"peer"}, <<Says(Wide(99, 1), <<>>)>>),
                           Ask({}, <<Says(Wide(2, 1), [note |-> Str("runaway")]),
                                     Says(Wide(99, 1), <<>>)>>)>>]
Swamped == [Runaways EXCEPT
              !.turns = [i \in 1..5 |-> Wide(99, 2)],
              !.asked = <<Ask({"lead"}, <<Says(Wide(99, 2), [note |-> Str("runaway")]),
                                          Says(Wide(99, 3), [note |-> Arr(<<Num(1)>>)])>>)>>]
Asks(prompt) == Step([Lone EXCEPT !.prompt = Str(prompt)])

MCScripts ==
  ("a" :> {GatedLone(Fields), Gated(With(Open, Grounded)), Gated(With(Open, Judged)),
           Gated(With(Open, Typo)), GatedLone(With(Open, Static)),
           GatedLone(Misspelt),
           Script(Runaways), Script(Swamped), Script(Asks("tome")), Script(Asks("saga")),
           [Script(Step(Lone)) EXCEPT !.context = [pack |-> Str("runaway"), mission |-> Str("runaway")]]})
  @@ ("b" :> {Script([Step([prompt |-> Str("plain"), specialty |-> Str("review"),
                            agent_kind |-> Str("vllm")]) EXCEPT !.kind = "other"]),
              [context |-> <<>>,
               steps |-> <<Step(Base), [Step([prompt |-> Str("odd"), agent_kind |-> Str("openai")])
                                       EXCEPT !.kind = "odd"]>>]})

=============================================================================
