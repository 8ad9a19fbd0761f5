--------------------------- MODULE OutputContract ---------------------------
(***************************************************************************)
(* The contract a step puts on the answers it gets: how it is read from    *)
(* the step's configuration and the ceremony's context                     *)
(* (ceremony_step_config.rs, deliberation_step_config.rs), what it is made *)
(* of (output_contract.rs), and how a proposal is held to it               *)
(* (validators.rs).                                                        *)
(*                                                                         *)
(* JSON is a record: "is" names its type, a string has a "text", an array  *)
(* "items", an object "fields".  A text is a token; "" is blank, Trimmed   *)
(* gives the tokens that have space around them their trimmed form, Later  *)
(* those that sort after it, and Overlong the ones past the length limits. *)
(***************************************************************************)
EXTENDS Naturals, Sequences, FiniteSets

CONSTANTS Trimmed, Later, Overlong,
          MaxFields, MaxRefs,   \* how many rules and references a contract may have
          Shape                 \* the event-shape budget: total, depth, keys, array, text

Null == [is |-> "null"]
Nothing == [is |-> "nothing"]   \* a text that is no JSON at all
Str(s) == [is |-> "string", text |-> s]
Num(n) == [is |-> "number", n |-> n]
Arr(items) == [is |-> "array", items |-> items]
Obj(fields) == [is |-> "object", fields |-> fields]

Get(object, key) == IF key \in DOMAIN object THEN object[key] ELSE Null

Refused == [ok |-> FALSE]
Read(value) == [ok |-> TRUE, is |-> value]

Elements(seq) == {seq[i] : i \in DOMAIN seq}

-----------------------------------------------------------------------------
(* Reading values.  A value left out reads as null. *)

Trim(s) == IF s \in DOMAIN Trimmed THEN Trimmed[s] ELSE s

(* validate_text *)
ValidText(s) == Trim(s) # "" /\ Trim(s) \notin Overlong

OptionalString(v) == IF v.is = "string" /\ Trim(v.text) # "" THEN {Trim(v.text)} ELSE {}
RequiredString(v) == v.is = "string" /\ Trim(v.text) # ""
StringOrNull(v) == v.is \in {"string", "null"}
StringArray(v) ==
  CASE v.is = "null" -> Read(<<>>)
    [] v.is = "array" /\ \A i \in DOMAIN v.items : RequiredString(v.items[i]) ->
         Read([i \in DOMAIN v.items |-> Trim(v.items[i].text)])
    [] OTHER -> Refused

(* optional_u32, then the bounded number it is for. *)
OptionalNumber(v, range) ==
  CASE v.is = "null" -> Read({})
    [] v.is = "number" /\ v.n \in range -> Read({v.n})
    [] OTHER -> Refused

(* optional_bool, with the default of see_prior. *)
SeePriorSteps(v) ==
  CASE v.is = "null" -> Read(TRUE)
    [] v.is = "boolean" -> Read(v.value)
    [] OTHER -> Refused

-----------------------------------------------------------------------------
(* The contract's own rules. *)

ContractKeys == {"contract_id", "format", "required_fields", "allowed_values",
                 "json_schema", "evidence"}
EvidenceKeys == {"claims_field", "refs_field", "allowed_refs",
                 "allowed_refs_from_context", "semantic_support"}
SemanticKeys == {"min_confidence", "bodies_from_context"}

(* OutputFieldRule::new *)
OutputFieldRule(required, values) == [required |-> required, values |-> values]
FieldRuleIsValid(rule) ==
  Cardinality(rule.values) <= MaxFields /\ \A s \in rule.values : ValidText(s)

(* OutputContract::new_with_schema stores each rule under its trimmed      *)
(* name, in the order of the names as they were written: of two spellings  *)
(* the one that sorts last stays.                                          *)
Normalized(fields) ==
  [name \in {Trim(k) : k \in DOMAIN fields} |->
     LET spelt == {k \in DOMAIN fields : Trim(k) = name}
     IN CASE spelt \cap Later # {} -> fields[CHOOSE k \in spelt \cap Later : TRUE]
          [] name \in spelt -> fields[name]
          [] OTHER -> fields[CHOOSE k \in spelt : TRUE]]

(* CeremonyStepConfig::output_contract *)
ReadContract(v) ==
  IF v.is = "null" THEN Read({})
  ELSE IF v.is # "object" \/ ~(DOMAIN v.fields \subseteq ContractKeys) THEN Refused
  ELSE
    LET block == v.fields
        required == StringArray(Get(block, "required_fields"))
        table == Get(block, "allowed_values")
        lists == IF table.is = "object" THEN [k \in DOMAIN table.fields |-> StringArray(table.fields[k])]
                                        ELSE [k \in {} |-> Refused]
        names == IF required.ok THEN Elements(required.is) ELSE {}
        allowed(k) == IF k \in DOMAIN lists THEN Elements(lists[k].is) ELSE {}
        fields == [k \in names \cup DOMAIN lists |-> OutputFieldRule(k \in names, allowed(k))]
    IN IF /\ RequiredString(Get(block, "contract_id"))
          /\ ValidText(Get(block, "contract_id").text)
          /\ OptionalString(Get(block, "format")) \subseteq {"json_object"}
          /\ required.ok
          /\ table.is \in {"null", "object"}
          /\ \A k \in DOMAIN lists : lists[k].ok
          /\ \A k \in DOMAIN fields : ValidText(k) /\ FieldRuleIsValid(fields[k])
          /\ Cardinality(DOMAIN fields) <= MaxFields
          /\ StringOrNull(Get(block, "json_schema"))
       THEN Read({[fields |-> Normalized(fields),
                   schema |-> OptionalString(Get(block, "json_schema")),
                   evidence |-> {}]})
       ELSE Refused

(* semantic_support_spec *)
SemanticSupportSpec(v) ==
  IF v.is = "null" THEN Read({})
  ELSE IF v.is # "object" \/ ~(DOMAIN v.fields \subseteq SemanticKeys) THEN Refused
  ELSE LET least == OptionalNumber(Get(v.fields, "min_confidence"), 0..100)
           key == Get(v.fields, "bodies_from_context")
       IN IF least.ok /\ StringOrNull(key)
          THEN Read({[least |-> least.is, key |-> OptionalString(key)]}) ELSE Refused

(* CeremonyStepConfig::evidence_grounding_spec *)
Named(v, default) ==
  IF OptionalString(v) = {} THEN default ELSE CHOOSE s \in OptionalString(v) : TRUE
EvidenceGroundingSpec(v) ==
  IF v.is = "null" THEN Read({})
  ELSE IF v.is # "object" \/ ~(DOMAIN v.fields \subseteq EvidenceKeys) THEN Refused
  ELSE LET static == StringArray(Get(v.fields, "allowed_refs"))
           named == Get(v.fields, "allowed_refs_from_context")
           semantic == SemanticSupportSpec(Get(v.fields, "semantic_support"))
       IN IF /\ \A k \in {"claims_field", "refs_field"} : StringOrNull(Get(v.fields, k))
             /\ static.ok /\ StringOrNull(named)
             /\ static.is # <<>> \/ OptionalString(named) # {}
             /\ semantic.ok
          THEN Read({[refs |-> Elements(static.is), key |-> OptionalString(named),
                      semantic |-> semantic.is,
                      claims |-> Named(Get(v.fields, "claims_field"), "claims"),
                      cites |-> Named(Get(v.fields, "refs_field"), "evidence_refs")]})
          ELSE Refused

(* context_refs and context_bodies: the pack of evidence the ceremony      *)
(* carries, as plain references or as entries with an id and a text.       *)
EntryId(item) ==
  IF item.is = "string" THEN item
  ELSE IF item.is = "object" THEN Get(item.fields, "id") ELSE Null

ContextRefs(context, key) ==
  LET pack == Get(context, key)
  IN IF pack.is = "array" /\ \A i \in DOMAIN pack.items : EntryId(pack.items[i]).is = "string"
     THEN Read({EntryId(pack.items[i]).text : i \in DOMAIN pack.items}) ELSE Refused

ContextBodies(context, key) ==
  LET pack == Get(context, key)
      whole(item) == /\ item.is = "object"
                     /\ \A k \in {"id", "text"} : Get(item.fields, k).is = "string"
  IN IF pack.is = "array" /\ \A i \in DOMAIN pack.items : whole(pack.items[i])
     THEN Read({<<EntryId(pack.items[i]).text, pack.items[i].fields["text"].text>> :
                  i \in DOMAIN pack.items})
     ELSE Refused

(* SemanticSupportRule::new and with_semantic_support: a body for every    *)
(* reference that may be cited.                                            *)
SemanticSupport(spec, refsKey, context, allowed) ==
  LET keys == IF spec.key # {} THEN spec.key ELSE refsKey
      bodies == IF keys = {} THEN Refused
                ELSE ContextBodies(context, CHOOSE k \in keys : TRUE)
      covered == {Trim(pair[1]) : pair \in bodies.is}
  IN IF /\ bodies.ok /\ bodies.is # {}
        /\ \A pair \in bodies.is : ValidText(pair[1]) /\ ValidText(pair[2])
        /\ Cardinality(covered) <= MaxRefs
        /\ allowed \subseteq covered
     THEN Read({[least |-> IF spec.least = {} THEN 70 ELSE CHOOSE n \in spec.least : TRUE,
                 bodies |-> covered]})
     ELSE Refused

(* EvidenceGroundingRule::new *)
EvidenceGrounding(spec, context) ==
  LET found == IF spec.key = {} THEN Read({})
               ELSE ContextRefs(context, CHOOSE k \in spec.key : TRUE)
      refs == spec.refs \cup found.is
      allowed == {Trim(s) : s \in refs}
      support == IF spec.semantic = {} THEN Read({})
                 ELSE SemanticSupport(CHOOSE s \in spec.semantic : TRUE, spec.key, context, allowed)
  IN IF /\ found.ok /\ refs # {}
        /\ \A s \in refs \cup {spec.claims, spec.cites} : ValidText(s)
        /\ Cardinality(allowed) <= MaxRefs
        /\ support.ok
     THEN Read([refs |-> allowed, support |-> support.is,
                claims |-> spec.claims, cites |-> spec.cites]) ELSE Refused

(* DeliberationStepConfig::from_request *)
FromRequest(config, context) ==
  LET contract == ReadContract(Get(config, "output_contract"))
      block == Get(config, "output_contract")
      spec == IF block.is = "object" THEN EvidenceGroundingSpec(Get(block.fields, "evidence"))
                                     ELSE Read({})
      rule == IF spec.is = {} THEN Read({})
              ELSE EvidenceGrounding(CHOOSE s \in spec.is : TRUE, context)
      rounds == OptionalNumber(Get(config, "rounds"), 0..16)
      seats == OptionalNumber(Get(config, "num_agents"), 1..64)
      prior == SeePriorSteps(Get(config, "see_prior"))
  IN IF /\ contract.ok /\ spec.ok /\ rule.ok
        /\ spec.is # {} => contract.is # {}
        /\ RequiredString(Get(config, "prompt"))
        /\ \A s \in OptionalString(Get(config, "specialty")) : s \notin Overlong
        /\ rounds.ok /\ seats.ok /\ prior.ok
     THEN Read([specialty |-> OptionalString(Get(config, "specialty")),
                seats |-> seats.is, prior |-> prior.is,
                contract |-> IF spec.is = {} THEN contract.is
                             ELSE {[c EXCEPT !.evidence = {rule.is}] : c \in contract.is}])
     ELSE Refused

-----------------------------------------------------------------------------
(* Holding a proposal to it.  A proposal's content is [wrapping, size,     *)
(* json]: a JSON value, bare, inside a code fence, or with its first line  *)
(* on the fence's own ("glued" when that line has a space in it, "tight"   *)
(* when it has none and is taken for the fence's label); an unclosed fence *)
(* is not taken off.                                                       *)

StripMarkdownFences(content) ==
  IF content.wrapping \in {"bare", "fenced", "glued"} THEN content.json ELSE Nothing
ParseJsonObject(content) ==
  LET json == StripMarkdownFences(content) IN IF json.is = "object" THEN json ELSE Nothing

ContentNonEmpty(content) == content.size > 0
JsonObjectOutput(content) == ParseJsonObject(content).is = "object"

RequiredFields(content, contract) ==
  /\ JsonObjectOutput(content)
  /\ \A name \in DOMAIN contract.fields :
       contract.fields[name].required => name \in DOMAIN ParseJsonObject(content).fields

AllowedStringValues(content, contract) ==
  /\ JsonObjectOutput(content)
  /\ LET object == ParseJsonObject(content).fields IN
       \A name \in DOMAIN contract.fields \cap DOMAIN object :
         contract.fields[name].values # {} =>
           object[name].is = "string" /\ object[name].text \in contract.fields[name].values

(* The schema library, by what it is used for: "closed" allows an object   *)
(* the fields its contract names and no other, "garbled" is not a schema.  *)
SchemaAccepts(schema, contract, json) ==
  schema = "closed" /\ (json.is = "object" =>
                          DOMAIN json.fields \subseteq DOMAIN contract.fields)

JsonSchema(content, contract) ==
  \A schema \in contract.schema :
    LET json == StripMarkdownFences(content)
    IN json # Nothing /\ SchemaAccepts(schema, contract, json)

RECURSIVE Walk(_, _)
(* BoundedEventShapeValidator::walk *)
Walk(v, depth) ==
  /\ depth <= Shape.depth
  /\ v.is = "string" => v.text # "long"
  /\ v.is = "array" => /\ Len(v.items) <= Shape.array
                       /\ \A i \in DOMAIN v.items : Walk(v.items[i], depth + 1)
  /\ v.is = "object" => /\ Cardinality(DOMAIN v.fields) <= Shape.keys
                        /\ \A k \in DOMAIN v.fields : Walk(v.fields[k], depth + 1)

BoundedEventShape(content) ==
  /\ content.size <= Shape.total
  /\ StripMarkdownFences(content) # Nothing
  /\ Walk(StripMarkdownFences(content), 0)

(* The claims of a proposal, and what each cites. *)
Claims(content, rule) ==
  LET json == ParseJsonObject(content)
      list == IF json.is = "object" THEN Get(json.fields, rule.claims) ELSE Null
  IN IF list.is = "array" THEN Read(list.items) ELSE Refused

Cited(claim, rule) ==
  IF claim.is # "object" THEN Refused
  ELSE LET refs == Get(claim.fields, rule.cites)
       IN IF refs.is = "array" THEN Read(refs.items) ELSE Refused

(* claim_violations *)
ClaimIsGrounded(claim, rule) ==
  LET cited == Cited(claim, rule)
  IN /\ cited.ok /\ cited.is # <<>>
     /\ \A i \in DOMAIN cited.is :
          cited.is[i].is = "string" /\ cited.is[i].text \in rule.refs

ClaimsEvidenceGrounded(content, contract) ==
  \A rule \in contract.evidence :
    LET claims == Claims(content, rule)
    IN claims.ok /\ \A i \in DOMAIN claims.is : ClaimIsGrounded(claims.is[i], rule)

(* cited_excerpts: the bodies the judge is shown for a claim. *)
CitedExcerpts(claim, rule, support) ==
  LET cited == Cited(claim, rule)
  IN IF ~cited.ok THEN {}
     ELSE {cited.is[i].text : i \in {j \in DOMAIN cited.is : cited.is[j].is = "string"}}
            \cap support.bodies
=============================================================================
