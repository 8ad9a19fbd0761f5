------------------------------ MODULE MCToolCalls ------------------------------
(***************************************************************************)
(* ToolCalls on the calls that matter: every tool and every object in its  *)
(* arguments, with only what its schema requires and with everything it    *)
(* allows, and then any one field set to any value at all.                 *)
(***************************************************************************)
EXTENDS ToolCalls

\* The value a field is meant to have.
Good(type) ==
    CASE type \in {"string", "label", "enum"} -> "text"
      [] type \in {"natural", "positive"} -> "small"
      [] type = "flag" -> "true"
      [] type \in {"object", "struct"} -> "object"
      [] type \in {"strings", "strings1"} -> "list"

BareArgs(part) ==
    LET s == Schema(part) IN
    [f \in DOMAIN s |-> IF s[f].required THEN Good(s[f].type) ELSE "absent"]
FullArgs(part) == LET s == Schema(part) IN [f \in DOMAIN s |-> Good(s[f].type)]

ArgsOf(part) ==
    LET schema == Schema(part)
        any(f) == Values \cup IF schema[f].type = "struct" THEN Structs ELSE {}
    IN  UNION {{base} \cup UNION {{[base EXCEPT ![f] = v] : v \in any(f)} : f \in DOMAIN schema}
                  : base \in {BareArgs(part), FullArgs(part)}}

Calls ==
    UNION {UNION {{[kind |-> "call", id |-> TRUE, tool |-> t, part |-> part, args |-> a]
                      : a \in ArgsOf(part)} : part \in PartsOf(t)} : t \in Tools}

\* A call without an id, which is not carried out.
Silent == {[kind |-> "call", id |-> FALSE, tool |-> t, part |-> t, args |-> BareArgs(t)]
              : t \in Tools}

\* What is shown does not depend on how the arguments were spelled: it is looked
\* at for the plainest call of each tool.
Looked(l) ==
    IF backend = "fixture" \/ l.part # l.tool \/ l.args # BareArgs(l.tool) THEN {Nothing}
    ELSE {Nothing} \cup UNION {{[part |-> p, held |-> v] : v \in Objects(p)}
                                  : p \in AnswerParts(l.tool)}

Next ==
    \/ \E l \in Calls \cup Silent \cup OtherLines : ReadLine(l)
    \/ handle_json_line \/ call_tool \/ TakeStep \/ FailStep \/ WriteAnswer
    \/ \E object \in (IF phase = "working" THEN Looked(line) ELSE {}) : Finish(object)

Spec == Init /\ [][Next]_vars

-----------------------------------------------------------------------------
\* The values a schema cannot rule out and the descriptions do: a string says
\* something, a number fits the type it is for, a reference carries what its
\* kind names, and of two ways to name a thing one is taken.
Wide == {"lease_ttl_ms", "deadline_ms"}

\* What the engine asks of a context bundle and the schema does not.
Owed(part) ==
    CASE part = "external_context" -> {"bundle_id", "schema_version"}
      [] part = "summary" -> {"text"}
      [] part = "item" -> {"title"}
      [] OTHER -> {}

InGoodFaith(part, a) ==
    /\ Allows(Schema(part), a)
    /\ \A f \in DOMAIN a :
          /\ a[f] \notin {"blank", "empty", "other", "blanklist"}
          /\ a[f] = "huge" => f \in Wide
    /\ \A f \in Owed(part) : a[f] # "absent"
    /\ part \in RefKinds => \A f \in NamedBy(part) : a[f] # "absent"
    /\ part = "source" =>
          /\ (a.ceremony # "absent") = (a.version # "absent")
          /\ (a.ceremony # "absent") # (a.definition_yaml # "absent")
    /\ part = "run_council_decision" => (a.council_id # "absent") # (a.specialty # "absent")
    /\ part = "complete_ceremony_step" => a.error = "absent"
    /\ part = "event" => a.emitted_at # "padded"
    /\ part = "stage" => (a.review_rounds \in {"small", "huge"} => a.num_agents # "absent")

Calling == phase # "ready" /\ line.kind = "call"

\* The actor as it is recorded in the end.
Recorded(reading) ==
    [f \in DOMAIN reading |-> IF f = "actor_id" THEN AuditActor(reading[f]) ELSE reading[f]]

\* Left to the backend, which has a lease of its own to give: thirty seconds in
\* process, a minute to a whole run over gRPC, and in another name.
LeftToBackend(f, a) ==
    f \in {"lease_owner_id", "lease_ttl_ms"} /\ a[f] \in {"absent", "zero"}

\* An object of any content comes out of a protobuf message with floats for the
\* integers it had, the nearest ones: those past 2^53 are other numbers, although
\* the mappers' header calls the conversion lossless (mappers/attributes.rs:6-7).
AsFloats(x) ==
    CASE x = "numbers" -> "floats" [] x = "numbers64" -> "near floats" [] OTHER -> x

(***************************************************************************)
(* A call that keeps to what the server advertises is refused as malformed *)
(* by no backend, and a tool both backends have hands the engine the same  *)
(* request through either (embedded/*_request.rs against grpc/tools.rs and *)
(* grpc/mappers): the same values, the same meaning of what is left out,   *)
(* an id minted where the other mints one.  They differ in two ways only.  *)
(* A lease the caller leaves to the backend is given by each in its own    *)
(* name and for its own time, but always in some name and for some time.   *)
(* And integers inside an object of any content reach the engine over gRPC *)
(* as floats, in process as they were.                                     *)
(***************************************************************************)
ReadAlike ==
    (Calling /\ InGoodFaith(line.part, line.args)) =>
        LET b == IF line.tool \in HostTools THEN "embedded" ELSE "grpc"
            there == Recorded(Reads(b, line.part, line.args))
            here == Recorded(Reads("embedded", line.part, line.args))
        IN  /\ ~ Refuses(there)
            /\ line.tool \in SharedTools =>
                  /\ DOMAIN here = DOMAIN there
                  /\ \A f \in DOMAIN here :
                        IF f \in DOMAIN line.args /\ LeftToBackend(f, line.args)
                        THEN {here[f], there[f]} \cap {None, "zero", "empty"} = {}
                        ELSE there[f] = AsFloats(here[f])

\* The fields the server advertises and does not look at, or does not in the
\* presence of another, and what it takes for the default.
SetAside(part) ==
    CASE part = "create_council" -> {"agent_config"}
      [] part = "list_councils" -> {"include_agents"}
      [] part = "agent" -> {"specialty", "attributes"}
      [] part \in RefKinds -> DOMAIN ceremony_record_ref_schema \ NamedBy(part)
      [] OTHER -> {}

(***************************************************************************)
(* No field of a call made in good faith is lost on its way: what the      *)
(* caller gave is what the engine gets, not a default and not an id minted *)
(* in its place, through every reader, message and mapper                  *)
(* (json_to_proto.rs:1-6).  Zero, which stands for the default, is an      *)
(* exception, and so are the integers in an object of any content, which   *)
(* arrive over gRPC as floats.                                             *)
(***************************************************************************)
NothingLost ==
    (Calling /\ InGoodFaith(line.part, line.args)) =>
        \A b \in {b \in {"embedded", "grpc"} : supports_tool(b, line.tool)} :
            LET r == Reads(b, line.part, line.args) IN
            \A f \in DOMAIN line.args \ SetAside(line.part) :
                line.args[f] \notin {"absent", "zero"} =>
                    /\ f \in DOMAIN r
                    /\ r[f] = CASE line.args[f] = "padded" /\ r[f] # "padded" -> "text"
                                 [] b = "grpc" -> AsFloats(line.args[f])
                                 [] OTHER -> line.args[f]

(***************************************************************************)
(* A call reaches the engine as it was given, whichever way it goes.       *)
(***************************************************************************)
ArrivesAsGiven == ReadAlike /\ NothingLost

(***************************************************************************)
(* A call that leaves out something its tool requires gets an error and    *)
(* moves nothing: no session is opened and none is changed, whichever      *)
(* backend reads it and however far in the reading happens.  A contract's  *)
(* format has only one value, and is assumed.                              *)
(***************************************************************************)
MissingMovesNothing ==
    (/\ Calling /\ backend # "fixture"
     /\ \E f \in DOMAIN line.args \ {"format"} :
            line.args[f] = "absent" /\ Schema(line.part)[f].required) =>
        /\ did = {}
        /\ \A i \in DOMAIN answers : answers[i].verdict # "result"

(***************************************************************************)
(* By the time the next line is read, the line in hand has exactly one     *)
(* answer, or none when it carried no id and could be read; a call without *)
(* an id is not carried out; and a result is only reported of an operation *)
(* every step of which was taken (server.rs:137, main.rs:50), and never of *)
(* one that was not told enough.                                           *)
(***************************************************************************)
AnsweredTruly ==
    /\ MissingMovesNothing
    /\ phase = "answered" =>
        LET unreadable == line.kind \in {"garbage", "methodless"} IN
        /\ Len(answers) = IF unreadable \/ (line.id /\ line.kind # "initialized")
                          THEN 1 ELSE 0
        /\ \A i \in DOMAIN answers : (answers[i].to = "null") = unreadable
        /\ (Calling /\ ~ line.id) => did = {}
        /\ (Calling /\ answers # << >> /\ answers[1].verdict = "result") =>
               \A i \in DOMAIN Steps(backend, line.tool) :
                  Steps(backend, line.tool)[i] \in did

(***************************************************************************)
(* Through either backend, a caller sees that there is nothing exactly     *)
(* where the session, draft or run holds nothing (no next step, no error,  *)
(* nobody in particular addressed), although the messages between the      *)
(* processes have no way to leave a string or a list out, and sees nothing *)
(* of what belongs to another kind of record or outcome.  The one text     *)
(* that may be empty is a step's output in a run's trace.                  *)
(***************************************************************************)
AbsenceSurvives ==
    shown # Nothing =>
        LET seen == Shows(backend, shown.part, shown.held)
            held == IF "to" \in DOMAIN shown.held /\ shown.part = "transition of session"
                    THEN Rename(shown.held, "to", "to_state") ELSE shown.held
        IN  /\ DOMAIN seen \subseteq DOMAIN held
            /\ \A f \in DOMAIN held :
                  <<shown.part, f>> \notin {<<"trace", "output">>, <<"sessions", "count">>} =>
                      (held[f] = Absent) <=>
                          (f \notin DOMAIN seen \/ seen[f] = "null")

(***************************************************************************)
(* What the repository's parity tests promise of a session: a client must  *)
(* not be able to tell from the shape of the answer, its keys and the kind *)
(* of each value, which backend served it.                                 *)
(***************************************************************************)
ShownAlike ==
    (shown # Nothing /\ shown.part \in SessionParts) =>
        Shows("embedded", shown.part, shown.held) = Shows("grpc", shown.part, shown.held)
=============================================================================
