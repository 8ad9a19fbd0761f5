# Underpass Choreographer: a TLA+ model of the ceremony engine

This directory holds TLA+ specifications of the core of the choreographer, TLC
configurations that check them on small instances, and TLAPS proofs for every
value of the constants. Everything here is written from the Rust source; the
lines each definition models are listed in `PROJECT.json` under `map`, and what
is hard about this code under `hazards`.

## 1. The system

The choreographer runs *ceremonies*: working sessions that follow a declared
state machine. A definition has states, transitions with guards, steps that
belong to a state, and roles ("seats") that may do things. A session is
advanced by many independent callers (people, agents, a driver) through use
cases, all of which store their result through one journal. Beside it, the
engine runs *deliberations*, in which the agents of a council propose, review
and are ranked, and *orchestrations*, which execute the winner.

| Part | State it keeps | Operations | What makes it hard |
|---|---|---|---|
| Session aggregate (`choreo-core/entities/ceremony_instance.rs`) | current state, a record per step (status, attempt, lease), spent idempotency keys, context, approvals, deferrals, moves, interventions, reasons, seats | open, start step, apply result, approve, defer, move on, agenda operations | long sequences of legal calls; attempts and leases |
| Session use cases and journal (`choreo-app`: `session_journal.rs`, `session_facts.rs`, `*_ceremony_*_use_case.rs`) | none of their own: a copy in hand and the revision it was read at | load, compute, commit; run a step in two commits with a handler between | interleaving, lost races, crashes between commits, late results |
| Ceremony stores (`choreo-adapters/memory`, `redb`) | per ceremony: revision, session, journal, outbox | commit, revision, get, outbox operations | atomicity of the commit |
| Outbox publishing (`publish_outbox_use_case.rs`) | a batch of claimed messages during a round | claim, deliver, fail, quarantine, retire | overlapping publishers, expired claims, an unreliable transport |
| Agenda (interventions, evidence, reasons, participants) | part of the session | request, respond, close, collect evidence, assert, bind | an external source is awaited between load and commit |
| Driver (`run_ceremony_use_case.rs`) | a session and the revision it carries, a trace | open, run steps, take satisfied transitions | races other callers, bounded rounds, loops |
| Definitions (`ceremony_definition*.rs`, publish, resolve, mount, YAML) | a repository and a catalogue of published versions | read a document, analyse, construct, publish, mount, resolve, compare | two walks that must agree; an unbound session follows a replaceable definition; restarts |
| Step handling (`deliberating_ceremony_step_handler.rs`, `output_contract.rs`, `validators.rs`, participants) | prepared agents and councils | plan, prepare, brief, ask, validate, judge, choose | a gate that is misread, misjudged or skipped; ceremonies that share a specialty |
| Model providers and judges (`agents/`) | none, counters | configure, complete, judge | every error path of a call |
| Session memory (`session_memory_*.rs`, `kmp/`, `memory/session_memory.rs`) | an external kernel behind pipes, or a store in the process | remember after the commit; recall, recall as of a moment, follow reasons | best effort; timeouts that leave answers in the pipe; pages read while others write |
| Deliberation (`deliberation.rs`, `deliberate.rs`, `winner_selection.rs`) | phase, proposals, reviews, ranking | propose, review in rounds, validate, score, close out | one step of a close-out failing |
| Orchestration and auto-dispatch (`orchestrate.rs`, `auto_dispatch.rs`, `runtime.rs`, `nats/`) | counters, runtime sessions | deliberate, dispatch, execute, announce, count | partial failure, repeated, garbled and lost triggers |
| Councils and agents | registries, in memory or Postgres | register, unregister, create, delete, seed | check, then act; what survives a restart |
| Host binary (`compose.rs`, `config.rs`, `runtime.rs`) | the wiring | start, drain, stop | configurations that contradict themselves |
| MCP server (`choreo-mcp`) and gRPC service (`grpc/`) | one line in hand | read a call, carry it out in process or over gRPC, show the result | the same tool read, mapped and rendered by two independent sets of code |
| Telemetry, reports, diagrams, test harnesses | - | - | output only |

How they interact: a use case calls `SessionJournal::load` (revision first,
then the session), works on its copy with the aggregate's operations, builds
facts with `session_facts`, and calls `SessionJournal::commit`, which hands
session, expected revision and facts to the store in one `CeremonyCommit`. The
store compares the revision and writes all of it or nothing. Messages for the
outside world are committed to the outbox with the same unit of work;
publishers take them from there under leases. (`SessionJournal` itself passes
an empty message list; hosts that commit through the port directly use it.)

What has to be right, by component: the journal never disagrees with the
session it is about; no update is lost; an outcome is recorded once; attempts
respect the retry policy and live claims; a finished session is closed; human
decisions are final; messages are neither lost nor reordered and do not get
stuck; a report on a definition is right and a session always finds the
definition it was started from; a run says what it did; what is announced and
counted is what happened; nothing wins against its contract; memory answers the
question that was asked, exactly; and a tool means the same through either
backend.

## 2. Modules

| Module | What it is |
|---|---|
| `CeremonyInstance` | The aggregate and the facts, as operators on values: guards `Can...`, results (`StartStep`, `ApplyStepResult`, `MoveOn`, ...), and `Accepts`/`After`/`FactsOf`, which say what each use case asks of a session. The definition is a set of constants whose assumptions are what its constructor enforces. |
| `AtomicSession` | The abstract specification: every call takes effect in one step. The invariants about session and journal are stated here. |
| `CeremonySession` | The detailed one: callers that read the revision, read the session, compute, commit or conflict, run handlers, write the transcript, and die at any point. It instantiates `AtomicSession` over what the store holds. |
| `Outbox` | The outbox of a store and the publishers that empty it. |
| `Deliberation` | One deliberation from the first draft to the answer of `run_council_decision`, any awaited call failing. |
| `SessionTable` | The rest of the aggregate, as operators: agenda items and their answers, provenance, reasons, seats; the state machine reduced to one human guard and the move that ends the session. |
| `Agenda` | The use cases on the table, run by interleaving callers, the evidence source they await, and the memory written after the commit. |
| `CeremonyDefinition` | Definitions as values: the document, the draft, the report on it, the constructor, the comparison of two versions. Operators only. |
| `DefinitionCatalogue` | Repository, catalogue and sessions; publishing, mounting, running, advancing and restarting over `CeremonyDefinition`. |
| `RunCeremony` | The driver over `CeremonyInstance`, with clients that act on the same session atomically, as `CeremonySession` is shown to do. It instantiates `AtomicSession` over what the store holds, as the driver's commits are shown to be calls of it too. |
| `Host` | Every environment and the wiring it leads to, or the refusal. Operators only. |
| `RuntimeExecutor` | The request made of a call's options and a winner, and what is made of the reply. Operators only. |
| `Dispatch` | The serving process: registries, orchestrations, triggers, statistics, start, drain and crash. Composes `Host` and `RuntimeExecutor`. |
| `OutputContract` | How a contract is read from a step's configuration and how an answer is held to it. Operators only. |
| `Providers` | How an agent is configured, what becomes of a completion, how a judge's reply is read. Operators only. |
| `StepHandling` | A step put to a council, from participants being prepared to the winner. Composes `OutputContract` and `Providers`. |
| `KernelMemory` | Writing and reading session memory, over the pipes of a kernel, in the process, or nowhere. |
| `ToolSchemas`, `EmbeddedRequests`, `GrpcRequests`, `CeremonyAnswers` | What the MCP server advertises, how each backend reads a call's arguments, and what each shows. Operators only. |
| `ToolCalls` | The MCP server reading lines, carrying out calls and answering. |
| `MC...` | Small instances for TLC. |
| `AtomicSession_proofs`, `CeremonySession_proofs`, `Outbox_proofs`, `Deliberation_proofs`, `Agenda_proofs`, `RunCeremony_proofs`, `Dispatch_proofs`, `DefinitionCatalogue_proofs` | The inductive invariant of each component, and its theorems. `AtomicSession_proofs` begins with the lemmas about the aggregate's operators; the two modules about what is stored and what is driven instantiate it and restate those they use. |

Operators called `X_Something` directly before an operator `X` are faulty
variants of it. Nothing uses them; `PROJECT.json` (`mutants`) pairs each with
the property that must fail when it takes the place of `X`.

### Correspondence with the code

`CeremonySession`. `store` is one `StoredCeremony` (revision, instance,
journal; revision 0 stands for "no revision", that is for
`ExpectedRevision::New`). Each caller has `pc`, the `call` it is executing, the
revision it `expected`, the session it `loaded` and the instant `at` it read.

| Action | Code |
|---|---|
| `StartCeremony` | `start_ceremony`, `start_published_ceremony`: no load, committed as new |
| `Begin`, `LoadInstance` | the two reads of `SessionJournal::load`, the clock, the aggregate's operation on the copy |
| `Refuse` | the session is missing, or the aggregate returns an error |
| `Commit`, `Conflict` | `SessionJournal::commit` on a matching and on a moved revision |
| `CommitClaim`, `HandlerReturns`, `CommitResult`, `AppendContribution` | the phases of `run_ceremony_step` |
| `Abandon` | a crash, or a port that fails, at any point |
| `Tick` | time, against which leases run out |

Data is abstracted to what the properties tell apart. Outputs, texts and
actors are left out. Who acts is reduced to whether *some* role may do it
(`StepRoles[step] # {}`): a refused role changes nothing and is the same as no
call. The context of a session is reduced to the guards it holds as approved,
because that is all guards read of it; it includes what the caller supplied
when opening. A fact is its type, its subject and its number, the three things
its event id is derived from. In the code the clock is read a moment after the
session is; the model takes both in one step, which loses nothing: a commit
that lands in between changes the revision and makes this caller conflict, and
time alone only makes a lease older.

`Outbox`. Each message is identified by its ceremony and its place in that
ceremony's queue. The store's clock appears only in `claimed_until <= now`, so
an instant is represented by whose lease it ends, and `LeaseRunsOut` lets it
pass; consequently the model allows every timing of claims. `DeliverFails` has
two forms, since a transport may report a failure for a message that got
through. `Crash` covers a publisher that dies and a round that returns early
because the store failed. Event ids are taken to be unique in the outbox, as
the store's marking by event id requires.

`Deliberation`. A text is represented by who wrote it last and how often it was
revised, an outcome by how many validators passed, the judge's verdict and the
text it is about. Ids are numbers because ties are broken by comparing them; a
rank is the number of proposals sorted before one. The judge and the contract
are part of the `request`: both scoring policies and both ways of choosing a
winner are covered.

| Action | Code |
|---|---|
| `Draft`, `Review`, `Validate` | one turn of the loops in `seed_proposals`, `run_peer_review_rounds`, `attach_validations` |
| `Advance` | `advance_with_observer`, between the loops |
| `Complete` | `complete` and, under a contract, `prioritize_valid_outputs` |
| `Save`, `Count`, `Announce`, `Refuse` | `finalize`; a port may fail before or after it took effect |
| `Decide`, `DecideAnyway` | `RunCouncilDecisionUseCase::execute` on a winner, and in Warn mode on none |
| `Fail` | the `?` behind every awaited call |

`Agenda`. A kind of reason is represented by who may assert it, a target by the
set of seats (the whole table is all of them), an answer by its seat and the
source of its pack. That the revision and the session are read in two steps is
`CeremonySession`'s subject; here the load is one step, and since a commit that
lands has the stored session in hand (`StagedWorkIsCurrent`), the copy is the
stored table. The order of facts, the double check of a collection and the note
worked out of the committed copy are kept.

| Action | Code |
|---|---|
| `Begin`, `Refuse` | load and the aggregate's operation, of each use case on the agenda and of the guard and transition use cases |
| `Collected`, `PackRefused` | `CeremonyEvidenceSourcePort::collect` returning, and `ensure_matches` |
| `Commit`, `Conflict` | `SessionJournal::commit`, and what the use case hands to `SessionMemoryRecorder` |
| `Remember`, `AlreadyRemembered` | `MemoryWriterPort::remember` by the in-process and the kernel adapter |
| `Abandon` | a crash or a failed port; a write that took effect before its answer was lost is `Remember` |

`CeremonyDefinition` and `DefinitionCatalogue`. Identifiers are numbers, as the
code's maps are walked in identifier order and that order decides which finding
comes first. A finding is its defect and what it is about. The desk holds a
draft somebody works on; `Revise` and `Withdraw` change it, so that a document
and what was published from it can differ.

| Action | Code |
|---|---|
| `PublishDefinition` | `publish_ceremony_definition`: construct, compare with what is published under the version, store |
| `Mount`, `MountNext` | `mount_ceremony_definitions`: one file after the other, each saved or refused |
| `Run`, `Start`, `StartPublished`, `Open` | the three ways to open a session; saving, reading and committing are separate steps |
| `Advance` | resolving and moving a session |
| `Restart` | the repository is lost, the store is kept if it is durable |

`RunCeremony`. `run[c]` is one `execute` of the use case: its session, the
revision it carries, what is left of the round, its trace and what it has heard
of the transcript. `workers` are the clients that run a step of the same session
themselves; their contributions go into the same transcript store
(`compose.rs:300-320`).

| Action | Code |
|---|---|
| `OpenRun`, `Check` | opening or resuming, the head of the loop with its bound |
| `SkipStep`, `ClaimStep`, `HandlerReturns`, `ReportStep`, `RecordStep` | one turn of the loop over the steps of the state |
| `TakeTransition` | the first transition in declaration order whose guards hold |
| `ClientCall` | any session use case by somebody else |
| `ClientReports`, `ClientAppends`, `ClientLeaves` | the rest of a client's `run_ceremony_step`: its result on the session read again, its contribution after the commit, or its end at any point |

`Dispatch`. An orchestration is a record that advances through the stages of
`orchestrate.rs`; a deliberation is one step with the ways it can end. A port
that fails is a choice in the stage that calls it, and is remembered in
`faults`, so that a property can say what a missing announcement was lost to.

| Action | Code |
|---|---|
| `Boot`, `Signal`, `Stop`, `Crash` | composing from an environment, the signal, the end of draining, dying |
| `RegisterAgent`, `UnregisterAgent`, `CreateCouncil`, `RegisterCouncil`, `DeleteCouncil` | the use cases; creating a council resolves its agents in one step and registers in another |
| `LookupCouncil`, `Deliberate`, `PublishDispatched`, `Execute`, `InvokeTool`, `CloseSession`, `RecordExecution`, `PublishEnding` | the stages of an orchestration |
| `SendTrigger`, `LoseTrigger`, `HandleMessage`, `ProcessTriggerEvent` | NATS delivering, losing and the subscriber parsing; the same over gRPC |
| `DispatchLookup`, `DispatchDeliberate`, `DispatchReturns` | one specialty after the other in `auto_dispatch.rs` |

`StepHandling`. JSON is a record with a type; a text is a token with a trimmed
form and the widths of its characters in bytes, since the parts of a brief are
cut by characters and the brief as a whole is limited in bytes. Preparing registers agents one at a time and councils
afterwards, so two ceremonies interleave inside it. A completion and a verdict
are any that the instance's `Replies` and `Judgements` offer, malformed ones
included.

| Action | Code |
|---|---|
| `Plan`, `PrepareAgent`, `PrepareCouncil` | `ceremony_participant_plan_adapter`, the two loops of `prepare_ceremony_participants` |
| `Begin` | reading the configuration, resolving the contract, building the brief |
| `CallProvider`, `ProviderAnswers` | a completion, from entering the gauge to leaving it on every path |
| `Validate`, `JudgeClaim`, `Rate`, `Choose` | the validators in order, one judge call per claim, scoring, the winner |

`KernelMemory`. `stdin` and `stdout` are what is in the pipes, line by line;
half a line is one that a cancelled read had begun. A call holds the pipes from
its line to its answer or its timeout.

| Action | Code |
|---|---|
| `Connect`, `Greeted` | starting the child and the handshake in `stdio.rs` |
| `Begin`, `Write`, `ReadLine`, `ReadEof`, `Silent` | `remember`, `recall`, `as_known_at`, `chain`: the request, each line read, the end of the pipe, the timeout |
| `Serve`, `Refuse`, `Die` | the kernel (external) |

`ToolCalls`. A JSON value is reduced to what schemas and readers tell apart
(absent, null, blank, padded, a text, a number, zero, a list, ...), an object to
one such value per field, a shown object to the kind of each leaf, which is
what the repository's parity tests compare. An object of any content holds
integers, and whether a double holds them is kept, because the two backends part
there. Defaults are tokens of the code that supplies them, not shared ones.

| Action | Code |
|---|---|
| `ReadLine`, `handle_json_line`, `WriteAnswer` | the loop of `main.rs`, `server.rs` |
| `call_tool` | choosing the tool and reading the arguments, by the backend in use |
| `TakeStep`, `FailStep` | the calls the tool's operation makes, in order |
| `Finish` | what is shown of each object of the answer |

## 3. What TLC checks

| Run | Instance | Properties |
|---|---|---|
| `session_steps` | 2 callers, 1 step with 2 attempts, 3 keys, time 0..3, calls begin up to revision 5 | `JournalAgreesWithSession`, `OutcomesSealedOnce`, `TranscriptSound`, `StagedWorkIsCurrent`, `LiveLeaseNotStolen` |
| `session_decisions` | 2 callers, moves around a loop, human guard, contexts with and without it approved, calls begin up to revision 6 | `StateAccountedFor`, `ClosedOnceCompleted`, and the refinement `ImplementsAtomicSession` |
| `outbox` | 2 ceremonies (2 and 1 messages), 2 publishers, batch 1, 2 attempts, 1 crash | `ArrivesInOrder`, `RetiredOnceArrived`, `QuarantinedOnceExhausted`, `EventuallySettled` |
| `deliberation` | 3 agents, 0 to 2 rounds, 1 validator, a judge on a scale of 3 with threshold 1, with and without judge and contract | `JudgedAsItStands`, `RecordShowsResult`, `DecisionHonest` |
| `agenda` | 2 callers, 2 seats, a question and a follow-up that cites an answer, 2 sources, reasons about answers, the decision and the ending, 2 seatings, 5 commits | `AgendaAgreesWithJournal`, `ClaimsGrounded`, `RememberedWasStored` |
| `definitions` | 264 drafts, and their revisions, over 3 states and 2 transitions, 2 versions, 2 callers, 1 session, a durable store | `AnalysisIsRight`, `SessionsResolve`, `CarriedSessionsGoOn` |
| `run_ceremony` | 2 drivers and any client, which may run steps too, 3 steps, a loop of 3 states, 5 revisions | `RunReportsTruly`, `HeardWhatCameBefore`, `EveryRunEnds`, `DrivenSessionIsAtomic` |
| `dispatch` | 2 specialties, a trigger that repeats a specialty and a garbled one, an orchestration and a trigger or two triggers (the same one twice among them), 2 changes of the registries, 2 starts, every wiring of interest | `ToldAsItWent`, `SessionsHandedBack`, `SeatsWereFilled`, `EachSpecialtyAnswered`, `WorkEnds` |
| `contracts` | 2 ceremonies sharing a specialty, contracts plain, closed, grounded, judged and misspelt, 2 claims; briefs with runaway parts of each kind, with many, and with prompts at the limit | `WinnerHonoursContract`, `CouncilsSeatRegistered`, `NoPartDominates` |
| `memory` | 2 callers with 2 jobs between them, pages of 1 and at most 3 of them, 1 timeout, all three backends, a graph of reasons with a cycle | `AnsweredByOwn`, `RecallIsExact`, `RememberedOnce`, `ChainIsShortest` |
| `tools` | every tool and every object in its arguments, minimal and full, with any one field set to any value, three backends | `ArrivesAsGiven`, `AnsweredTruly`, `AbsenceSurvives` |
| `shown_alike` | every object of an answer, two backends | `ShownAlike`, which fails: see the findings |

Several of these properties are conjunctions of named parts, each stated and
explained where it is defined: `AnalysisIsRight` (what is accepted is a state
machine; a refusal is for the first error reported; warnings come true),
`RunReportsTruly`, `ToldAsItWent`, `ClaimsGrounded`, `RecallIsExact`,
`ArrivesAsGiven`.

What some of them do not say, so that a pass is not read as more than it is:
`JournalAgreesWithSession` compares that a step is completed, not by which
attempt, so the late worker listed below passes it; `SeatsWereFilled` excuses an
agent unregistered between the check of a council and its registration
(`vacated`); `WinnerHonoursContract` sets aside a requirement whose name is also
spelt with white space around it; `SessionsResolve` is about sessions bound to a published version;
`CarriedSessionsGoOn` leaves out a guard exchanged for another; `RecallIsExact`
says that nothing is missing for entries, and of the relations between them only
that both ends are there; `NoPartDominates` bounds what a cut part adds to a brief,
not the brief: a prompt, which is not cut, or very many parts still fill it.

*Bounds.* Two callers suffice for every race here: a commit is decided between
one caller and whoever committed last. Two attempts, a lease of one tick and
three or four instants let a claim run out, be replaced, and the replaced worker
report late, with the policy exhausted afterwards. The sessions start with a
state machine that has a loop and two ways to end, one behind a human guard.
Two publishers, two attempts and one crash let a stale claim be settled while a
newer one is active and a message be quarantined on a stale count; a batch of
one makes the second ceremony wait its turn, and larger batches are the proofs'
business. The proofs remove these bounds for
everything except what section 5 lists. Symmetry is used over callers and keys,
which no definition tells apart, and in no run that checks liveness.
Deadlock checking is on for sessions and outbox: a caller can always begin,
refuse or give up; a deliberation ends, so it is off there. Three agents are the
fewest for which the pairing of reviewers and the order of ids can disagree
without being each other's mirror image; three verdicts give ties on both sides
of the threshold. Five commits are enough to ask, answer, decide, follow up and
say why about each, and to defer, testify about the deferral and then approve; the
calls offered include ones that must be refused (a follow-up by a seat that did
not ask, a closing by another seat, testimony on somebody else's answer). Three
states and two transitions contain every shape the analysis tells apart: a
duplicate, a dangling end, a dead end, an unreachable state, a loop. The driver's
instance has a loop its round limit can meet and a straight way that uses every
state; three steps let a client contribute between two of the driver's. One orchestration is enough for `dispatch` because orchestrations share
only counters and registries, which the changes, the triggers and the restart
disturb meanwhile; the process ends, so deadlock is not checked there. What
arrives is bounded as a whole (`MaxArrivals` = 2, calls and triggers together),
so that a trigger may be sent twice, which is what it takes to count answers
against what was sent. A part of a brief is cut at `Cap` = 4 characters and the
whole limited to `MaxBrief` = 90 bytes, in place of 4,000 and 64 Ki: large enough
that one cut part of every kind fits and small enough that many, or a prompt
alone, do not. Two
callers, one timeout and pages of one let an answer be left in the pipe, read by
another call, and a write land between two pages. Arguments are varied one field
at a time, since each field has a reader of its own.

*Fairness* (`FairSpec` in `Outbox`): every publisher keeps running rounds and
goes on with a round it has begun, and time passes leases. The source has no
loop around `PublishOutboxUseCase`; the host is expected to call it repeatedly,
and a round consists of finitely many awaited calls. Nothing is assumed about
commits, crashes or the transport: it may fail forever, and then the message
ends in quarantine. The specifications of the session and of a deliberation
claim no liveness: a deliberation is a fixed sequence of awaited calls, and nothing
in the session's code retries a conflict or obliges anyone to act. In `RunCeremony` a run
that has begun goes on and its handler returns; nothing obliges clients, and a
conflict ends the run. In `Dispatch` the stages of a call that is being served
go on, and a process that was told to stop stops once they have; whether it is
ever told to, whether the bus delivers and whether the subscriber is in the
middle of a message is left open.

### Findings

One run's property is quoted from a test and its trace breaks it:

- `shown_alike`: a session one of whose answers came out of a source is shown
  with `evidence_pack` an object by the in-process backend and a string by the
  gRPC one (`grpc/mappers/ceremony_instance.rs:210-213` serialises it,
  `proto_to_json.rs:503` passes it on).
  `choreo-tests-integration/tests/mcp_backend_parity.rs:3-12` requires that a
  client cannot tell the two apart, down to the kind of every leaf. The test does
  not notice: the sessions it compares never collect evidence, and its `shape()`
  skips `evidence_pack` altogether (`OPEN_ENDED`, lines 77-81), so it would pass
  on one that did.

Other places where code and documentation part, met while modelling and kept in
the model as the code has them:

- `orchestrate.rs:4-6` promises a completed or a failed event at the end of every
  orchestration. After the dispatched event two `?` leave without either: merged
  options past the limit of attributes (121-122), and statistics that cannot be
  recorded after the executor ran (131-133). `ToldAsItWent` states what holds: a
  call without an ending is one under which the bus or the counters failed, or
  whose options could not be merged.
- `TriggerEvent::new` removes repeated specialties "so downstream dispatch cannot
  double-run a council" (`trigger.rs:38-40`), but a trigger that arrives over NATS
  is deserialised past it (`nats/subscriber.rs:136`), and its council runs once for
  every mention, which is how `EachSpecialtyAnswered` has it.
- Field names of a contract are trimmed after the rules were merged by the names
  as spelled, and the last rule under a name wins, so `required_fields: [verdict]`
  beside `allowed_values: {"verdict ": ...}` loses the requirement
  (`output_contract.rs:366-371`; `ceremony_step_config.rs:237-238`: a typo "must
  fail the parse, not silently weaken the contract"). The run `contracts` has such
  a contract, and `RequirementsKept`, a part of `WinnerHonoursContract`, sets the
  respelt name aside.
- `grpc/mappers/attributes.rs:6-7` says that conversions "preserve semantics
  losslessly". On the way to the gRPC backend every number of an object becomes a
  double (`json_to_proto.rs:74`), so an integer past 2^53 arrives as another one,
  and every integer as a float. `ArrivesAsGiven` states what holds: the same
  objects, their numbers as the nearest doubles.
- A worker that outlived its lease ends the attempt that replaced it, and the
  journal files the ending under the replaced attempt
  (`run_ceremony_step_use_case.rs:142`;
  `complete_ceremony_step_use_case.rs:162-165` names this as what must not
  happen). What still holds is proved: the step completes once and the ending
  follows a claim of the attempt it names.
- A repeated approval is sealed twice under one event id, although
  `session_facts.rs:9-14` says the derived id makes a retry idempotent.
- A context that holds a guard's name as true opens a session with the guard
  approved and no approval on record (`ceremony_instance.rs:46-48`).
- `mark_failed` by a publisher whose claim expired releases the claim of the
  next one, so that two publishers do take the same message, against
  `ports/outbox.rs:25-28`. Order and at-least-once survive.
- A guard's deferral and its later approval are different memory writes under
  one idempotency key, so the approval is answered `AlreadyRemembered`, of which
  `ports/memory_writer.rs:17` says "This exact write had already been made."
- One guard of a transition exchanged for another counts as `Carries`
  ("a running session is unaffected"), although it can block a session that was
  about to move (`ceremony_definition_diff.rs:233-238`).
- `start_published_ceremony` of the gRPC service opens the session and prepares
  its participants afterwards; if that fails the session is open and cannot
  move, which the comment at `grpc/service.rs:134-138` calls the worse failure.
- `create_council` and `list_councils` advertise `agent_config` and
  `include_agents` and read neither; an agent's `attributes` are not read.
- On gRPC a wrong-typed optional argument is dropped where the in-process
  backend refuses it, and the list of sessions has no `count`. What is absent is
  filled in by the backend, differently: the lease of `run_ceremony` is 60 s over
  gRPC (`mappers/run_ceremony.rs:18`) and 30 s in process
  (`embedded_run_ceremony_request.rs:14`), and default owners differ. Nothing in
  the repository promises the same defaults; `ArrivesAsGiven` leaves what was
  absent to the backend.
- Since every number of a gRPC object is a float, a whole-number
  `session_expires_in_seconds` sent that way is refused by `optional_u32_value`
  (`choreo-adapters/src/runtime.rs:771-789`, `as_u64`), where
  `agents/factory.rs:446-463` goes on to read a whole float.
- Agents of a provider kind registered in the Postgres registry come back as
  no-op agents after a restart (`postgres/agent_registry.rs:95-98`).

## 4. What is proved

All proof modules are checked by TLAPS with no assumption beyond the named
`ASSUME`s of the modules, all of which TLC evaluates on every run. They say that
states, steps and transitions are those of a definition the constructor accepts,
that leases have a positive lifetime, that a placeholder is not a value
(`AbsenceAssumption` and its like: `Option::None` is never `Some`), that a
definition is finite and declares its steps and transitions in one order
(`OrderAssumption`), that the keys of a run are keys and clients only make calls
the use cases take (`CallersAssumption`), that callers are finitely many and
a trigger's list is a list of specialties (`InstanceAssumption`), that designs
are lists of the parts a document declares, whose identities are ordered
(`DesignsAssumption`), and that neither a digest nor a session is a placeholder
(`DigestsAssumption`, `NoSessionAssumption`). No bound of a
configuration is used in a proof except as the guard that it is.

*Session.* `AtomicSession_proofs` proves each invariant of the abstract
specification for every definition. None is inductive alone.
`JournalAgreesWithSession` needs the types and, for starts, the fact that a
retry moves to exactly the next attempt (`ClaimsWithinPolicy`); the others lean
on the agreement: an outcome is not sealed a second time because the record
that would have to permit it already shows the first. `CeremonySession_proofs`
proves `StagedWorkIsCurrent`, the invariant behind the commit: a caller whose
expected revision is still the stored one has the stored session in hand, and
the session accepted its call at an instant that is not in the future. It
depends on the revision being read *before* the session; it also carries that
a reported attempt was sealed as started, which the abstract `FinishStep`
demands. From it every commit is an atomic `Perform`, every other step a
stutter or a tick (`SessionIsAtomic`), and every abstract invariant is
inherited by the stored session. `LiveLeasesAreNotStolen` is an action property
and is proved directly: the lease had run out at `at`, and `at <= now`.
`NothingTakenBack` is one of the abstract specification (`NothingIsTakenBack`): a
call that changes the session adds to the journal, leaves what is in it, is not
made on a finished session and takes back no completed step, attempt, key,
approval or move. It holds call by call, and because commits are atomic the
stored session inherits it (`StoredNothingIsTakenBack`), as does one that is
being driven (`DrivenNothingIsTakenBack`): a commit never overwrites another.

*Outbox.* `OutboxInv` adds to the stated properties that whatever a publisher
has confirmed arrived, that what is in its batch has only delivered messages
ahead of it and was committed, and that the attempts remembered in a claim
never exceed those in the store; the last is what makes judging exhaustion by a
stale count safe. `SettledMessagesStaySettled` adds what no step does, although
the store settles a message for whichever claim it remembers by then: what was
delivered or quarantined stays so and is not handed out again. With it,
`EventuallySettled` speaks of an end that lasts, except that a message behind a
quarantined one moves on if that is delivered after all.

*Deliberation.* `Invariance` proves `IInv`, for any council, number of rounds,
validators and ids. Its parts follow the pipeline: who has drafted, whose turn
it is, what each text then must be (`TextInv`: agent k has revised its peer's
proposal `Edits(k)` times, and nobody else has), which outcomes exist, that the
ranking is what the two sorts compute from outcomes that no longer change, and
what each point of the close-out has behind it. That the pairing is a bijection
without fixed points (`PeerFacts`) gives `ReviewIsByPeers`. That a strict total
order on a finite set is recovered from the numbers of elements ahead
(`PlaceFollowsOrder`), used once for `complete` and once for the reordering,
gives `RankingIsSorted`, and with it the theorems about winner and record.

*Transcript.* That the transcript names a completed step at most once
(`TranscriptStaysSound`) is not inductive: between the commit of a result and
the write behind it, a caller holds a contribution nobody else may write.
`ContributionsPending` says so: its step is completed and not in the transcript,
and no two callers hold the same step. It rests on `StagedWorkIsCurrent`,
since only a landing commit can begin such a write, and a completed step cannot
be completed again.

*Agenda.* A commit that lands has the stored table in hand, so the call it
applies is one that table allows (`InHandIsCurrent`); that is what turns guards
evaluated on a copy into facts about the store. The invariant behind
`AgendaNeverDisagrees` is `Agreement`: the property says the k-th answer of an
item matches the k-th fact sealed on it and the k-th reason the engine gave, and
to keep that through an append one also needs that nobody consulted a source
without answering (`EvidenceOwned`) and that there is one ending, which only
reasons follow (`EndingSealed`). `AgendaClaimsGrounded` follows the provenance
of an item and the records a reason joins through every later call, none of
which may remove them. `AgendaRemembersTruly` also covers what a caller carries
after its commit and has not written yet (`Remembered`): it was worked out of
the committed copy, and a table only grows, so it stays true however late it is
written. `AgendaCallsAreAtomic` states it of the whole: the stored table and
journal change by one call at a time, which the stored table allows, which seals
exactly its own facts, and which nothing on the table is lost to.

*Whole ceremony.* `RunInvariant` says what a driver can know of a session that
clients work on at the same time. Its parts: the session in hand is an earlier
one or the stored one (`InHand`), every round but the first was entered by a
move (`RoundsMoved`), what was traced is in the journal (`TracedSealed`), only
the driver that opened the session works on it (`OneOpener`), and what it
completed is in the transcript, in that order. Clients write the transcript too,
so nothing can be said of the whole of it but that it names completed steps, each
once (`TranscriptOK`); to keep that, a step that a client has reported and not
appended yet (`WorkersOK`), or that a driver has (`RecorderOK`), is completed, in
nobody else's hands and not in the transcript. Only monotone facts survive the clients, so the proof first
shows that no call takes a completed step back, leaves a terminal state or
forgets a move (the lemmas on `Follows` and `Sealed` in
`AtomicSession_proofs`). `RunNeverMisreports` then follows, and the bound on
rounds becomes a pigeonhole argument: more moves than states means two moves
into the same state. `RunHeardAll` is what the transcript held when the handler
was called: the run's own steps in order, and of others only completed ones. On the same invariant, `DrivenSessionsAreAtomic` shows
that `RunCeremony` implements `AtomicSession`: a claim and a move commit the
session in hand only while that is the stored one, a result is applied to the
session read again, and it is reported under an attempt whose claim is in the
journal (`TracedSealed`). The theorems of `AtomicSession_proofs` therefore hold
of a session that is being driven (`DrivenSessionsKeepTheirPromises`).

*Serving process.* `DispatchInvariant` proves `IInv`, over any number of starts,
drains and crashes. `CallOK` lists, stage by stage, what a call has announced,
answered, opened and asked for; each stage is shown to lead to a listed one, so
`SessionsAreHandedBack` and the announcements are read off. `SeatsOK` covers the
council being created as well as those registered, because agents may be
unregistered between the check and the registration. `SentFirst` balances
triggers: those answered, in a dispatcher's hand and on the wire were all sent.
`HandOK` says results are the beginning of the list; that the list without
repetitions is a list at all (`UniqueIsAList`) is proved by the least
counterexample, numbering the first occurrences. `CountsOK` keeps in the balance
what is owed to the counters: a deliberation that won and whose execution is not
recorded yet. `DownOK` says that nothing is under way in a process that is down,
which is what lets a restart on an empty store begin at zero.

*Definitions.* The state part is short. `CatalogueInv` says that everything
stored, in a caller's hands or run by a session was constructed by
`CeremonyDefinition::new`; that the catalogue's slot for the version of a bound
session holds what the session was started from, although the repository's may
not; and that a bound session stands in a state its definition reaches.
`SessionsResolve` is read off it. The rest is about what the analysis computes,
for designs of any size. Each check of the analysis is shown to report exactly
when its rule is broken (`InitialChecked` to `RolesChecked`); because a
transition is left at the first rule it breaks, that an accepted definition keeps
all the rules is a statement about the checks in their order
(`AcceptedIsAMachine`), and so is that report and constructor agree on the first
error, although the report goes on past duplicates and the constructor stops
(`RefusedAsReported`). The two walks of the analysis are iterations. Without an
induction principle for what a recursive function computes, they are reasoned
about through least numbers (`LeastNumber`, `Climb`): a walk that still grew at
each of as many steps as there are states would hold more states than there are
(`WalkEnds`), so it has stopped, at a closed set, and it is inside every closed
set that holds its start (`ReachedIsLeast`, `FinishingIsLeast`). That is the
definition `WarningsAreRight` uses, independently of the walks. It is stated of
bound sessions: an unbound one can be moved under one definition and resolve to
another that was saved under the same version. `CarriedOn` takes the comparison
apart by kind of change (`Strands`, `CarriesOn`). `StoredDefinitionsCanBeRun`
closes the circle: every definition the stores ever hold meets the assumptions
under which the session and the driver are proved, so what those assume of
states, steps, transitions and their order follows from the constructor. (That a
step has at least one attempt is `StepAttempt`'s doing and stays an assumption.)

## 5. What is only model-checked

- `EventuallySettled`, `EveryRunEnds` and `WorkEnds` (liveness
  under fairness, which the prover does not treat).
- The invariants of the runs `contracts`, `memory` and `tools`.
  `WinnerHonoursContract` and `ChainIsShortest` are about what recursive
  operators compute on nested data, and the modules of `contracts` and `memory`
  declare such operators, which the prover does not accept; `tools` is about a
  finite set of tools, which TLC enumerates completely.
- The finding, which is a counterexample.

Proved but not checked by a run of their own are the type invariants,
`EndingFollowsClaim`, `ClaimsWithinPolicy`, `NoDeferralAfterApproval`,
`NothingAheadInHand`, `ReviewedByPeers`, `RankedInOrder`, `WinnerIsBest` and
`StoredCanBeRun`, and the action properties `NothingTakenBack`,
`OneCallAtATime` and `SettledForGood`: the theorems of section 4 establish them
for every instance.

## 6. Not modelled, and why

- Encoding, hashing, table layout and SQL: that a SHA-256 chain detects an edit
  is a property of the hash, and rows hold what the ports hand over.
- What models answer, prompts and HTTP: they appear as arbitrary outcomes.
- Telemetry, health, metrics export, the Markdown report, Mermaid diagrams,
  guidance texts and the document a designed ceremony is written out as: derived
  output, read by nobody in the system. (That the design tool's arguments are
  read as advertised is checked with the others.)
- Failures while councils are seeded at start (`compose.rs:416-422`): the process
  does not come up, as with the refusals `Host` does have.
- The streaming of progress events over gRPC: it follows the observer calls of a
  deliberation and changes nothing.
- The contract registry: a table of immutable contracts behind one lock, read once
  before a council deliberates; `Deliberation` takes the contract with the request.
- The kernel behind session memory, NATS and the tool runtime are external and
  modelled from how this code uses them.
- Conformance suites, integration tests and runners: read, as statements of what
  the code promises.

## 7. Plan

Done: every component of section 2 is modelled and checked; the session, its
transcript, the outbox, deliberation, the agenda, the driver, the serving
process and the definitions are proved. What is left:

1. An action property of the serving process from its invariant: counters only
   grow while a process is up.
2. `KernelMemory`: `AnsweredByOwn`, from the ids in the pipe never exceeding the
   last one issued, once its walks are recursive functions as those of
   `CeremonyDefinition` are. Until then it rests on TLC.
