----------------------------- MODULE KernelMemory -----------------------------
(***************************************************************************)
(* The memory behind a session, and the three things that can stand in for *)
(* it: a kernel in a child process reached over its pipes (choreo-adapters *)
(* /src/kmp), a store in this process (memory/session_memory.rs) and none  *)
(* (memory/forgetful_memory.rs).                                           *)
(*                                                                         *)
(* Callers share one pair of pipes under a mutex.  A call writes a line    *)
(* and reads lines until the one that bears its id, or until its patience  *)
(* runs out; what it leaves behind in the pipe is there for the next       *)
(* caller to read.  The kernel itself is external: it answers requests in  *)
(* order, pages what it returns, may refuse, and may die.                  *)
(***************************************************************************)
EXTENDS Naturals, Sequences, FiniteSets, SequencesExt

CONSTANTS
    Callers, Jobs,   \* who calls, and what they may ask
    Foreign,         \* what another writer may have left in the kernel's store
    Parses,          \* texts that are JSON documents
    EndOfTime, PageSize, MaxPages,
    MaxJobs, MaxTimeouts   \* bounds: jobs of one caller, timeouts in all

VARIABLES
    backend,   \* "kernel", "local" or "none"
    conn,      \* of the transport: "off", "greeting", "up" or its error
    kernel,    \* what the kernel stores
    alive, stdin, stdout,
    pipes,     \* [holder, next_id] behind the mutex
    memory,    \* what the in-process backend stores
    call,      \* of each caller
    acked,     \* the entries some caller was told are remembered
    timeouts

vars == <<backend, conn, kernel, alive, stdin, stdout, pipes, memory, call, acked, timeouts>>

None == "none"
NoCursor == <<>>
NoRequest == [tool |-> None]

-----------------------------------------------------------------------------
(* What is remembered. *)

EntryKinds == {"decision", "observation", "constraint", "outcome"}
RelationKinds ==
  {"answers", "authorizes", "chosen_because", "achieved_by", "follows_from",
   "satisfies_constraint", "violates_constraint", "supersedes", "contradicts"}

MemoryEntryOk(e) == e.summary # ""
MemoryRelationOk(r) == r.from # r.to /\ r.why # ""
MemoryWriteOk(w) == w.entries # <<>> \/ w.relations # <<>>

(* MemoryProvenance::idempotency_key: no key from a blank discriminator. *)
KeyOk(key) == key # ""

-----------------------------------------------------------------------------
(* The in-process backend. *)

Empty == [entries |-> <<>>, relations |-> <<>>, keys |-> {}]

Remember_Again(m, w, key) ==
  [m |-> [entries |-> m.entries \o w.entries, relations |-> m.relations \o w.relations,
          keys |-> m.keys \cup {key}], out |-> "remembered"]
Remember(m, w, key) ==
  IF key \in m.keys THEN [m |-> m, out |-> "already"]
  ELSE [m |-> [entries |-> m.entries \o w.entries, relations |-> m.relations \o w.relations,
               keys |-> m.keys \cup {key}], out |-> "remembered"]

KnownAt(e, moment) == e.at <= moment

(* A reason whose ends are not both visible is not returned. *)
Between(relations, entries) ==
  LET ids == {e.id : e \in Range(entries)}
      Seen(r) == r.from \in ids /\ r.to \in ids
  IN SelectSeq(relations, Seen)

(* chain: breadth first along the reasons as written, remembering by which *)
(* one each entry was reached, and back from the end.                      *)
Frontier_Deep(rest, found) == found \o rest
Frontier(rest, found) == rest \o found

RECURSIVE Reach(_, _, _, _)
Reach(relations, frontier, arrived, to) ==
  IF frontier = <<>> \/ Head(frontier) = to THEN arrived
  ELSE LET here == Head(frontier)
           New(acc, r) ==
             IF r.from # here \/ r.to \in DOMAIN acc.by THEN acc
             ELSE [by |-> [x \in DOMAIN acc.by \cup {r.to} |->
                              IF x = r.to THEN <<r>> ELSE acc.by[x]],
                   found |-> Append(acc.found, r.to)]
           next == FoldLeft(New, [by |-> arrived, found |-> <<>>], relations)
       IN Reach(relations, Frontier(Tail(frontier), next.found), next.by, to)

RECURSIVE Back(_, _)
Back(arrived, here) ==
  IF here \notin DOMAIN arrived \/ arrived[here] = <<>> THEN <<>>
  ELSE Append(Back(arrived, arrived[here][1].from), arrived[here][1])

Chain(relations, from, to) ==
  Back(Reach(relations, <<from>>, [x \in {from} |-> <<>>], to), to)

Recalled(entries, relations) ==
  [is |-> "recalled", entries |-> entries, relations |-> relations]
Unsupported == [is |-> "unsupported", entries |-> <<>>, relations |-> <<>>]

LocalRead(m, job) ==
  CASE job.is = "recall" -> Recalled(m.entries, m.relations)
    [] job.is = "as_known_at" ->
         LET Then(e) == KnownAt(e, job.moment)
             entries == SelectSeq(m.entries, Then)
         IN Recalled(entries, Between(m.relations, entries))
    [] job.is = "follow" -> Recalled(<<>>, Chain(m.relations, job.from, job.to))
    [] job.is = "ask" -> Unsupported

-----------------------------------------------------------------------------
(* To the kernel's terms.  A reference is a name qualified by its scope;   *)
(* provenance is written as dimensions; metadata is text, so a document    *)
(* goes in as the text of one.                                             *)

EntryRef(id) == <<"session", id>>
EvidenceRef(id, ordinal) == <<"evidence", id, ordinal>>
Flatten(document) == document.text

Coordinates(e) ==
  {[dimension |-> "session", id |-> "session"], [dimension |-> "ceremony", id |-> e.ceremony]}
    \cup {[dimension |-> "role", id |-> r] : r \in e.role}
    \cup {[dimension |-> "strand", id |-> s] : s \in e.strand}

KernelEntry(e) ==
  [ref |-> EntryRef(e.id), kind |-> e.kind, text |-> e.summary, at |-> {e.at},
   coordinates |-> Coordinates(e), metadata |-> Flatten(e.detail)]

Supports(e) ==
  [i \in 1..Len(e.evidence) |->
     [from |-> EvidenceRef(e.id, i), to |-> EntryRef(e.id), rel |-> "supports",
      why |-> "supports", evidence |-> {e.evidence[i]}]]

(* Kernel names: one kind of reason goes by another name there. *)
KernelRelation(kind) == IF kind = "follows_from" THEN "derived_from" ELSE kind
RelationKindOf(rel) ==
  IF rel = "derived_from" THEN {"follows_from"} ELSE {rel} \cap (RelationKinds \ {"follows_from"})

Reason(r) ==
  [from |-> EntryRef(r.from), to |-> EntryRef(r.to), rel |-> KernelRelation(r.kind),
   why |-> r.why, evidence |-> {}]

IngestArguments(w, key) ==
  [tool |-> "ingest", key |-> key,
   entries |-> [i \in DOMAIN w.entries |-> KernelEntry(w.entries[i])],
   edges |-> FlattenSeq([i \in DOMAIN w.entries |-> Supports(w.entries[i])])
             \o [i \in DOMAIN w.relations |-> Reason(w.relations[i])]]
(* The moment is sent with the first page only: a later one continues from *)
(* a reference.                                                            *)
GotoArguments(moment, cursor) ==
  [tool |-> "goto", at |-> IF cursor = NoCursor THEN {moment} ELSE {}, ref |-> cursor]
TraceArguments(from, to) == [tool |-> "trace", from |-> EntryRef(from), to |-> EntryRef(to)]

-----------------------------------------------------------------------------
(* And back: what this engine cannot represent is left out. *)

EntryIdFrom(ref) == IF ref[1] = "session" THEN {ref[2]} ELSE {}
Detail(text) == [is |-> IF text \in Parses THEN "json" ELSE "string", text |-> text]
Named(coordinates, dimension) ==
  {c.id : c \in {x \in coordinates : x.dimension = dimension}}

RelationFrom(edge) ==
  {r \in {[from |-> f, to |-> t, kind |-> k, why |-> edge.why] :
            f \in EntryIdFrom(edge.from), t \in EntryIdFrom(edge.to), k \in RelationKindOf(edge.rel)} :
     MemoryRelationOk(r)}
Readable(edges) ==
  LET Ours(edge) == RelationFrom(edge) # {}
      ours == SelectSeq(edges, Ours)
  IN [i \in DOMAIN ours |-> CHOOSE r \in RelationFrom(ours[i]) : TRUE]

EvidenceByEntry(edges, ref) ==
  LET Backs(edge) == edge.rel = "supports" /\ edge.to = ref /\ edge.evidence # {}
      backing == SelectSeq(edges, Backs)
  IN [i \in DOMAIN backing |-> CHOOSE label \in backing[i].evidence : TRUE]

ReadEntry(value, edges) ==
  {e \in {[id |-> id, kind |-> value.kind, summary |-> value.text, at |-> at, ceremony |-> c,
           role |-> Named(value.coordinates, "role"), strand |-> Named(value.coordinates, "strand"),
           detail |-> Detail(value.metadata), evidence |-> EvidenceByEntry(edges, value.ref)] :
            id \in EntryIdFrom(value.ref), at \in value.at,
            c \in Named(value.coordinates, "ceremony")} :
     e.kind \in EntryKinds /\ MemoryEntryOk(e)}

ReadPage_First(document) ==
  LET Ours(v) == ReadEntry(v, document.edges) # {}
      ours == SelectSeq(document.entries, Ours)
  IN [entries |-> [i \in DOMAIN ours |-> CHOOSE e \in ReadEntry(ours[i], document.edges) : TRUE],
      relations |-> Readable(document.edges), next |-> NoCursor]
ReadPage(document) ==
  LET Ours(v) == ReadEntry(v, document.edges) # {}
      ours == SelectSeq(document.entries, Ours)
  IN [entries |-> [i \in DOMAIN ours |-> CHOOSE e \in ReadEntry(ours[i], document.edges) : TRUE],
      relations |-> Readable(document.edges),
      next |-> IF document.has_more THEN document.next ELSE NoCursor]

ReadChain(document) == Readable(document.edges)
MeansNothingIsWritten(words) == words = "not found"
MeansAlreadyRemembered(words) == words = "already accepted"

-----------------------------------------------------------------------------
(* The kernel, as this code uses it. *)

Returned(document) == [is |-> "returned", document |-> document]
Refused(words) == [is |-> "refused", words |-> words]

\* Every edge that touches an entry of the page.
PageOf(visible) ==
  LET page == SubSeq(visible, 1, IF Len(visible) < PageSize THEN Len(visible) ELSE PageSize)
      refs == {v.ref : v \in Range(page)}
      Walked(edge) == edge.from \in refs \/ edge.to \in refs
  IN [entries |-> page, edges |-> SelectSeq(kernel.edges, Walked),
      has_more |-> Len(visible) > Len(page),
      next |-> IF page = <<>> THEN NoCursor ELSE Last(page).ref]

AfterCursor(ref) ==
  LET at == CHOOSE i \in DOMAIN kernel.entries : kernel.entries[i].ref = ref
  IN SubSeq(kernel.entries, at + 1, Len(kernel.entries))

Goto(request) ==
  LET Then(v) == \A t \in v.at, m \in request.at : t <= m
  IN IF kernel.entries = <<>> THEN Refused("not found")
     ELSE Returned(PageOf(IF request.ref = NoCursor THEN SelectSeq(kernel.entries, Then)
                          ELSE AfterCursor(request.ref)))

Trace(request) ==
  Returned([edges |-> Chain(kernel.edges, request.from, request.to)])

Answer(request) ==
  CASE request.tool = "ingest" /\ request.key \in kernel.keys -> Refused("already accepted")
    [] request.tool = "ingest" /\ request.key \notin kernel.keys -> Returned([edges |-> <<>>])
    [] request.tool = "goto" -> Goto(request)
    [] request.tool = "trace" -> Trace(request)
    [] request.tool = "initialize" -> Returned([edges |-> <<>>])

Stored(request) ==
  IF request.tool = "ingest" /\ request.key \notin kernel.keys
  THEN [entries |-> kernel.entries \o request.entries, edges |-> kernel.edges \o request.edges,
        keys |-> kernel.keys \cup {request.key}]
  ELSE kernel

Line(r, answer) == [is |-> "message", id |-> r.id, answer |-> answer, to |-> r.request]

Serve ==
  /\ alive /\ stdin # <<>>
  /\ kernel' = Stored(Head(stdin).request)
  /\ stdout' = Append(stdout, Line(Head(stdin), Answer(Head(stdin).request)))
  /\ stdin' = Tail(stdin)
  /\ UNCHANGED <<backend, conn, alive, pipes, memory, call, acked, timeouts>>

\* For a reason of its own, or at the handshake.
Refuse ==
  /\ alive /\ stdin # <<>>
  /\ stdout' = Append(stdout, Line(Head(stdin), Refused("busy")))
  /\ stdin' = Tail(stdin)
  /\ UNCHANGED <<backend, conn, kernel, alive, pipes, memory, call, acked, timeouts>>

Die ==
  /\ alive /\ conn # "off" /\ backend = "kernel"
  /\ alive' = FALSE /\ stdin' = <<>>
  /\ UNCHANGED <<backend, conn, kernel, stdout, pipes, memory, call, acked, timeouts>>

-----------------------------------------------------------------------------
(* The transport. *)

Free == pipes.holder = None
Hold(who) == pipes' = [holder |-> who, next_id |-> pipes.next_id + 1]
Release == pipes' = [pipes EXCEPT !.holder = None]

(* connect: spawn the kernel, then shake hands under the same timeout. *)
Connect ==
  /\ backend = "kernel" /\ conn = "off"
  /\ \/ conn' = "unstartable" /\ UNCHANGED <<stdin, pipes>>
     \/ /\ conn' = "greeting" /\ Hold("host")
        /\ stdin' = Append(stdin, [id |-> pipes.next_id + 1, request |-> [tool |-> "initialize"]])
  /\ UNCHANGED <<backend, kernel, alive, stdout, memory, call, acked, timeouts>>

Greeted ==
  /\ conn = "greeting"
  /\ \/ /\ stdout # <<>> /\ stdout' = Tail(stdout)
        /\ conn' = IF Head(stdout).answer.is = "refused" THEN "unwelcoming"
                   ELSE IF alive THEN "up" ELSE "gone"
     \/ stdout = <<>> /\ ~alive /\ conn' = "gone" /\ UNCHANGED stdout
     \/ timeouts < MaxTimeouts /\ conn' = "silent" /\ UNCHANGED stdout
  /\ Release
  /\ UNCHANGED <<backend, kernel, alive, stdin, memory, call, acked, timeouts>>

-----------------------------------------------------------------------------
(* A call of KernelSessionMemory. *)

Result(out) == [is |-> out, entries |-> <<>>, relations |-> <<>>]

Idle == [at |-> "idle", job |-> [is |-> None], jobs |-> 0, id |-> 0, request |-> NoRequest, took |-> NoRequest,
         page |-> 0, cursor |-> NoCursor, entries |-> <<>>, relations |-> <<>>,
         result |-> Result(None), begun |-> {}, knew |-> <<>>]

FirstRequest(job) ==
  CASE job.is = "remember" -> IngestArguments(job.write, job.key)
    [] job.is \in {"recall", "as_known_at"} -> GotoArguments(job.moment, NoCursor)
    [] job.is = "follow" -> TraceArguments(job.from, job.to)

Finish(c, result) ==
  call' = [call EXCEPT ![c].at = "idle", ![c].result = result]
Ids(entries) == {e.id : e \in Range(entries)}

\* A backend in this process answers at once; the kernel is a call away.
Begin(c, job) ==
  /\ call[c].at = "idle" /\ call[c].jobs < MaxJobs
  /\ backend = "kernel" => conn = "up"
  /\ job.is = "remember" => MemoryWriteOk(job.write)
  /\ LET fresh == [Idle EXCEPT !.job = job, !.jobs = call[c].jobs + 1, !.begun = acked,
                               !.knew = memory.relations]
         refusedHere == job.is = "ask" \/ (job.is = "remember" /\ ~KeyOk(job.key))
         done == CASE backend = "none" ->
                        IF job.is = "remember" THEN Result("not_remembered") ELSE Unsupported
                   [] backend = "kernel" ->
                        IF job.is = "ask" THEN Unsupported ELSE Result("error")
                   [] backend = "local" ->
                        IF job.is = "remember" THEN Result(Remember(memory, job.write, job.key).out)
                        ELSE LocalRead(memory, job)
     IN IF backend = "kernel" /\ ~refusedHere
        THEN /\ call' = [call EXCEPT ![c] = [fresh EXCEPT !.at = "waiting",
                                                          !.request = FirstRequest(job)]]
             /\ UNCHANGED <<memory, acked>>
        ELSE /\ call' = [call EXCEPT ![c] = [fresh EXCEPT !.result = done]]
             /\ memory' = IF backend = "local" /\ job.is = "remember"
                          THEN Remember(memory, job.write, job.key).m ELSE memory
             /\ acked' = IF backend = "local" /\ job.is = "remember"
                         THEN acked \cup Ids(job.write.entries) ELSE acked
  /\ UNCHANGED <<backend, conn, kernel, alive, stdin, stdout, pipes, timeouts>>

(* exchange: take the pipes, number the request, write it. *)
Write(c) ==
  /\ call[c].at = "waiting" /\ Free
  /\ IF alive
     THEN /\ Hold(c)
          /\ stdin' = Append(stdin, [id |-> pipes.next_id + 1, request |-> call[c].request])
          /\ call' = [call EXCEPT ![c].at = "reading", ![c].id = pipes.next_id + 1]
     ELSE /\ pipes' = [pipes EXCEPT !.next_id = @ + 1]
          /\ Finish(c, Result("error")) /\ UNCHANGED stdin
  /\ UNCHANGED <<backend, conn, kernel, alive, stdout, memory, acked, timeouts>>

(* A page: the moment is applied again to what came back, repeats are      *)
(* dropped.                                                                *)
Collected(call_, page) ==
  LET New(e) == KnownAt(e, call_.job.moment) /\ e.id \notin Ids(call_.entries)
  IN call_.entries \o SelectSeq(page.entries, New)
Reasons(call_, page) ==
  LET New(r) == r \notin Range(call_.relations)
  IN call_.relations \o SelectSeq(page.relations, New)

MorePages(call_, page) ==
  page.next # NoCursor /\ page.next # call_.cursor /\ call_.page + 1 < MaxPages

\* read_as_of goes round again, or is done.
ReadOn(c, document) ==
  LET page == ReadPage(document)
      entries == Collected(call[c], page)
      relations == Reasons(call[c], page)
      walked == [call[c] EXCEPT !.entries = entries, !.relations = relations, !.page = @ + 1,
                                !.cursor = page.next, !.took = Head(stdout).to]
  IN IF MorePages(call[c], page)
     THEN call' = [call EXCEPT ![c] = [walked EXCEPT !.at = "waiting",
                        !.request = GotoArguments(call[c].job.moment, page.next)]]
     ELSE call' = [call EXCEPT ![c] = [walked EXCEPT !.at = "idle",
                        !.result = Recalled(entries, Between(relations, entries))]]

Settle(c, result) ==
  call' = [call EXCEPT ![c].at = "idle", ![c].result = result, ![c].took = Head(stdout).to]

Handle(c, answer) ==
  LET job == call[c].job
      words == IF answer.is = "refused" THEN answer.words ELSE ""
  IN CASE job.is = "remember" ->
            Settle(c, Result(CASE answer.is = "returned" -> "remembered"
                               [] MeansAlreadyRemembered(words) -> "already"
                               [] OTHER -> "error"))
       [] job.is \in {"recall", "as_known_at"} /\ answer.is = "returned" ->
            ReadOn(c, answer.document)
       [] job.is = "follow" /\ answer.is = "returned" ->
            Settle(c, Recalled(<<>>, ReadChain(answer.document)))
       [] OTHER ->
            Settle(c, IF MeansNothingIsWritten(words)
                      THEN Recalled(call[c].entries, call[c].relations) ELSE Result("error"))

Acknowledges(c, answer) ==
  /\ call[c].job.is = "remember"
  /\ answer.is = "returned" \/ MeansAlreadyRemembered(answer.words)

(* read_response: a blank line and another's answer are passed over, a     *)
(* line that is not a document ends the call.                              *)
Mine_Any(line, id) == line.is = "message"
Mine(line, id) == line.is = "message" /\ line.id = id

ReadLine(c) ==
  /\ call[c].at = "reading" /\ stdout # <<>>
  /\ stdout' = Tail(stdout)
  /\ LET line == Head(stdout)
     IN CASE Mine(line, call[c].id) ->
               /\ Handle(c, line.answer) /\ Release
               /\ acked' = IF Acknowledges(c, line.answer)
                           THEN acked \cup Ids(call[c].job.write.entries) ELSE acked
          [] line.is = "torn" ->
               Finish(c, Result("error")) /\ Release /\ UNCHANGED acked
          [] OTHER -> UNCHANGED <<call, pipes, acked>>
  /\ UNCHANGED <<backend, conn, kernel, alive, stdin, memory, timeouts>>

ReadEof(c) ==
  /\ call[c].at = "reading" /\ stdout = <<>> /\ ~alive
  /\ Finish(c, Result("error")) /\ Release
  /\ UNCHANGED <<backend, conn, kernel, alive, stdin, stdout, memory, acked, timeouts>>

(* The timeout drops read_line wherever it stands: a line half taken from  *)
(* the pipe leaves its other half, or only its line feed.                  *)
Silent(c) ==
  /\ call[c].at = "reading" /\ timeouts < MaxTimeouts
  /\ timeouts' = timeouts + 1
  /\ \/ UNCHANGED stdout
     \/ stdout # <<>> /\ \E rest \in {"torn", "blank"} :
                           stdout' = <<[is |-> rest]>> \o Tail(stdout)
  /\ Finish(c, Result("error")) /\ Release
  /\ UNCHANGED <<backend, conn, kernel, alive, stdin, memory, acked>>

Ended ==
  /\ \A c \in Callers : call[c].at = "idle" /\
                        (call[c].jobs = MaxJobs \/ (backend = "kernel" /\ conn # "up"))
  /\ backend = "kernel" => conn \notin {"off", "greeting"}
  /\ ~alive \/ stdin = <<>>
  /\ UNCHANGED vars

Init ==
  /\ backend \in {"kernel", "local", "none"}
  /\ conn = "off"
  /\ \E left \in Foreign : kernel = [entries |-> left.entries, edges |-> left.edges, keys |-> {}]
  /\ alive = TRUE /\ stdin = <<>> /\ stdout = <<>>
  /\ pipes = [holder |-> None, next_id |-> 0]
  /\ memory = Empty
  /\ call = [c \in Callers |-> Idle]
  /\ acked = {} /\ timeouts = 0

Next ==
  \/ Connect \/ Greeted \/ Serve \/ Refuse \/ Die \/ Ended
  \/ \E c \in Callers :
       \/ \E job \in Jobs : Begin(c, job)
       \/ Write(c) \/ ReadLine(c) \/ ReadEof(c) \/ Silent(c)

Spec == Init /\ [][Next]_vars

-----------------------------------------------------------------------------
Answered(c) == call[c].at = "idle" /\ call[c].result.is = "recalled"

(* One slow call cannot make a later one read the wrong document: the      *)
(* answer a call acts on is the answer to its own last request, whatever   *)
(* was left in the pipe (kmp/stdio.rs, read_response).                     *)
AnsweredByOwn ==
  \A c \in Callers :
    call[c].at = "idle" /\ call[c].took # NoRequest /\ call[c].result.is # "error"
      => call[c].took = call[c].request

(* Reading as of a moment returns nothing learned later, however many      *)
(* pages it took and whoever wrote between them, and no reason with an end *)
(* it does not show (kmp and memory/session_memory.rs, as_known_at).       *)
KnownByThen ==
  \A c \in Callers :
    Answered(c) /\ call[c].job.is = "as_known_at" =>
      LET r == call[c].result
      IN /\ \A e \in Range(r.entries) : e.at <= call[c].job.moment
         /\ \A x \in Range(r.relations) : {x.from, x.to} \subseteq Ids(r.entries)

Written(id) ==
  LET writes == {j.write : j \in {x \in Jobs : x.is = "remember"}}
  IN CHOOSE e \in UNION {Range(w.entries) : w \in writes} : e.id = id

(* What a caller was told is remembered before a read began is in what the *)
(* read returns, with the evidence and the words it was written with and   *)
(* nothing attached twice, unless the read ran out of pages (read_as_of).  *)
NothingForgotten ==
  \A c \in Callers :
    Answered(c) /\ call[c].job.is \in {"recall", "as_known_at"} /\ call[c].cursor = NoCursor =>
      \A id \in call[c].begun :
        Written(id).at <= call[c].job.moment =>
          \E e \in Range(call[c].result.entries) :
            /\ e.id = id /\ e.evidence = Written(id).evidence
            /\ Flatten(e.detail) = Flatten(Written(id).detail)
            /\ <<e.role, e.strand, e.at>> = <<Written(id).role, Written(id).strand, Written(id).at>>

(* What a read answers is what was known by the moment it asks about, no   *)
(* entry more and no entry less, and no relation to one that is not there, *)
(* through every page, timeout and concurrent write.                       *)
RecallIsExact == KnownByThen /\ NothingForgotten

Held(id) ==
  IF backend = "local" THEN {i \in DOMAIN memory.entries : memory.entries[i].id = id}
  ELSE {i \in DOMAIN kernel.entries : kernel.entries[i].ref = EntryRef(id)}

(* A write that timed out and is made again under its key is there once:   *)
(* what a caller was told is remembered is held exactly once, whichever    *)
(* backend and however often it was retried (memory_writer.rs).            *)
RememberedOnce == \A id \in acked : Cardinality(Held(id)) = 1

(* The reference: what is exactly n reasons away, going round in circles   *)
(* as often as that takes; and a walk, each reason from where the last one *)
(* ended.                                                                  *)
Away(relations, from) ==
  LET away[n \in 0..Len(relations)] ==
        IF n = 0 THEN {from}
        ELSE LET before == away[n - 1]
             IN {r.to : r \in {x \in Range(relations) : x.from \in before}}
  IN away

IsWalk(chain, relations, from, to) ==
  /\ Range(chain) \subseteq Range(relations)
  /\ chain[1].from = from /\ chain[Len(chain)].to = to
  /\ \A i \in 1..(Len(chain) - 1) : chain[i].to = chain[i + 1].from

(* Following a reason in process ends, circles or not, with a chain that   *)
(* connects the two and is no longer than any other, and with an empty one *)
(* only when nothing connects them (memory/session_memory.rs, chain).      *)
ChainIsShortest ==
  \A c \in Callers :
    Answered(c) /\ call[c].job.is = "follow" /\ backend = "local"
      /\ call[c].job.from # call[c].job.to =>
      LET chain == call[c].result.relations
          away == Away(call[c].knew, call[c].job.from)
          Ways == {n \in DOMAIN away : call[c].job.to \in away[n]}
      IN IF chain = <<>> THEN Ways = {}
         ELSE /\ IsWalk(chain, call[c].knew, call[c].job.from, call[c].job.to)
              /\ \A n \in Ways : Len(chain) <= n
=============================================================================
