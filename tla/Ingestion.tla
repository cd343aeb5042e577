----------------------------- MODULE Ingestion ------------------------------
(***************************************************************************)
(* How one document becomes requirements or facts: parsed, transcribed,    *)
(* shown to the model batch by batch, and indexed (parse_document_job and  *)
(* process_document_job with what they call), while people correct its     *)
(* pages, ask for it to be read again, cancel jobs and change the          *)
(* configuration of the model.                                             *)
(*                                                                         *)
(* document.metadata_json is one value: a handler changes the copy it read *)
(* at its start and stores it whole, and so does a request.  JobQueue has  *)
(* the queue itself; here one worker takes one job at a time, and a crash  *)
(* is a failure followed by what fail_running_jobs does.  POST /process,   *)
(* which does not ask whether the document is being read, is two steps,    *)
(* with the worker's steps between them.  Any other request is one step,   *)
(* and a document has one request at a time.                               *)
(***************************************************************************)
EXTENDS Extraction, FiniteSets

CONSTANTS
    Roles,              \* "tender", which stands for addenda and answers too, "evidence"
    Layout,             \* the sizes of the blocks the parser finds on each page
    Scanned,            \* pages without usable text
    Transcript,         \* the size of the text of a page read or typed by a person
    Statements,         \* requirements or entities the model can name
    Facts,              \* facts for the reading it can name
    Embeddings,         \* signatures of embedding models that may be configured
    MaxRevision, MaxTextVersion,    \* bounds
    MaxVersions,        \* bound of the two together
    Corrected,          \* bound: the pages people correct
    MaxAttempts         \* of a parse: 3

VARIABLES
    role,
    rev,        \* current_revision_id, counted; 0: none yet
    pages,      \* of the current revision: [mode, blocks in force]
    meta,       \* metadata_json
    evidence,   \* facts extracted from it: of the present revision, and not archived
    archived,   \* whether facts of the present revision have been archived
    chunks,     \* [rev, fragments] of the index
    jobs,       \* the document's parse_document and process_document job
    worker,     \* what the running handler has read
    asked,      \* the metadata POST /process read and will store: none or one
    service,    \* "off", "unconfigured" or the active embedding model
    answered    \* history: answers saved since the text last changed

vars == <<role, rev, pages, meta, evidence, archived, chunks, jobs, worker, asked, service,
          answered>>

Pages == DOMAIN Layout
ASSUME PageAssumption ==
    /\ Layout \in Seq(Seq(Nat)) /\ Layout # <<>>
    /\ Scanned \subseteq Pages /\ Transcript \in Nat
ASSUME BoundAssumption ==
    /\ MaxRevision \in Nat /\ MaxTextVersion \in Nat /\ MaxVersions \in Nat
    /\ MaxAttempts \in Nat \ {0}

(***************************************************************************)
(* Values.                                                                 *)
(***************************************************************************)
NoText == [mode |-> "none", blocks |-> <<>>]

ParsedPage(r, p) ==
    [mode |-> IF p \in Scanned THEN "needs_vision" ELSE "text",
     blocks |-> [n \in DOMAIN Layout[p] |-> [id |-> <<r, p, n>>, size |-> Layout[p][n]]]]

\* The revision and text version that saved batches are for, the batches by page and
\* number, whether a quotation was not found, and what was extracted.
NothingRead == [rev |-> 0, text |-> 0, batches |-> {}, notes |-> FALSE,
                entries |-> {}, reading |-> {}]

Batches(p) == BlockBatches(pages[p].blocks)
AllBatches == UNION {{<<p, n>> : n \in DOMAIN Batches(p)} : p \in Pages}
BlocksInForce == UNION {Range(pages[p].blocks) : p \in Pages}

\* The fragments of a batch, which is what the model is shown.
Shown(b) == Range(Batches(b[1])[b[2]])

\* The sets of fragments the model has answered for, those whose last answer quoted what is
\* not there, those a request has stored older metadata over, and facts for the reading.
NoAnswers == [read |-> {}, unmatched |-> {}, lost |-> {}, reading |-> {}]

\* A job for the model keeps the configuration it was queued with.
NoJob == [status |-> "none", attempts |-> 0, cancel |-> FALSE, model |-> "none"]
Active(job) == job.status \in {"queued", "running"}
MutEnqueued(job, model) == [NoJob EXCEPT !.status = "queued", !.model = model]
Enqueued(job, model) ==
    IF Active(job) THEN job ELSE [NoJob EXCEPT !.status = "queued", !.model = model]

Bounded == rev + meta.text < MaxVersions

Idle == [job |-> "none"]
Busy == worker # Idle
At(step) == Busy /\ worker.at = step

\* queue_document_processing: the metadata and the jobs after it.
Queued(m) ==
    CASE service = "off" -> [m EXCEPT !.ai = "waiting_api", !.auto = FALSE]
      [] service = "unconfigured" -> [m EXCEPT !.ai = "waiting_config", !.auto = TRUE]
      [] OTHER -> [m EXCEPT !.ai = "queued", !.auto = TRUE]

Processing(js) ==
    IF service \in Embeddings THEN [js EXCEPT !.process = Enqueued(@, service)] ELSE js

\* What an earlier job saved, if it is for this revision and text version.
MutResumed(m, r) ==
    IF m.read.rev = r /\ m.read.text = m.text THEN [m.read EXCEPT !.notes = FALSE]
    ELSE [NothingRead EXCEPT !.rev = r, !.text = m.text]
MutResumedText(m, r) ==
    IF m.read.rev = r THEN m.read ELSE [NothingRead EXCEPT !.rev = r, !.text = m.text]
Resumed(m, r) ==
    IF m.read.rev = r /\ m.read.text = m.text THEN m.read
    ELSE [NothingRead EXCEPT !.rev = r, !.text = m.text]

-----------------------------------------------------------------------------
(***************************************************************************)
(* parse_document_job.                                                     *)
(***************************************************************************)
BeginParse ==
    /\ ~Busy /\ jobs.parse.status = "queued" /\ rev < MaxRevision /\ Bounded
    /\ jobs' = [jobs EXCEPT !.parse.status = "running", !.parse.attempts = @ + 1]
    /\ meta' = [meta EXCEPT !.parse = "running"]
    /\ worker' = [job |-> "parse", at |-> "parse", meta |-> meta']
    /\ UNCHANGED <<role, rev, pages, evidence, archived, chunks, asked, service, answered>>

\* The structure, its revision and the ingestion to follow are one commit.
FinishParse ==
    /\ At("parse") /\ ~jobs.parse.cancel
    /\ rev' = rev + 1
    /\ pages' = [p \in Pages |-> ParsedPage(rev', p)]
    /\ meta' = Queued([worker.meta EXCEPT !.parse = "parsed"])
    /\ jobs' = Processing(jobs)
    /\ worker' = [worker EXCEPT !.at = "done"]
    /\ evidence' = {} /\ archived' = FALSE
    /\ answered' = NoAnswers
    /\ UNCHANGED <<role, chunks, asked, service>>

(***************************************************************************)
(* process_document_job.                                                   *)
(***************************************************************************)
BeginProcess ==
    /\ ~Busy /\ jobs.process.status = "queued" /\ service # "off"
    /\ jobs' = [jobs EXCEPT !.process.status = "running"]
    /\ meta' = [meta EXCEPT !.ai = "running"]
    /\ worker' = [job |-> "process", at |-> "read", meta |-> meta',
                  found |-> Resumed(meta, rev), batch |-> <<>>]
    /\ UNCHANGED <<role, rev, pages, evidence, archived, chunks, asked, service, answered>>

Untranscribed == {p \in Pages : pages[p].mode = "needs_vision"}

\* _save_transcription; the new block comes first in the reading order.
Transcribe ==
    /\ At("read") /\ worker.batch = <<>> /\ ~jobs.process.cancel
    /\ \E p \in Untranscribed :
          /\ \A q \in Untranscribed : p <= q
          /\ pages' = [pages EXCEPT ![p] =
                         [mode |-> "vision",
                          blocks |-> <<[id |-> <<rev, p, 0>>, size |-> Transcript]>> \o @.blocks]]
    /\ UNCHANGED <<role, rev, meta, evidence, archived, chunks, jobs, worker, asked, service,
                   answered>>

Before(a, b) == a[1] < b[1] \/ (a[1] = b[1] /\ a[2] < b[2])

\* The next batch that is not saved is sent to the model.
Ask ==
    LET open == AllBatches \ worker.found.batches
    IN /\ At("read") /\ worker.batch = <<>> /\ Untranscribed = {}
       /\ \E b \in open :
             /\ \A c \in open : c = b \/ Before(b, c)
             /\ worker' = [worker EXCEPT !.batch = b]
       /\ UNCHANGED <<role, rev, pages, meta, evidence, archived, chunks, jobs, asked, service,
                      answered>>

\* _extract_bounded_batch: answers that are cut off split the batch, down to single blocks.
Splits(batch) ==
    LET parts[n \in 1 .. Len(batch)] ==
            IF n = 1 THEN {<<1>>}
            ELSE {<<n>>} \cup {a \o b : a \in parts[n \div 2], b \in parts[n - n \div 2]}
    IN parts[Len(batch)]

\* Findings cite a block of the batch, or quote what is not in it.
Unmatched == <<>>
Findings(batch) == [what : Statements, block : {f.block : f \in Range(batch)} \cup {Unmatched}]

Matched(findings) == {f \in findings : f.block # Unmatched}

\* A requirement is kept once, by its fingerprint.
MutMerged(entries, findings) == findings
Merged(entries, findings) ==
    entries \cup {f \in findings : \A e \in entries : e.what # f.what}

MutSaved(found, m) == IF worker.batch # <<>> THEN m ELSE [m EXCEPT !.read = found]
Saved(found, m) == [m EXCEPT !.read = found]

\* The answer is saved together with the batch it is for.  The parts of a split batch
\* give their requirements and notes only; materials are not split.
Answer(findings, reading, split) ==
    LET batch == Batches(worker.batch[1])[worker.batch[2]]
        found == [worker.found EXCEPT
                     !.batches = @ \cup {worker.batch},
                     !.notes = @ \/ Matched(findings) # findings,
                     !.entries = IF role = "tender" THEN Merged(@, Matched(findings)) ELSE @,
                     !.reading = IF Len(split) = 1 THEN @ \cup reading ELSE @]
    IN /\ At("read") /\ worker.batch # <<>> /\ ~jobs.process.cancel
       /\ findings \subseteq Findings(batch) /\ split \in Splits(batch)
       /\ role = "evidence" => Len(split) = 1 /\ reading = {}
       /\ meta' = Saved(found, worker.meta)
       /\ worker' = [worker EXCEPT !.batch = <<>>, !.found = found, !.meta = meta']
       /\ evidence' = IF role = "evidence" THEN evidence \cup Matched(findings)
                                            ELSE evidence
       /\ answered' =
             [read |-> answered.read \cup {Range(batch)},
              unmatched |-> IF Matched(findings) # findings
                            THEN answered.unmatched \cup {Range(batch)}
                            ELSE answered.unmatched \ {Range(batch)},
              lost |-> answered.lost \ {Shown(b) : b \in found.batches},
              reading |-> answered.reading \cup reading]
       /\ UNCHANGED <<role, rev, pages, archived, chunks, jobs, asked, service>>

\* Every batch is saved; the requirements are stored once more as they are.
ReadDone ==
    /\ At("read") /\ worker.batch = <<>> /\ Untranscribed = {}
    /\ AllBatches \subseteq worker.found.batches
    /\ meta' = IF role = "tender" THEN Saved(worker.found, worker.meta) ELSE meta
    /\ worker' = [worker EXCEPT !.at = "index", !.meta = IF role = "tender" THEN meta' ELSE @]
    /\ UNCHANGED <<role, rev, pages, evidence, archived, chunks, jobs, asked, service, answered>>

\* index_document: chunks of another revision or text version are replaced.
MutOutOfDate(m) == chunks.rev # rev
OutOfDate(m) == chunks.rev # rev \/ m.index # m.text

Index ==
    LET rebuild == chunks.fragments = {} \/ OutOfDate(worker.meta)
    IN /\ At("index")
       /\ chunks' = IF rebuild
                    THEN [rev |-> rev,
                          fragments |-> UNION {Chunks(pages[p].blocks) : p \in Pages}]
                    ELSE chunks
       /\ meta' = IF rebuild THEN [worker.meta EXCEPT !.index = worker.meta.text] ELSE meta
       /\ worker' = [worker EXCEPT !.at = IF role = "evidence" THEN "embed" ELSE "finish",
                                   !.meta = IF rebuild THEN meta' ELSE @]
       /\ UNCHANGED <<role, rev, pages, evidence, archived, jobs, asked, service, answered>>

Embed ==
    /\ At("embed") /\ ~jobs.process.cancel
    /\ meta' = [worker.meta EXCEPT !.embedding = jobs.process.model]
    /\ worker' = [worker EXCEPT !.at = "finish", !.meta = meta']
    /\ UNCHANGED <<role, rev, pages, evidence, archived, chunks, jobs, asked, service, answered>>

\* The facts are counted with those that were archived since the document was parsed.
Finish ==
    LET unclear == worker.found.notes \/ (role = "evidence" /\ evidence = {} /\ ~archived)
    IN /\ At("finish") /\ ~jobs.process.cancel
       /\ meta' = [worker.meta EXCEPT !.ai = IF unclear THEN "needs_review" ELSE "ready"]
       /\ worker' = [worker EXCEPT !.at = "done", !.meta = meta']
       /\ UNCHANGED <<role, rev, pages, evidence, archived, chunks, jobs, asked, service, answered>>

(***************************************************************************)
(* The end of a job: in _process_one, or by fail_running_jobs after a      *)
(* crash.                                                                  *)
(***************************************************************************)
Complete ==
    /\ At("done") /\ ~jobs[worker.job].cancel
    /\ jobs' = [jobs EXCEPT ![worker.job] = NoJob]
    /\ worker' = Idle
    /\ UNCHANGED <<role, rev, pages, meta, evidence, archived, chunks, asked, service, answered>>

\* A parse is repeated; after a crash its metadata stay as they are.
StopParse(crash) ==
    LET job == jobs.parse
        retry == ~job.cancel /\ job.attempts < MaxAttempts
    IN /\ Busy /\ worker.job = "parse"
       /\ jobs' = [jobs EXCEPT !.parse = IF retry THEN [@ EXCEPT !.status = "queued"] ELSE NoJob]
       /\ meta' = CASE job.cancel -> [meta EXCEPT !.parse = "canceled"]
                    [] retry /\ ~crash -> [meta EXCEPT !.parse = "queued"]
                    [] retry /\ crash -> meta
                    [] OTHER -> [meta EXCEPT !.parse = "failed"]
       /\ worker' = Idle
       /\ UNCHANGED <<role, rev, pages, evidence, archived, chunks, asked, service, answered>>

StopProcess ==
    /\ Busy /\ worker.job = "process"
    /\ jobs' = [jobs EXCEPT !.process = NoJob]
    /\ meta' = [meta EXCEPT !.ai = IF jobs.process.cancel THEN "canceled" ELSE "failed"]
    /\ worker' = Idle
    /\ UNCHANGED <<role, rev, pages, evidence, archived, chunks, asked, service, answered>>

-----------------------------------------------------------------------------
(***************************************************************************)
(* Requests.                                                               *)
(***************************************************************************)
ParseSettled == rev > 0 /\ meta.parse \notin {"queued", "running", "failed", "canceled"}

\* POST /documents/{id}/reparse.
Reparse ==
    /\ ~Busy /\ asked = {}
    /\ meta' = [meta EXCEPT !.parse = "queued", !.ai = "pending"]
    /\ jobs' = [jobs EXCEPT !.parse = Enqueued(@, "none")]
    /\ UNCHANGED <<role, rev, pages, evidence, archived, chunks, worker, asked, service, answered>>

\* POST /documents/{id}/process, while the document may be being read: the metadata are
\* read, and after the configuration is read, stored as they were but for the status.
ProcessRead ==
    /\ service # "off" /\ ParseSettled /\ asked = {}
    /\ asked' = {meta}
    /\ UNCHANGED <<role, rev, pages, meta, evidence, archived, chunks, jobs, worker, service,
                   answered>>

ProcessStore ==
    \E copy \in asked :
       /\ meta' = Queued(copy)
       /\ jobs' = Processing(jobs)
       /\ asked' = {}
       /\ answered' = [answered EXCEPT
                         !.lost = (@ \cup {Shown(b) : b \in Resumed(meta, rev).batches})
                                     \ {Shown(b) : b \in Resumed(copy, rev).batches}]
       /\ UNCHANGED <<role, rev, pages, evidence, archived, chunks, worker, service>>

\* PUT /pages/{id}/text: the page is what the person typed; what the model extracted from
\* the document is archived.
MutCorrect(p) ==
    /\ p \in Corrected
    /\ ~Busy /\ asked = {} /\ rev > 0 /\ meta.text < MaxTextVersion /\ Bounded
    /\ pages' = [pages EXCEPT ![p] =
                   [mode |-> "manual",
                    blocks |-> <<[id |-> <<rev, p, -(meta.text + 1)>>, size |-> Transcript]>>]]
    /\ meta' = Queued([meta EXCEPT !.parse = "parsed", !.text = @ + 1])
    /\ jobs' = Processing(jobs)
    /\ answered' = NoAnswers
    /\ UNCHANGED <<role, rev, evidence, archived, chunks, worker, asked, service>>
Correct(p) ==
    /\ p \in Corrected
    /\ ~Busy /\ asked = {} /\ rev > 0 /\ meta.text < MaxTextVersion /\ Bounded
    /\ pages' = [pages EXCEPT ![p] =
                   [mode |-> "manual",
                    blocks |-> <<[id |-> <<rev, p, -(meta.text + 1)>>, size |-> Transcript]>>]]
    /\ meta' = Queued([meta EXCEPT !.parse = "parsed", !.text = @ + 1])
    /\ jobs' = Processing(jobs)
    /\ evidence' = {} /\ archived' = (archived \/ evidence # {})
    /\ answered' = NoAnswers
    /\ UNCHANGED <<role, rev, chunks, worker, asked, service>>

\* POST /projects/{id}/interpretation reads the same text again.
Interpret ==
    /\ role = "tender" /\ ~Busy /\ asked = {} /\ service # "off" /\ ParseSettled
    /\ meta.ai \notin {"queued", "running"} /\ meta.text < MaxTextVersion /\ Bounded
    /\ meta' = Queued([meta EXCEPT !.text = @ + 1])
    /\ jobs' = Processing(jobs)
    /\ answered' = NoAnswers
    /\ UNCHANGED <<role, rev, pages, evidence, archived, chunks, worker, asked, service>>

\* POST /jobs/{id}/cancel.
Cancel(kind) ==
    /\ asked = {} /\ Active(jobs[kind]) /\ ~jobs[kind].cancel
    /\ IF jobs[kind].status = "queued"
       THEN /\ jobs' = [jobs EXCEPT ![kind] = NoJob]
            /\ meta' = IF kind = "parse" THEN [meta EXCEPT !.parse = "canceled"]
                                         ELSE [meta EXCEPT !.ai = "canceled"]
       ELSE /\ jobs' = [jobs EXCEPT ![kind].cancel = TRUE]
            /\ UNCHANGED meta
    /\ UNCHANGED <<role, rev, pages, evidence, archived, chunks, worker, asked, service, answered>>

\* The configuration is saved, or the services are restarted with calls allowed or not;
\* resume_pending_documents queues what waited for it, or lacks its vectors.
Configure(s) ==
    LET pending == meta.ai \in {"pending", "waiting_api", "waiting_config"}
        unindexed == /\ role = "evidence" /\ meta.ai \in {"ready", "needs_review"}
                     /\ meta.embedding # s
        resumed == /\ s \in Embeddings /\ meta.auto /\ rev > 0
                   /\ pending \/ unindexed
                   /\ meta.parse \notin {"queued", "running", "failed", "canceled"}
    IN /\ s # service /\ asked = {}
       /\ "off" \in {s, service} => ~Busy
       /\ service' = s
       /\ meta' = IF resumed THEN [meta EXCEPT !.ai = "queued", !.auto = TRUE] ELSE meta
       /\ jobs' = IF resumed THEN [jobs EXCEPT !.process = Enqueued(@, s)] ELSE jobs
       /\ UNCHANGED <<role, rev, pages, evidence, archived, chunks, worker, asked, answered>>

Init ==
    /\ role \in Roles
    /\ rev = 0
    /\ pages = [p \in Pages |-> NoText]
    /\ meta = [parse |-> "none", ai |-> "none", auto |-> FALSE, text |-> 0,
               read |-> NothingRead, index |-> 0, embedding |-> "none"]
    /\ evidence = {} /\ archived = FALSE
    /\ chunks = [rev |-> 0, fragments |-> {}]
    /\ jobs = [parse |-> Enqueued(NoJob, "none"), process |-> NoJob]
    /\ worker = Idle /\ asked = {}
    /\ service \in {"off", "unconfigured"} \cup Embeddings
    /\ answered = NoAnswers

\* The model's answers: nothing, a finding in the last block of the batch, or one that cannot
\* be located, each with or without a fact for the reading.
Answers ==
    LET batch == Batches(worker.batch[1])[worker.batch[2]]
    IN /\ At("read") /\ worker.batch # <<>>
       /\ \E findings \in {{}} \cup {{f} : f \in Findings(<<Last(batch)>>)},
             reading \in SUBSET Facts, split \in Splits(batch) :
             Answer(findings, reading, split)

Next ==
    \/ BeginParse \/ FinishParse
    \/ BeginProcess \/ Transcribe \/ Ask \/ Answers
    \/ ReadDone \/ Index \/ Embed \/ Finish
    \/ Complete \/ StopProcess
    \/ \E crash \in BOOLEAN : StopParse(crash)
    \/ Reparse \/ ProcessRead \/ ProcessStore \/ Interpret
    \/ \E p \in Pages : Correct(p)
    \/ \E kind \in {"parse", "process"} : Cancel(kind)
    \/ \E s \in {"off", "unconfigured"} \cup Embeddings : Configure(s)

Spec == Init /\ [][Next]_vars

-----------------------------------------------------------------------------
(***************************************************************************)
(* Properties.                                                             *)
(***************************************************************************)
BlockIds == UNION {{<<r, p, n>> : n \in -MaxTextVersion .. Len(Layout[p])} :
                      r \in 1 .. MaxRevision, p \in Pages}
BatchIds == Pages \X (Nat \ {0})

\* Every variable has its type, and a job is shown as running exactly while the worker is
\* at it (process_document_job, and the deduplication that keeps a running job).
TypeOK ==
    /\ role \in Roles
    /\ rev \in 0 .. MaxRevision
    /\ \A p \in Pages :
          /\ pages[p].mode \in {"none", "text", "needs_vision", "vision", "manual"}
          /\ {b.id : b \in Range(pages[p].blocks)} \subseteq BlockIds
    /\ meta.parse \in {"none", "queued", "running", "parsed", "failed", "canceled"}
    /\ meta.ai \in {"none", "pending", "waiting_api", "waiting_config", "queued", "running",
                    "ready", "needs_review", "failed", "canceled"}
    /\ meta.text \in 0 .. MaxTextVersion /\ meta.read.batches \subseteq BatchIds
    /\ meta.read.entries \subseteq [what : Statements, block : BlockIds]
    /\ evidence \subseteq [what : Statements, block : BlockIds] /\ archived \in BOOLEAN
    /\ \A copy \in asked : copy.text = meta.text
    /\ \A k \in {"parse", "process"} :
          /\ jobs[k].status \in {"none", "queued", "running"}
          /\ jobs[k].attempts \in 0 .. MaxAttempts
          /\ jobs[k].status = "running" <=> Busy /\ worker.job = k
    /\ service \in {"off", "unconfigured"} \cup Embeddings

Settled == meta.ai \in {"ready", "needs_review"}

\* A document that is shown as ready has been read whole: every position of every block
\* in force was in a batch whose answer was saved, whatever was split, cut in fragments,
\* transcribed, corrected, failed and resumed before (process_document_job).
ReadyMeansRead ==
    Settled => AllPositions(BlocksInForce) \subseteq
                   Positions(UNION answered.read)

\* What analyses get from a document that is ready quotes its present text: the cached
\* requirements, and the facts recall_evidence finds, active and of this revision.
FindingsCiteTextInForce ==
    Settled =>
        {f.block : f \in meta.read.entries \cup evidence} \subseteq {b.id : b \in BlocksInForce}

\* A batch whose answer is saved is not paid for again in the same text, after any failure,
\* crash, cancellation or resumption, except one that POST /process has stored older
\* metadata over, which an answer stored later may still bring back.
SavedBatchesNotAskedAgain ==
    Busy /\ worker.job = "process" /\ worker.batch # <<>> =>
        Shown(worker.batch) \notin answered.read \ answered.lost

\* A quotation that could not be located leaves the document to be reviewed, also when the
\* job that met it failed later and another one finished the document, unless the model was
\* asked the same batch again and quoted what is there.
UnmatchedStaysReported ==
    meta.ai = "ready" => answered.unmatched = {}

\* The index of a ready document holds its present text, every position of it, and
\* nothing else (index_document).
IndexIsOfPresentText ==
    Settled => Positions(chunks.fragments) = AllPositions(BlocksInForce)

\* Requirements that were saved stay until the text is another one: no failure, crash,
\* cancellation or configuration takes them away, and of the requests only POST /process
\* when it stores the older metadata it had read.
OlderStored == asked' = {} /\ \E copy \in asked : meta'.read = copy.read
SavedRequirementsStay ==
    [][rev' = rev /\ meta'.text = meta.text /\ meta.read.rev = rev /\ meta.read.text = meta.text
          => meta.read.entries \subseteq meta'.read.entries \/ OlderStored]_vars

\* PROJECT_STATE.md: facts for the reading are saved with the batch they come from.
ReadingSavedWithBatch ==
    role = "tender" /\ meta.read.rev = rev /\ meta.read.text = meta.text =>
        answered.reading \subseteq meta.read.reading
=============================================================================
