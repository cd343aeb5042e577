# TLA+ models of rag-tender

rag-tender reads tender documents and an enterprise's own material, has a
language model extract the tender's requirements, decides for each whether the
enterprise meets it, and proposes how to fill in the bid forms. A FastAPI
process serves the browser, one worker process does everything slow, and the
two share nothing but a SQLite database.

This directory holds TLA+ specifications of the parts whose correctness depends
on the order of events, the TLC configurations that check them on small
instances, and TLAPS proofs. Paths below are relative to `backend/app/`.

## The system

| component | state | operations | speaks to |
|---|---|---|---|
| job queue and worker (`services/jobs.py`, `worker.py`) | table `jobs`: status, attempts, lease, delay, dedupe key, cancel flag | enqueue, claim, recover, fail, cancel, complete; the worker's start and loop | everything slow is a job |
| job handlers (`services/handlers.py`) | `Document.metadata_json` (`parse_status`, `ai_status`), `AnalysisRun.status`, `FillPlan.status` | parse, AI ingestion, analysis, draft of a fill plan; several commits each | queue, scheduling, freshness |
| pipeline scheduling (`services/pipeline.py`) | `AnalysisRun` rows with `input_signature` | queue an ingestion, schedule, resume, catch up on start | called by the API, the handlers and the worker loop |
| freshness (`services/freshness.py`, `library.py`) | `Decision.stale`, `AnalysisRun.status`, plan and suggestion status | mark a project, an organization, a document stale | called by every edit and at the end of an analysis |
| decisions (`services/analysis.py`, `comparison.py`, `decision_engine.py`, `domain/rules.py`) | `Decision` rows | compare each requirement with the evidence, combine rule outcomes | handlers, recheck, requirement edits |
| requirement versions (`services/requirement_versions.py`) | `supersedes_id`, `condition_json._version` | resolve amendments, manual replacement relations | analysis, requirement edits |
| extraction (`services/extraction.py`, `material_extraction.py`) | requirements, evidence, progress in the document's metadata | batching, bounding, saving per batch | handlers, model gateway |
| checklist and review (`services/checklist.py`, `api/routes.py`) | `ChecklistItem`, `ReviewRecord` | rebuild items, review a decision, complete a run | decisions, fill plans |
| fill plans (`services/fill.py`, `suggestions.py`) | `FillPlan`, `FillTarget`, `FillSuggestion` | detect slots, create and rebuild plans, draft, review | checklist, freshness |
| API (`api/*.py`) | none between requests | edits, uploads, starts, resumes, cancels, deletions, reports | all of the above |
| parsing and index (`services/parser.py`, `ir_persistence.py`, `library.py`, `retrieval.py`) | revisions, pages, blocks; `SearchChunk` | replace a document's structure, index and embed it, recall records | handlers, decisions |
| model gateway, office preview, vision, exports, frontend | caches and files | pure I/O or computation | handlers and API |

What is hard about it:

- **Two processes, one database.** A request or a job reads rows, thinks, and
  writes by primary key. SQLite lets readers run beside a writer, a plain SELECT
  takes no lock, and the sessions do not expire what they have read.
- **A worker that may die anywhere,** is started again by a script, may be
  stopped while its successor already runs, and recovers by looking at rows
  that say "running".
- **Paid model calls** that must not be repeated behind the user's back, next to
  parses that are retried.
- **Cancel requests** that arrive at any point of a job.
- **Inputs that change while they are analysed,** and results that must not be
  believed afterwards.
- **Requirements that replace each other,** human reviews and drafts that are
  reopened.

For each component, what makes it correct: the queue never loses, repeats or
resurrects a job and keeps each record in step with its job; handlers leave
nothing half done; scheduling analyses the latest inputs and stops; freshness
never shows a result as good that rests on former inputs; versions form no cycle
and every clause in force is decided; extraction loses no block and no finding;
the checklist is empty exactly when a run is complete; a plan never loses a
human's entry.

## The modules

| module | what it is |
|---|---|
| `JobQueue` | the jobs table, the worker, the handlers' transactions, the API calls that submit and cancel jobs |
| `JobLifecycle` | the abstract promise about one job, implemented by `JobQueue` |
| `JobQueue_proofs` | theorems about `JobQueue`, for any number of workers and for one |
| `AnalysisFreshness` | inputs, edits, analysis runs, their scheduling and their staleness |
| `AnalysisFreshness_proofs` | theorems about `AnalysisFreshness` |
| `RunReview` | one analysis run: clauses and their relations, decisions, checklist, requests until nothing is open |
| `RunReview_proofs` | theorems about `RunReview` |
| `Iteration` | what a recursive function on numbers computes, as facts a proof can cite |
| `Rules` | conditions as trees: three-valued aggregation, certificate, number and date rules |
| `Comparison` | one requirement against a library of records, by rules alone and with the model's answer; extends `Rules` |
| `Comparison_proofs` | theorems about `Comparison` and `Rules` |
| `Extraction` | how text is cut: batches for the model, chunks for the search |
| `Ingestion` | one document from its parse to its requirements, facts and index; extends `Extraction` |
| `FillPlan` | a bid template's places: built, rebuilt, drafted, confirmed |
| `FillPlan_proofs` | theorems about `FillPlan` |
| `Ingestion_proofs`, `Reading_proofs` | theorems about `Ingestion`: what it stores and shows, and what it reads |
| `MCJobQueue`, `MCAnalysisFreshness`, `MCRunReview`, `MCComparison`, `MCIngestion`, `MCFillPlan` | constants for TLC |

How they fit together. `JobQueue` is the queue with all four kinds of jobs;
each of the others opens up what one kind does. `AnalysisFreshness` keeps of the
jobs table only the last job of each run and the order of the queued ones, which
is sound because analyses are never retried (`JobQueue`'s theorem ModelWorkOnce).
Conversely `JobQueue` leaves open whether `Schedule` finds reason to add an
analysis. `RunReview` opens up one of `AnalysisFreshness`'s runs; edits of the
inputs are a single action there, which marks the run. `Comparison` opens up the
`Decide` of both: what it yields for a clause in force is open there. `Ingestion`
opens up the parse and process jobs of one document, and `FillPlan` the draft
job of one plan, each with one worker and the last job of each kind: that such a
job is claimed once at a time is AtMostOneActive and ModelWorkNotRepeated of
`JobQueue`, and what is left of a crash is a failure, because `fail_running_jobs`
comes before anything else.

### JobQueue

One step is one database transaction, or one read a later transaction acts on.

- *Targets.* A job works on a document's parse, a document's AI ingestion, an
  analysis run or a fill plan; this target is also its dedupe key
  (`parse:<doc>`, `process:<doc>`, `analyze:<run>`, `draft:<plan>`).
  `targetStatus` stands for `parse_status`, `ai_status`, `AnalysisRun.status`
  and `FillPlan.status`, cut down to what recovery tells apart.
- *Time.* A lease is in force or over (`expired`), a retry delay is over or not
  (`delayed`). `Oldest` is `ORDER BY available_at, created_at` for jobs that
  were never claimed; a job that is tried again may come due anywhere.
- *Worker.* `Start`, `BootRead`, `BootWrite` are `main` and `fail_running_jobs`;
  `Schedule` at the label "resuming" is `resume_pending_documents`; `FailExhausted`,
  `RecoverRead`, `RecoverWrite`, `Claim`, `NothingToClaim` are one turn of
  `worker_loop`; `CheckCanceled` to `FailWrite` are `_process_one`. `Complete`
  and `FailWrite` write by primary key without looking at the row's status, as
  the code does; `BootWrite` and `RecoverWrite` act on what was selected before.
- *Handlers.* `Begin` is the commit that shows "running". `FinishParse` saves the
  parse and queues the ingestion in one transaction. `FinishModelWork` is the
  last commit of the other three. `Raise` is any exception, at any await.
- *API.* A call is `RequestRead` or `CancelRead`, then the commit. Checks belong to the
  read; deduplication belongs to the commit where a flush has taken the write
  lock before (`queue_document_processing`, reparse, upload, draft) and to the
  read for analyses, which flush nothing before they insert. A call that is
  never committed is an API process that died.
- *Left out.* Deletion of jobs, documents and projects; that a model is
  configured; progress, stage texts, errors and results. If two active jobs
  share a key, `scalar_one_or_none` raises and the request changes nothing: no
  step. Documents shared with the enterprise's library behave like any other.

### AnalysisFreshness

- *Inputs.* The state of a project's inputs is a number, its input signature
  (`project_inputs`). Every edit makes a new one; "plain" edits may also return to
  an earlier one, since the signature holds project and bid fields by value.
- *Edits.* They differ in when they take the write lock. "stamped" ones
  (`update_evidence`, `create_response_value`, `update_response_value`,
  `create_bid`, a finished ingestion) flush first, so mark, write and schedule
  are one step; "silent" is `create_evidence`, which schedules nothing; "plain"
  ones (`update_project`, `update_bid`, `delete_evidence`,
  `delete_response_value`) select the runs to mark before they hold the lock, and
  are two steps. An edit concerns one project or, for the enterprise's library, all.
- *Runs.* Each has its status, signature, last job, and `basis`: the states of
  the inputs on which its decisions not marked stale rest. `Compare` adds the
  present state or one the session has loaded before (`known`): `decide_run`
  reads rows once and the session keeps them.
- *Scheduling.* `NeedsAnalysis` is `schedule_analysis(automatic=True)`: no active
  job and another signature than the latest run's. Inside an edit it is one
  step with the edit; in the worker (`ScheduleRead`, `ScheduleInsert`) and for a user
  (`StartRead`, `StartCommit`) the read and the insert are apart.
- *End of a run.* `Finish` holds the lock: it computes the signature again,
  and marks the project if it differs. `Complete` completes the job, after
  which the worker loop schedules again.
- *Left out.* Readiness of documents (all are ingested), enrolment, inactive
  projects, changes of the model configuration, manual workbench runs, reviews and
  rechecks that clear a mark, the comparison that ends `draft_fill_plan`, deletion
  of runs, and two resumptions of one run at once (JobQueue has them). The single
  transaction in which a starting worker schedules all projects is split per project.

### RunReview

A clause is a number. Steps are transactions as before; a request that commits
twice (`update_requirement` through `decide_run`, `update_checklist`,
`recheck_rules`) is seen between its commits.

- *Relations.* `version` is `condition_json._version`: what a clause replaces, what
  it contradicts, and whether that was settled. `Replaced`, `Replacer` and
  `InConflict` are `version_state`. The model's answer about an amendment is
  any set of replaced and of contradicted clauses before it.
- *Decisions.* `summary` keeps why a decision says what it says: replaced by that
  clause, in conflict, compared, edited, reviewed by a person, or added.
  For a clause in force, what the comparison yields is open.
- *Sessions.* What a request has loaded stays in `calls`, what the worker has
  loaded in `worker`; `Written` and `WrittenRun` write the columns a session has
  changed, `Seen` are the decisions it goes on with.
- *Analysis.* `Begin`, `Resolve` per amendment, `BeginDeciding`, `Decide` per
  clause, `Plan`, `Finish`; `Fail` at any point, from where it may be resumed. A
  resumed analysis keeps the plan there is, also one a request has built.
- *Requests.* Relation edits, other edits of a clause, reviews, ticks of the
  checklist, rechecks, clauses added by hand, reviews of suggestions, plans built
  or rebuilt, refreshes, resumptions, edits of the inputs. Each but the last reads
  (`...Read`) and commits (`...Commit`, `...Finish`). An edit of a clause changes
  its text, or sends `condition_json` whole: `EditCommit` then drops `_version`
  (`Stripped`), of which `supersedes_id` keeps one clause at most.
- *History.* `missed` are the clauses whose standing such an edit changed, by itself or
  by having the amendment resolved again, and that were not decided since; `outrun` says that an
  amendment was resolved after the places were linked. Two properties except these.
- *Left out.* Rejected clauses (the frontend never sends that status), a
  `condition_json` sent with a `_version` of its own, a relation edit that sends
  `condition_json` too, coverage notes, drafting of plans, manual places to fill, several
  templates, several amendments in one document, clauses added by hand to an addendum.

### Rules and Comparison

- *Conditions* are trees, a function from paths to leaves and groups.
  `EvaluateCondition` gives every path its status, from the leaves to the root, and
  `AggregateStatus` combines them as `evaluate_condition` does: an `all` with a failing part
  fails, an `any` with a passing part passes, otherwise unknown parts count.
- *Facts* have a key, a unit, and sets with the number, the date and the names that were
  found in their text (empty where the column is); amounts convert, other units compare with
  themselves only. Dates are numbers.
- *Recalling.* `Recalls` are the sets of records a search may return: as many of the kind
  asked for as `Limit` allows, whichever rank first; where no kind is asked for, any that score
  enough. Scores are open. The limit is 16 to 64 in the code and grows with the count a
  requirement asks for; its ends are constants, 1 and 2 in the run, so that records are left out.
- *Malformed conditions.* `condition_json` is stored unchecked. A leaf in `malformed` has a
  value its rule cannot convert: `Raises` says when that rule is reached, and then the
  requirement keeps the decision it had, so `Compare` and `Recheck` are no steps. An
  `unreadable` condition raises before any record is looked at. What stands in the model for a
  value that cannot be converted is never read.
- *Comparing.* `CompareJoint` groups them by holder and, for persons, products and
  projects, by subject, and judges each group; `ComparePerformance` merges
  records of one project and counts projects. `Validated` is what is left of
  the model's answer once ids and quotations are checked; `ModelDecision` and
  `RuleDecision` are what is saved.
- *Steps.* Records are supplied and withdrawn; the requirement is compared with
  any answer of the model, or rechecked, after each change.
- *Left out.* Reasons and their wording, confidence, prompts; values that are infinite or
  not a number, and counts that are fractions (numbers are whole, in the smallest unit).
- *The properties* speak of the records recalled, which `decision` keeps. They say again what a proof is, without the code's three values, groups, keys,
  smallest and largest values: a condition `Holds` if some set of its nodes contains the root,
  the leaves that are proven and no others, and a group exactly if its parts make it true.

### Extraction and Ingestion

- *Text.* A block has an identity and a size; a fragment is an interval. Whether
  a position was read is then a question about intervals, not characters.
  `BlockBatches` is `_block_batches` with `MAX_BLOCKS_PER_BATCH` and
  `MAX_BATCH_CHARS` as constants, `Chunks` the windows of `index_document`.
- *Metadata.* `meta` is `Document.metadata_json` as one value. A handler keeps
  the copy it read (`worker.meta`), changes that and stores it whole; what a
  request stored meanwhile would be lost, which is why `ProcessRead`, `ProcessStore` and
  `Configure` may act while the worker is busy.
- *Handlers.* `BeginParse`, `FinishParse`; `BeginProcess`, `Transcribe` per
  scanned page, `Ask` and `Answers` per batch, `ReadDone`, `Index`, `Embed`,
  `Finish`; `Complete`, `StopParse`, `StopProcess` for the end of a job, which also stand for
  a crash and the restart after it. A batch's answer and its checkpoint are one commit.
- *The model* answers nothing, a finding in the batch's last block, or a
  quotation that is not there, with or without a fact for the reading, in one
  piece or cut off any number of times (`Splits`).
- *Requests.* Reparse, process, correct a page, interpret, cancel, and changes
  of the configuration with what `resume_pending_documents` does about them.
  `POST /process` does not ask whether the document is being read, and awaits the
  configuration between reading the metadata and storing them: `ProcessRead` keeps
  the copy in `asked`, `ProcessStore` stores it over whatever the worker has
  saved meanwhile.
- `answered` is history: what was answered since the text last changed, and of that what
  `ProcessStore` has stored older metadata over (`lost`).
- *Left out.* Sharing and uploading again, the labelling of scanned templates,
  rendering, the wording of notes, answers of a document's text other than requirements,
  reading items and facts, two requests at once on one document. A request other than
  `POST /process` is one step; for `resume_pending_documents`, which reads and stores like it,
  that leaves out a store over what the worker saved.

### FillPlan

- *Places.* `slots` says which places were located, added or ignored, `moved` how often one was
  changed; `targets` has the suggestion of each. "proposed" stands for
  missing evidence, too. A target's `basis` is history: the inputs, the
  requirements and the state of the place it was drafted from.
- *Rebuilding.* `Build` is `create_fill_plan` and `rebuild_fill_plan`: every
  target is a new row, reviewed suggestions are copied, the rest starts again.
- *Drafting.* `BeginDraft` loads what is open and binds response values,
  `SkipPage`, `AskPage` and `SavePage` are one page, `EndDraft` the commit that
  shows "drafted", `CheckInputs` the comparison of signatures in
  `draft_fill_plan_job`, `Complete` and `Stop` the end of the job. A page's
  checkpoint holds for a `Signature` of requirements and targets.
- *Requests.* Build, add, move, remove, review, draft, cancel, and edits of the
  inputs (at any time) and of a requirement, which reopen what was confirmed.
- *Left out.* Geometry, rendering, sources of a value beyond "a response value
  alone", a template that is parsed again, drafts that are part of an analysis.

## The runs

Times are for two TLC workers on a small machine.

| run | instance | checks |
|---|---|---|
| `jobs` | a document and the analysis its ingestion leads to, 3 jobs, 1 crash or stop, 1 caller; under 2 minutes | AtMostOneActive, FinishedJobMatchesTarget |
| `settle` | a document, 2 jobs, 2 crashes, fairness | JobQueue implements JobLifecycle, JobsSettle |
| `two_workers` | a document, 2 jobs, 2 overlapping workers | TypeOK, ModelWorkNotRepeated, ModelJobHasOneWorker |
| `edits` | 2 projects, 1 automatic, 2 runs each, 2 edits, 1 crash, 1 caller | TypeOK, FreshResults |
| `rerun` | 1 project, 4 runs, 3 edits, 2 crashes | NoRerunOfSameInputs |
| `follow` | 1 project, 5 runs, 2 edits, 1 crash, fairness | LatestFollowsInputs |
| `review` | 2 extracted clauses, 1 of them an amendment, 1 added, 1 place to fill, 2 requests one after the other, plans asked for included, 1 resumption | TypeOK, CompletedRunHasNothingOpen, DecisionsFollowVersions, PlacesLinkedToClausesInForce, NoCycle, RelinkingEnds, UnrelatedConclusionsKept |
| `compare` | 10 well-formed requirements and 3 malformed ones, 13 records, libraries of up to 2, of which 1 or 2 are recalled, any answer of the model; about 2 minutes | TypeOK, RecheckIsExact, MetIsProvenAndQuoted, ModelNeverOverridesRules, MoreEvidenceNeverRefutes |
| `ingest` | a tender or a proof, a page with a short block and a blank one, and a scanned page whose transcription may be corrected, 2 revisions or 1 changed text, 1 attempt of a parse, one `POST /process` at a time beside the worker, a configuration that comes and goes; 2 to 3 minutes | TypeOK, ReadyMeansRead, FindingsCiteTextInForce, SavedBatchesNotAskedAgain, UnmatchedStaysReported, IndexIsOfPresentText, SavedRequirementsStay |
| `fill` | 3 places on 2 pages, 1 edit of the inputs and 1 of a requirement, 1 move, 2 builds, any number of drafts; under 2 minutes | TypeOK, FinishedDraftIsComplete, DraftedPlanIsFresh, ConfirmedValuesKept, ReviewsSurviveRebuild |
| `plain_edit`, `split` | the smallest that show it | a property that does not hold, see below |

What the passing runs show:

- **AtMostOneActive**: with one worker, no document is parsed or ingested twice
  at a time, however requests, cancels and recovery interleave. Jobs somebody
  asked to cancel are excepted, because a cancel that reads "queued" and
  writes after the claim lets a retry put the canceled job back.
- **FinishedJobMatchesTarget**: job and record are settled together, so a
  document never reads "running" after its job failed, nor "failed" after it completed.
- **ImplementsLifecycle**: nothing brings a settled job back and no job is taken
  more often than `max_attempts`. With two workers this is false: the
  unconditional `Complete` of an old worker can overtake a recovery.
- **JobsSettle**: every job ends.
- **ModelWorkNotRepeated, ModelJobHasOneWorker**: even with overlapping workers,
  a job that calls the model runs once and in one place. Parses may be shared
  and repeated; that is the code's design.
- **FreshResults**: a run shown as completed or to be reviewed has no unmarked
  decision on inputs other than the present ones, for edits that lock first.
- **NoRerunOfSameInputs**: automatic analysis terminates: failures and
  follow-ups never add a run on the inputs the last run had.
- **LatestFollowsInputs**: an automatic project's latest inputs are eventually
  analysed. Once an analysis has failed or was canceled nothing is owed: an edit
  that arrives while a run is active is skipped, and a run that fails is
  followed by no scheduling until the next edit or restart.
- **CompletedRunHasNothingOpen**: a run reads completed only when its
  checklist is done, all places are dealt with, and what is not met was ticked off.
- **DecisionsFollowVersions**: after any edit of relations a decision that nobody
  took by hand and nothing marked stale says what becomes of the clause now; an
  edit decides enough clauses again. Excepted are clauses whose standing changed because
  `condition_json` was sent without its relations, until they are decided again.
  **UnrelatedConclusionsKept**: and not too many.
- **PlacesLinkedToClausesInForce**: places to fill follow the relations,
  also when the analysis that linked them failed and was resumed, unless amendments
  were resolved after a plan was built.
- **NoCycle**: one edit at a time cannot make clauses replace each other in a circle.
  **RelinkingEnds**: so the loop that follows replacements from a place's clause stops at one
  that nothing replaces.
- **RecheckIsExact**: what the rules conclude of the records recalled is exactly what a second,
  two-valued account of a proof says: met if the records of one subject prove enough leaves, not met if no subject could.
- **MetIsProvenAndQuoted, ModelNeverOverridesRules**: "met" with the model takes
  the rules' proof where they can tell, and for every condition the model's support with a
  quotation that exists from every record it cites; what the rules refute is never met.
- **MoreEvidenceNeverRefutes**: what is found not met would not have been met on fewer of the
  records recalled. A record that takes another's place under the limit of the recall may well turn
  met into not met.
- **ReadyMeansRead**: a document shown as ready has been read whole, after splits,
  fragments, transcriptions, corrections, failures and resumptions.
- **FindingsCiteTextInForce, IndexIsOfPresentText**: what analyses use of it, and what the
  search finds, is its present text.
- **SavedBatchesNotAskedAgain, SavedRequirementsStay, UnmatchedStaysReported**:
  a failure neither repeats paid work, nor loses it, nor forgets that a quotation was not found.
  The first two name one exception, a `POST /process` that stores the metadata it had read
  before a batch was saved; the last and ReadyMeansRead hold through that too.
- **FinishedDraftIsComplete**: pages a resumed draft skips were drafted for the places
  and requirements as they are now. **DraftedPlanIsFresh**: and a plan shown as
  drafted for the present inputs.
- **ConfirmedValuesKept, ReviewsSurviveRebuild**: drafts and rebuilds leave alone what a person
  has confirmed; a rebuild also what has been reopened since.

Bounds. Three jobs let one target have a finished, an active and a competing
job, and end before a draft or a resumed analysis, of which the theorems speak; two crashes let recovery itself be interrupted; three attempts of a parse
are all used. Two edits allow a change and a change back, and a run between
them; five runs are more than two edits, a crash and failures lead to. Two requests
suffice for an edit of relations and what is done about it; three clauses for a chain
of replacements. Requests follow one another in `review`: with two at once two edits of relations can close a cycle
together, and with it fails what rests on rows loaded before a lock. In `compare` two
records are of one subject or two, or of one project or two, and a limit of 1 or 2 leaves out
a record or none; the theorems have libraries and limits of any size. In `ingest` the sizes are scaled down (batches of 2
blocks or 3 characters, windows of 3) so that a batch is full and may be split, and blocks of
no, one and several fragments in any order are put through the batches and windows by the
assumption `BlocksOfAnySize`; two revisions and a changed text let a checkpoint be of a former
either; a parse that fails once fails for good, and its repetition is checked in `jobs`, `settle`
and by the theorems of `Ingestion_proofs` and `Reading_proofs`, which have any number of attempts; the scanned page is the
one corrected, after which both ways to its text are in force. In `fill` one edit
of each kind suffices for a draft to be overtaken, one move to invalidate a page, and a second
build to renew ids; the theorems say the rest. All bounds
(`MaxClauses`, `MaxRequests`, `MaxResumes`, `MaxJobs`, `MaxHalts`, `MaxRuns`, `MaxManual`, `MaxVersions`, `Callers`,
`MaxRecords`, `MaxRevision`, `MaxTextVersion`, `Corrected`, `MaxAttempts`, `MaxInputs`, `MaxRequirements`, `MaxBuilds`, `MaxMoves` with `Movable`) only
disable steps; runs of safety properties stop at them, so deadlock is not checked.
In a live run no bound can be what holds a property up: once jobs or edits are
used up, the system still has to settle what exists. Symmetry
is used for workers in a run of invariants only.

Fairness. A worker that can step does (asyncio schedules it, the poll has a
timeout, handlers end); a worker that is down is started again (`start.sh`
starts it unless it runs); leases and delays run out. Nothing obliges the API or a
user to act, so no call need ever commit. In `AnalysisFreshness` `Compare` and
`RunFails` have no fairness: an analysis need not fail.

## Where code and documents part

- `plain_edit`: `update_project` and three other edits call `mark_project_stale`
  before their session holds the write lock (`api/routes.py:257`); an analysis of
  the former inputs that ends in between stays unmarked (PROJECT_STATE.md:62).
- `split`: `_extract_bounded_batch` joins the answers of a split batch without
  their `reading_items` (`services/extraction.py:527`); the batch is saved as done,
  so they are lost (PROJECT_STATE.md:154).

Seen while modelling and kept as hazards, without a run:

- `request_cancel` settles a job it read as queued; if the worker has claimed it
  meanwhile, the handler sets the record to "running", and a crash leaves it so,
  because recovery selects running jobs (`worker.py:19`).
- `create_evidence` marks analyses stale and schedules none (`api/routes.py:851`); the run
  `follow` holds for edits that schedule.
- A relation edit or a clause added by hand sets a FAILED run to NEEDS_REVIEW; it can then
  be completed with clauses never decided, and no longer be resumed
  (`services/analysis.py:109`, `api/offline.py:183`).
- A cancel request between the commit of a parse and the last check of
  `_process_one` (`services/jobs.py:294`) cancels the parse but not the ingestion
  that commit queued; PROJECT_STATE.md:145 says that the checks prevent this.
- An analysis that fails after its inputs changed keeps its saved decisions
  unmarked (`services/jobs.py:340`).
- Who adopts the tender's clause over the addendum's retires the addendum's, whose
  recorded contradiction keeps the adopted one in conflict
  (`services/requirement_versions.py:48`).
- An edit of the inputs reopens confirmed suggestions, and the next draft replaces
  their values (`services/suggestions.py:228`); PROJECT_STATE.md:134 says that what a person
  confirmed is kept.
- A rebuild replaces unreviewed drafts by blanks while the plan still reads
  drafted (`services/fill.py:373`, `api/routes.py:1150`).
- If the model supports a condition with a record that fails it, records it did
  not name are not looked at, and the requirement is not met (`services/comparison.py:412`).
- `POST /process` has no idle check (`api/library.py:370`) and stores metadata it read before an
  await (`services/pipeline.py:59`, `:79`): a batch the worker has saved in between is erased, and paid for
  again if the job then fails. README.md:152 of the repository says that ingesting again reuses the
  batches that are finished. SavedRequirementsStay and SavedBatchesNotAskedAgain except it.
- A fill plan can be asked for on a failed run before its amendments are resolved
  (`api/routes.py:1127`), and the resumed analysis keeps it (`services/handlers.py:356`), so that a place
  stays linked to a clause that has been replaced; PROJECT_STATE.md:157 says that places follow the clause in
  force. PlacesLinkedToClausesInForce excepts it.
- An edit of a clause that sends `condition_json` whole drops `_version` (`api/routes.py:651`) and decides
  no other clause again: the one it was in conflict with keeps reading so. The frontend does not send the field.
  DecisionsFollowVersions excepts it.
- `condition_json` is stored unchecked, and a value that cannot be converted raises
  (`domain/rules.py:170`, `services/comparison.py:528`): the requirement keeps the decision it had.
- A comparison looks at the 16 to 64 records that rank first (`services/retrieval.py:214`): a further
  record can push out the only one that proves a requirement, and turn met into not met.
- An API process that dies between the two commits of `update_requirement` or `recheck_rules` leaves the
  checklist as it was (`api/routes.py:685`); CompletedRunHasNothingOpen speaks of no state between the two.

## The proofs

The assumptions are those the modules name, such as `KindAssumption` and
`BoundAssumption` of `JobQueue` (what kind and base a target has, that
bounds are numbers). A theorem that needs more says so in its hypotheses; for each such
hypothesis TLC shows on a small instance that the property is false without it.

**`JobQueue_proofs`**, for any numbers of workers, callers, targets, jobs and crashes:

- *TypeCorrect*: the type invariant. One lemma for each operator the steps are built
  of (SettleFacts, InsertFacts, EnqueueFacts, CallsFacts), then one
  step per action.
- *ModelWorkOnce*, *ModelWorkAlone*: ModelWorkNotRepeated and
  ModelJobHasOneWorker. Neither is inductive: that a job is not claimed again
  rests on what recovery has read earlier. `ModelInv` adds
  that the table tells of every attempt (AttemptsTold), that what a worker holds is a
  claimed row (HeldIsSpent), and that no model job is ever selected for
  requeueing or on its way to be tried again (NoSecondChance). A claim needs an
  unspent attempt, and a model job has one; so nobody else can hold it.

The same module, for one worker (`OneWorker`) and any numbers of callers, targets, jobs,
crashes and restarts:

- *OneActiveJob*, *RecordsMatchJobs*, *QueueImplementsLifecycle*: AtMostOneActive,
  FinishedJobMatchesTarget and the refinement of `JobLifecycle`. With two
  workers all three fail: an old worker writes by primary key what another has recovered.
- The invariant says that the only worker knows of everything that runs: a running row is the one
  it holds, or left over from before its start and about to be failed, or about to be requeued. What is
  queued has an attempt left; a job is followed by another for its
  target only when it is over or somebody asked to cancel it; and what the worker selected
  earlier and has yet to write was not overtaken. Then every write by primary key
  finds the row as it was read, and each step is one step of the abstract life of
  the job it writes to, and leaves the others as they are.

**`AnalysisFreshness_proofs`**, for any numbers of projects, runs, edits, crashes and callers:

- *TypeCorrect*: TypeOK, for edits of all kinds. It rests on more than types (`Shape`): the
  queue holds exactly the runs that wait and none twice (InQueue), the job a worker is at is running
  (AtWork), and while a call is about to resume a run no other is, and nothing works on it (CallsOK).
- *LockedEditsKeepResultsFresh*: FreshResults, if no edit is "plain". The run `plain_edit` shows
  that the assumption is needed. States of inputs are numbered in
  the order in which they come to exist. The decisions of a run rest on states
  between its signature and now (GoodRuns), and so do the rows the worker has loaded
  (GoodWorker), a pending plan and a pending start (GoodPlan, GoodCalls). At the end of
  an analysis, either its signature is the present state and all decisions rest
  on it, or everything is marked; an edit marks what is shown in the step
  that changes the inputs; while it works, the worker's run is not shown.
- *NothingIsRepeated*: NoRerunOfSameInputs, if no edit is "plain" and nobody starts a run by
  hand. What the worker plans to insert is news to the latest run of its project when it
  plans it and still when it inserts it (PlanIsNews), because inputs do not return to a
  former state. Both assumptions are needed: an edit and one that takes it back
  between plan and insert, or a user's start there, leave two runs of the same inputs.

**`RunReview_proofs`**, for any clauses, places, requests and resumptions:

- *RowsFitTogether*: TypeOK, with any number of requests at once.
- The others assume one request at a time (`OneCaller`): two that both read before either
  commits can close a circle together, and what they decide rests on rows that
  are no longer so.
- *ReplacementsAcyclic*: NoCycle. `Reach` is shown to be the least set closed under
  replacement; the guard of an edit of relations then refuses exactly what would close a circle, and before
  anybody edits, amendments replace only what comes before them.
- *RelinkingTerminates*: RelinkingEnds. A chain of replacements that is longer than there are clauses
  would name one twice (pigeonhole), which NoCycle excludes.
- *DecisionsKeepUp*, *PlacesStayLinked*, *CompletedMeansDone*, *ConclusionsSurviveEdits*:
  DecisionsFollowVersions, PlacesLinkedToClausesInForce, CompletedRunHasNothingOpen and
  UnrelatedConclusionsKept. What a request or the worker has loaded is related to
  what is stored, and what it has not yet written is accounted for. `missed` and `outrun`
  say which decisions and links the first two leave out, and the proofs show that nothing
  else falls behind: an edit that drops relations is made good by the next decision
  about each clause, and a plan built on a failed run is sound until an amendment is
  resolved after it, or again once relations are edited or the plan is rebuilt.
- `Iteration` says what a function defined by recursion on numbers computes: each of its
  values follows from the one before, and a set of numbers that has a member has a least one (the library's
  NatLessThanWellFounded and WFMin), which stands in for induction. This is how `Reach`
  and the relinking loop are reasoned about.

**`FillPlan_proofs`**, for any places, pages, inputs and bounds:

- *TypeCorrect*, *ReviewsStand* and *ConfirmationsStand*: TypeOK,
  ReviewsSurviveRebuild and ConfirmedValuesKept. The last needs that the places
  a draft has loaded are not confirmed while it runs, which holds because requests on the plan
  are refused while a job is active (`Guarded`).
- *DraftsAreComplete*: FinishedDraftIsComplete. A skipped page rests on a
  checkpoint that an earlier job left. `Vouched` says what a checkpoint is worth:
  as long as the targets it names are there with these ids and moves, each was
  drafted under its requirements, or reviewed since. It survives rebuilds because ids only
  grow, and moves and edits because their counters only grow (`Dated`); `Progress`
  carries it over to the pages a running draft has passed.
- *DraftedPlansAreFresh*: DraftedPlanIsFresh, by `FreshPlan`: what an unfinished
  job has drafted rests on the job's inputs, and checkpoints are only taken over
  by a job of the same inputs.

**`Ingestion_proofs`**, for any layout, block, batch and window sizes, configurations,
answers of the model and bounds, from `SizeAssumption` (the sizes are numbers, a stride is
not longer than a window) and `PageAssumption` (the layout is sequences of sizes):

- *SavedRequirementsKept*: SavedRequirementsStay. A handler stores the whole of the metadata it
  read at its start, and `POST /process` what it had read before, so the invariant
  says how all copies of the metadata hang together: what the handler has found continues what it
  holds, that what is stored, and that what a request had read (`Continues`, `Ordered`), and
  the document is not shown as ready before a handler ends (`NotYetReady`).
- *IndexHoldsPresentText*: IndexIsOfPresentText. Chunks of the present revision and text are
  of whole pages and of none that still waits for its transcription (`Indexed`), and
  the windows of a block leave nothing out (WindowOfPosition: position n lies in window
  (n - 1) div stride). Every copy of the metadata that calls the index up to date must be right
  (`Truthful`).

**`Reading_proofs`**, on top of those, from `SizeAssumption`, `PageAssumption` and
`BoundAssumption` (what is counted is bounded by numbers):

- *TypeCorrect*: TypeOK. A job runs exactly while the worker is at it, and a parse that is queued
  has an attempt left (`Queueing`); what is found is placed on a page that the layout
  has (`Placed`).
- *ReadyDocumentsWereRead*: ReadyMeansRead. The fragments of a block leave no position
  out, the batches of a page divide its fragments and lose none (`Packed`, shown for the
  recursive function of `BlockBatches` with `Iteration`). So a position that was not read is in a
  batch that is not saved, and a handler does not end with one open (`GoesOn`, `ReadWhole`).
- *FindingsQuotePresentText*: FindingsCiteTextInForce. Blocks of different versions of the text are
  told apart by their ids (`Shaped`), and what is found cites blocks in force when it
  is stored and is dropped when they are replaced (`Cited`).
- *NothingIsPaidForTwice*: SavedBatchesNotAskedAgain. Every answer that is not lost is that of a
  batch saved now (`Remembered`); the handler goes on from what is saved and asks only for what is
  not (`GoesOn`), and no fragment is in two batches.
- *UnmatchedReported*: UnmatchedStaysReported. Every copy of what was read, stored, held by a handler
  or about to be stored by a request, notes a quotation that was not found if it has the batch it
  came from (`Sound`); a copy that has not does not let the document end before the batch is asked again.

**`Comparison_proofs`**, for conditions of any finite shape, libraries of any size, any facts
and any answers, from `RecordAssumption` (ids are keys, and names do not look like ids),
`FactAssumption` (a record has finitely many facts, whose numbers and dates are numbers),
`ConditionAssumption` (conditions are finite trees with a root; what the rules read is a number, but
for the leaves marked as malformed, which are not read) and `AnswerAssumption` (an answer
is about this requirement's conditions):

- *RechecksAreExact*: RecheckIsExact. A function defined by recursion on a finite tree has
  a solution, and what holds of a node if it holds of its children holds of all
  (`TreeRecursion`, `TreeInduction`, on the depth of the paths, with `Iteration`). So
  the root passes exactly if it `Holds` for the leaves that pass, and fails exactly if it does not
  for those that do not fail (`PassMeansHolds`, `FailMeansRefuted`). Each rule judges a
  leaf as the reference does, which says "all" and "some" where the code takes the
  smallest or largest value (`RuleIsExact`). Keys divide records into projects as `OneProject` does,
  so that the code's count is reached exactly if so many records of different projects are
  proven (`PerformanceIsExact`, by injections both ways), and into groups that are exactly the subjects
  (`GroupsAreSubjects`).
- *MetTakesBoth*: MetIsProvenAndQuoted. A check that supports after validation was given with
  quotations (`ValidSupport`), and a leaf that passes on the records selected for it
  is proven by them.
- *RulesPrevail*: ModelNeverOverridesRules. A leaf that passes is not contradicted by a record of its
  subject (`PassingLeafIsOpen`), and `Holds` is monotone in its leaves (`HoldsIsMonotone`), so
  what is met is not refuted.
- *EvidenceOnlyHelps*: MoreEvidenceNeverRefutes. More of the records recalled leave open what was open
  (`MoreIsOpen`), and what is met is open.
- *TypeCorrect*: TypeOK. The answer that is kept was given about the records of now, because every
  change of the library outdates the decision first; a comparison that raises decides nothing.

Only model-checked: the liveness properties JobsSettle and LatestFollowsInputs, which are out of
the proof system's reach, and the runs that expect a violation.

## Plan

Done: the modules above. Next, in this order:

1. `RunReview` with two requests at once: which of its properties survive that, or
   survive for requests of some kinds, and proofs of those.
2. The weaker claims that hold of `JobQueue` with two workers where AtMostOneActive and
   FinishedJobMatchesTarget do not.
3. Two requests at once on one document, and `resume_pending_documents` in `Ingestion` as the
   two steps it is.

Not modelled, and why: deletion of documents, analyses and projects (refused while jobs
run, and what it removes has no state afterwards) and sharing of documents; enrolment
of documents (an input of `AnalysisFreshness`); reading of files and page geometry,
where places to fill are found, ranking of search results, prompts, rendering, exports, evaluation,
the frontend and migrations, which are computation or I/O without an
order of events to get wrong.
