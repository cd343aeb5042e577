------------------------------ MODULE JobQueue ------------------------------
(***************************************************************************)
(* The persistent job queue of the backend: the jobs table, the worker     *)
(* process that drains it (worker.py, services/jobs.py), the handlers'     *)
(* transactions (services/handlers.py) and the API calls that submit and   *)
(* cancel jobs (api/routes.py, api/library.py, api/management.py).         *)
(*                                                                         *)
(* One step is one database transaction, or one read on which a later      *)
(* transaction acts: SQLite lets readers run beside a writer, and the code *)
(* updates rows by primary key, so what was read may be out of date when   *)
(* it is used.                                                             *)
(*                                                                         *)
(* Time is abstracted to two facts about a job: its lease is over          *)
(* ("expired"), its retry delay is not over yet ("delayed").  Jobs that    *)
(* were never claimed are claimed in order of creation; when a job that is *)
(* tried again comes due among them is left open.                          *)
(***************************************************************************)
EXTENDS Integers

CONSTANTS
    Workers,         \* worker processes that may run, possibly overlapping
    Targets,         \* what jobs work on: a document's parse, a document's AI
                     \* ingestion, an analysis run, a fill plan (= dedupe keys)
    KindOf,          \* the job kind of each target
    Base,            \* process target |-> parse target, plan |-> run, else None
    None,
    LiveModelCalls,  \* settings.live_model_calls
    MaxJobs,         \* bound: rows ever inserted into the jobs table
    MaxHalts,        \* bound: worker crashes and stops
    Callers          \* bound: API calls that may be in flight at once

Kinds == {"parse_document", "process_document", "analyze_project", "draft_fill_plan"}

ASSUME KindAssumption ==
    /\ KindOf \in [Targets -> Kinds]
    /\ Base \in [Targets -> Targets \cup {None}]
    /\ None \notin Targets /\ None \notin Nat
ASSUME BoundAssumption ==
    /\ MaxJobs \in Nat /\ MaxHalts \in Nat
    /\ LiveModelCalls \in BOOLEAN

Jobs == 1 .. MaxJobs        \* job ids, in order of creation

VARIABLES
    status,          \* Job.status, "NONE" while the row does not exist
    target,          \* what the job works on (Job.payload, Job.dedupe_key)
    attempts,        \* Job.attempts
    cancelRequested, \* jobs whose Job.cancel_requested is true
    expired,         \* running jobs whose lease_until has passed
    delayed,         \* jobs whose available_at lies in the future
    targetStatus,    \* parse_status, ai_status, AnalysisRun.status, FillPlan.status
    pc,              \* where each worker process is
    held,            \* the job a worker is processing
    seen,            \* the jobs a worker's recovery has selected but not yet written
    calls,           \* what each API caller has read and not yet committed
    halts            \* crashes and stops so far

jobVars == <<status, target, attempts, cancelRequested, expired, delayed>>
workerVars == <<pc, held, seen>>
vars == <<jobVars, targetStatus, workerVars, calls, halts>>

(***************************************************************************)
(* The jobs table.                                                         *)
(***************************************************************************)
Active == {"QUEUED", "RUNNING"}
Finished == {"COMPLETED", "FAILED", "CANCELED"}

MutMaxAttempts(k) == 3
MaxAttempts(k) == IF k = "parse_document" THEN 3 ELSE 1

JobKind(j) == KindOf[target[j]]
ModelJob(j) == target[j] \in Targets /\ JobKind(j) # "parse_document"
JobsOf(t) == {j \in Jobs : target[j] = t}
Created == {j \in Jobs : status[j] # "NONE"}

MutRetryable(j) == attempts[j] <= MaxAttempts(JobKind(j))
Retryable(j) == attempts[j] < MaxAttempts(JobKind(j))

\* The SELECT of enqueue that finds a job with the same dedupe key.
MutDuplicates(t) == {j \in JobsOf(t) : status[j] = "QUEUED"}
Duplicates(t) == {j \in JobsOf(t) : status[j] \in Active}

\* A row inserted for target t, if the deduplication found none.
Insert(j, t) ==
    /\ status' = [status EXCEPT ![j] = "QUEUED"]
    /\ target' = [target EXCEPT ![j] = t]
    /\ UNCHANGED <<attempts, cancelRequested, expired, delayed>>

NextJob(j) == j \in Jobs \ Created /\ \A i \in Jobs \ Created : j <= i

\* enqueue(): reuse the active job with the same key, else insert a new one.
\* Two active jobs with one key make scalar_one_or_none raise: no step then.
Enqueue(t) ==
    \/ (\E j \in Jobs : Duplicates(t) = {j}) /\ UNCHANGED jobVars
    \/ Duplicates(t) = {} /\ \E j \in Jobs : NextJob(j) /\ Insert(j, t)

NoRunningJob == \A j \in Jobs : status[j] # "RUNNING"
ActiveOn(T) == \E j \in Jobs : target[j] \in T /\ status[j] \in Active
OfKind(k) == {t \in Targets : KindOf[t] = k}
BuiltOn(t) == {u \in Targets : Base[u] = t}

\* The last job created for t has one of the statuses S.
LastJobIn(t, S) ==
    \E j \in JobsOf(t) : status[j] \in S /\ \A i \in JobsOf(t) : i <= j

(***************************************************************************)
(* Submitting jobs.  A request reads first and commits later, so jobs may  *)
(* have been claimed or finished in between.                               *)
(***************************************************************************)
DocumentsReady ==
    \A t \in Targets :
        /\ KindOf[t] = "process_document" => targetStatus[t] = "done"
        /\ KindOf[t] = "parse_document" =>
               targetStatus[t] \notin {"queued", "running", "failed"}

\* What the endpoints check before they write.
RequestAllowed(t) ==
    CASE KindOf[t] = "parse_document" ->
            targetStatus[t] = "none" \/ NoRunningJob
      [] KindOf[t] = "process_document" ->
            /\ LiveModelCalls
            /\ targetStatus[Base[t]] = "done"
      [] KindOf[t] = "analyze_project" ->
            /\ LiveModelCalls
            /\ \/ /\ targetStatus[t] = "none"
                  /\ DocumentsReady
                  /\ ~ActiveOn(OfKind("analyze_project"))
               \/ /\ targetStatus[t] \in {"failed", "canceled"}
                  /\ LastJobIn(t, {"FAILED", "CANCELED"})
                  /\ Duplicates(t) = {}
      [] KindOf[t] = "draft_fill_plan" ->
            /\ LiveModelCalls
            /\ targetStatus[Base[t]] \notin {"none", "queued", "running"}
            /\ ~ActiveOn({Base[t]} \cup BuiltOn(Base[t]))

NoCall == [op |-> "none", on |-> None, queued |-> FALSE]
Request(t) == [op |-> "request", on |-> t, queued |-> FALSE]
Cancel(j, queued) == [op |-> "cancel", on |-> j, queued |-> queued]

\* Two uploads create two documents and two analyses create two runs, whereas
\* an ingestion or a fill plan may be submitted by several callers at once.
Creates(t) == targetStatus[t] = "none" /\ KindOf[t] \in {"parse_document", "analyze_project"}

RequestRead(c, t) ==
    /\ calls[c] = NoCall
    /\ RequestAllowed(t)
    /\ Creates(t) => \A b \in Callers : calls[b] # Request(t)
    /\ calls' = [calls EXCEPT ![c] = Request(t)]
    /\ UNCHANGED <<jobVars, targetStatus, workerVars, halts>>

\* A new parse puts the AI ingestion of the same document back to "pending".
Submitted(t) ==
    [u \in Targets |-> IF u = t THEN "queued"
                       ELSE IF KindOf[t] = "parse_document" /\ Base[u] = t THEN "none"
                       ELSE targetStatus[u]]

\* All but an analysis flush their target first, which takes SQLite's write
\* lock, so that the deduplication sees the latest jobs; an analysis inserts
\* on the strength of what it read.
RequestCommit(c, t) ==
    /\ calls[c] = Request(t)
    /\ calls' = [calls EXCEPT ![c] = NoCall]
    /\ IF KindOf[t] = "analyze_project"
       THEN \E j \in Jobs : NextJob(j) /\ Insert(j, t)
       ELSE Enqueue(t)
    /\ targetStatus' = Submitted(t)
    /\ UNCHANGED <<workerVars, halts>>

(***************************************************************************)
(* request_cancel(): the job's status is read, then the flag is set and a  *)
(* job that was read as QUEUED is settled, whatever it is by now.          *)
(***************************************************************************)
CancelRead(c, j) ==
    /\ calls[c] = NoCall
    /\ j \in Created
    /\ calls' = [calls EXCEPT ![c] = Cancel(j, status[j] = "QUEUED")]
    /\ UNCHANGED <<jobVars, targetStatus, workerVars, halts>>

CancelCommit(c, j, queued) ==
    /\ calls[c] = Cancel(j, queued)
    /\ calls' = [calls EXCEPT ![c] = NoCall]
    /\ cancelRequested' = cancelRequested \cup {j}
    /\ IF queued
       THEN /\ status' = [status EXCEPT ![j] = "CANCELED"]
            /\ targetStatus' = [targetStatus EXCEPT ![target[j]] = "canceled"]
            /\ expired' = expired \ {j}
       ELSE UNCHANGED <<status, targetStatus, expired>>
    /\ UNCHANGED <<target, attempts, delayed, workerVars, halts>>

-----------------------------------------------------------------------------
(***************************************************************************)
(* Settling several jobs in one transaction: those in C are canceled,      *)
(* those in F failed, those in R put back in the queue; the documents,     *)
(* runs and plans of C and F follow.                                       *)
(***************************************************************************)
SettledStatus(C, F, R) ==
    [j \in Jobs |-> IF j \in C THEN "CANCELED"
                    ELSE IF j \in F THEN "FAILED"
                    ELSE IF j \in R THEN "QUEUED"
                    ELSE status[j]]

MutSettledTargets(C, F) ==
    [t \in Targets |-> IF \E j \in C : target[j] = t THEN "canceled"
                       ELSE targetStatus[t]]
SettledTargets(C, F) ==
    [t \in Targets |-> IF \E j \in F : target[j] = t THEN "failed"
                       ELSE IF \E j \in C : target[j] = t THEN "canceled"
                       ELSE targetStatus[t]]

MutSettle(C, F, R) ==
    /\ status' = SettledStatus(C, F, R)
    /\ targetStatus' = SettledTargets(C, F)
    /\ UNCHANGED <<target, attempts, cancelRequested, expired, delayed>>
Settle(C, F, R) ==
    /\ status' = SettledStatus(C, F, R)
    /\ targetStatus' = SettledTargets(C, F)
    /\ expired' = expired \ (C \cup F \cup R)
    /\ UNCHANGED <<target, attempts, cancelRequested, delayed>>

NothingSeen == [canceled |-> {}, failed |-> {}, requeued |-> {}]

Goto(w, label) == pc' = [pc EXCEPT ![w] = label]

(***************************************************************************)
(* The worker process: start, recovery of the jobs left RUNNING, loop.     *)
(***************************************************************************)
Start(w) ==
    /\ pc[w] = "down"
    /\ Goto(w, "boot")
    /\ UNCHANGED <<jobVars, targetStatus, held, seen, calls, halts>>

\* The three lists fail_running_jobs builds from the RUNNING jobs.
BootSelection ==
    LET running == {j \in Jobs : status[j] = "RUNNING"}
        pending == running \ cancelRequested
    IN [canceled |-> running \cap cancelRequested,
        failed   |-> {j \in pending : ~Retryable(j)},
        requeued |-> {j \in pending : Retryable(j)}]

\* fail_running_jobs selects every RUNNING job, whoever holds its lease ...
BootRead(w) ==
    /\ pc[w] = "boot"
    /\ seen' = [seen EXCEPT ![w] = BootSelection]
    /\ Goto(w, "booting")
    /\ UNCHANGED <<jobVars, targetStatus, held, calls, halts>>

\* ... and writes its verdicts by primary key.
BootWrite(w) ==
    /\ pc[w] = "booting"
    /\ Settle(seen[w].canceled, seen[w].failed, seen[w].requeued)
    /\ seen' = [seen EXCEPT ![w] = NothingSeen]
    /\ Goto(w, "resuming")
    /\ UNCHANGED <<held, calls, halts>>

FailExhausted(w) ==
    /\ pc[w] = "top"
    /\ LET F == {j \in expired \ cancelRequested : ~Retryable(j)}
       IN Settle({}, F, {})
    /\ Goto(w, "recover")
    /\ UNCHANGED <<held, seen, calls, halts>>

\* recover_expired_jobs selects the expired jobs to cancel ...
RecoverRead(w) ==
    /\ pc[w] = "recover"
    /\ seen' = [seen EXCEPT ![w] =
            [NothingSeen EXCEPT !.canceled = expired \cap cancelRequested]]
    /\ Goto(w, "recovering")
    /\ UNCHANGED <<jobVars, targetStatus, held, calls, halts>>

\* ... settles them, and requeues the other expired jobs in one UPDATE.
RecoverWrite(w) ==
    /\ pc[w] = "recovering"
    /\ LET C == seen[w].canceled
           R == {j \in expired \ C : Retryable(j)}
       IN Settle(C, {}, R)
    /\ seen' = [seen EXCEPT ![w] = NothingSeen]
    /\ Goto(w, "claim")
    /\ UNCHANGED <<held, calls, halts>>

MutClaimableAgain(j) ==
    /\ status[j] \in Active
    /\ j \notin delayed
MutClaimableOnce(j) ==
    /\ status[j] = "QUEUED"
    /\ j \notin delayed
    /\ attempts[j] = 0
Claimable(j) ==
    /\ status[j] = "QUEUED"
    /\ j \notin delayed
    /\ LiveModelCalls \/ ~ModelJob(j)

\* ORDER BY available_at, created_at.
Oldest(j) ==
    \A i \in Jobs : Claimable(i) /\ attempts[i] = 0 /\ attempts[j] = 0 => j <= i

\* claim_job: the UPDATE repeats the SELECT's condition, so a claim is atomic.
Claim(w, j) ==
    /\ pc[w] = "claim"
    /\ Claimable(j) /\ Oldest(j)
    /\ status' = [status EXCEPT ![j] = "RUNNING"]
    /\ attempts' = [attempts EXCEPT ![j] = @ + 1]
    /\ expired' = expired \ {j}
    /\ held' = [held EXCEPT ![w] = j]
    /\ Goto(w, "claimed")
    /\ UNCHANGED <<target, cancelRequested, delayed, targetStatus, seen, calls, halts>>

NothingToClaim(w) ==
    /\ pc[w] = "claim"
    /\ \A j \in Jobs : ~Claimable(j)
    /\ Goto(w, "top")
    /\ UNCHANGED <<jobVars, targetStatus, held, seen, calls, halts>>

-----------------------------------------------------------------------------
(***************************************************************************)
(* _process_one and the handlers.  A handler commits in several            *)
(* transactions: "running" at its beginning, its results at its end.       *)
(***************************************************************************)
CheckCanceled(w) ==
    /\ pc[w] = "claimed"
    /\ Goto(w, IF held[w] \in cancelRequested THEN "interrupted" ELSE "starting")
    /\ UNCHANGED <<jobVars, targetStatus, held, seen, calls, halts>>

Begin(w) ==
    /\ pc[w] = "starting"
    /\ targetStatus' = [targetStatus EXCEPT ![target[held[w]]] = "running"]
    /\ Goto(w, "working")
    /\ UNCHANGED <<jobVars, held, seen, calls, halts>>

\* The checks inside the handlers and around every model request.
HandlerSeesCancel(w) ==
    /\ pc[w] = "working"
    /\ held[w] \in cancelRequested
    /\ Goto(w, "interrupted")
    /\ UNCHANGED <<jobVars, targetStatus, held, seen, calls, halts>>

\* queue_document_processing, called in the transaction that saves the parse.
QueueProcessing(t) ==
    IF LiveModelCalls
    THEN /\ Enqueue(t)
         /\ targetStatus' = [targetStatus EXCEPT ![Base[t]] = "done", ![t] = "queued"]
    ELSE /\ UNCHANGED jobVars
         /\ targetStatus' = [targetStatus EXCEPT ![Base[t]] = "done", ![t] = "waiting"]

\* parse_document_job holds the write lock from its last check to its commit.
FinishParse(w) ==
    /\ pc[w] = "working"
    /\ JobKind(held[w]) = "parse_document"
    /\ held[w] \notin cancelRequested
    /\ \E t \in BuiltOn(target[held[w]]) : QueueProcessing(t)
    /\ Goto(w, "finishing")
    /\ UNCHANGED <<held, seen, calls, halts>>

FinishModelWork(w) ==
    /\ pc[w] = "working"
    /\ ModelJob(held[w])
    /\ targetStatus' = [targetStatus EXCEPT ![target[held[w]]] = "done"]
    /\ Goto(w, IF JobKind(held[w]) = "process_document" THEN "scheduling" ELSE "finishing")
    /\ UNCHANGED <<jobVars, held, seen, calls, halts>>

\* schedule_analysis(automatic=True): after an ingestion, after an analysis and
\* when the worker starts.  Whether the project is enrolled and its inputs
\* have changed is left open here; AnalysisFreshness models it.
AfterScheduling(label) == IF label = "scheduling" THEN "finishing" ELSE "top"

Schedule(w) ==
    /\ pc[w] \in {"resuming", "scheduling", "rerun"}
    /\ \/ UNCHANGED <<jobVars, targetStatus>>
       \/ /\ LiveModelCalls
          /\ DocumentsReady
          /\ ~ActiveOn(OfKind("analyze_project"))
          /\ \E t \in OfKind("analyze_project"), j \in Jobs :
                /\ targetStatus[t] = "none"
                /\ \A c \in Callers : calls[c] # Request(t)
                /\ NextJob(j)
                /\ Insert(j, t)
                /\ targetStatus' = [targetStatus EXCEPT ![t] = "queued"]
    /\ Goto(w, AfterScheduling(pc[w]))
    /\ UNCHANGED <<held, seen, calls, halts>>

FinalCheck(w) ==
    /\ pc[w] = "finishing"
    /\ Goto(w, IF held[w] \in cancelRequested THEN "interrupted" ELSE "completing")
    /\ UNCHANGED <<jobVars, targetStatus, held, seen, calls, halts>>

\* The row is completed by primary key, without looking at its status.
Complete(w) ==
    /\ pc[w] = "completing"
    /\ status' = [status EXCEPT ![held[w]] = "COMPLETED"]
    /\ expired' = expired \ {held[w]}
    /\ held' = [held EXCEPT ![w] = None]
    /\ Goto(w, IF JobKind(held[w]) = "analyze_project" THEN "rerun" ELSE "top")
    /\ UNCHANGED <<target, attempts, cancelRequested, delayed, targetStatus,
                   seen, calls, halts>>

\* Any failure of the handler or of the database around it.
Raise(w) ==
    /\ pc[w] \in {"starting", "working", "scheduling", "finishing", "completing"}
    /\ Goto(w, "raised")
    /\ UNCHANGED <<jobVars, targetStatus, held, seen, calls, halts>>

\* The except branch rolls back, reads the row again and decides ...
FailRead(w) ==
    /\ pc[w] \in {"raised", "interrupted"}
    /\ LET canceled == pc[w] = "interrupted" \/ held[w] \in cancelRequested
       IN Goto(w, IF canceled THEN "toCancel"
                  ELSE IF Retryable(held[w]) THEN "toRetry" ELSE "toFail")
    /\ UNCHANGED <<jobVars, targetStatus, held, seen, calls, halts>>

Verdict(label) ==
    CASE label = "toCancel" -> [job |-> "CANCELED", target |-> "canceled"]
      [] label = "toRetry"  -> [job |-> "QUEUED",   target |-> "queued"]
      [] label = "toFail"   -> [job |-> "FAILED",   target |-> "failed"]

\* ... and writes its verdict in one transaction.
FailWrite(w) ==
    /\ pc[w] \in {"toCancel", "toRetry", "toFail"}
    /\ status' = [status EXCEPT ![held[w]] = Verdict(pc[w]).job]
    /\ targetStatus' = [targetStatus EXCEPT ![target[held[w]]] = Verdict(pc[w]).target]
    /\ expired' = expired \ {held[w]}
    /\ delayed' = IF pc[w] = "toRetry" THEN delayed \cup {held[w]} ELSE delayed
    /\ held' = [held EXCEPT ![w] = None]
    /\ Goto(w, "top")
    /\ UNCHANGED <<target, attempts, cancelRequested, seen, calls, halts>>

-----------------------------------------------------------------------------
(***************************************************************************)
(* Time and failures.                                                      *)
(***************************************************************************)
LeaseExpires(j) ==
    /\ status[j] = "RUNNING"
    /\ j \notin expired
    /\ expired' = expired \cup {j}
    /\ UNCHANGED <<status, target, attempts, cancelRequested, delayed,
                   targetStatus, workerVars, calls, halts>>

BackoffElapses(j) ==
    /\ j \in delayed
    /\ delayed' = delayed \ {j}
    /\ UNCHANGED <<status, target, attempts, cancelRequested, expired,
                   targetStatus, workerVars, calls, halts>>

\* SIGTERM lets the worker finish its job; it leaves at the top of its loop.
Stop(w) ==
    /\ pc[w] = "top"
    /\ halts < MaxHalts
    /\ halts' = halts + 1
    /\ Goto(w, "down")
    /\ UNCHANGED <<jobVars, targetStatus, held, seen, calls>>

Crash(w) ==
    /\ pc[w] # "down"
    /\ halts < MaxHalts
    /\ halts' = halts + 1
    /\ Goto(w, "down")
    /\ held' = [held EXCEPT ![w] = None]
    /\ seen' = [seen EXCEPT ![w] = NothingSeen]
    /\ UNCHANGED <<jobVars, targetStatus, calls>>

-----------------------------------------------------------------------------
Init ==
    /\ status = [j \in Jobs |-> "NONE"]
    /\ target = [j \in Jobs |-> None]
    /\ attempts = [j \in Jobs |-> 0]
    /\ cancelRequested = {}
    /\ expired = {}
    /\ delayed = {}
    /\ targetStatus = [t \in Targets |-> "none"]
    /\ pc = [w \in Workers |-> "down"]
    /\ held = [w \in Workers |-> None]
    /\ seen = [w \in Workers |-> NothingSeen]
    /\ calls = [c \in Callers |-> NoCall]
    /\ halts = 0

WorkerStep(w) ==
    \/ BootRead(w) \/ BootWrite(w)
    \/ FailExhausted(w) \/ RecoverRead(w) \/ RecoverWrite(w)
    \/ \E j \in Jobs : Claim(w, j)
    \/ NothingToClaim(w)
    \/ CheckCanceled(w) \/ Begin(w) \/ HandlerSeesCancel(w)
    \/ FinishParse(w) \/ FinishModelWork(w) \/ Schedule(w)
    \/ FinalCheck(w) \/ Complete(w)
    \/ Raise(w) \/ FailRead(w) \/ FailWrite(w)

Api(c) ==
    \/ \E t \in Targets : RequestRead(c, t) \/ RequestCommit(c, t)
    \/ \E j \in Jobs : CancelRead(c, j) \/ \E q \in BOOLEAN : CancelCommit(c, j, q)

Next ==
    \/ \E c \in Callers : Api(c)
    \/ \E w \in Workers : Start(w) \/ WorkerStep(w) \/ Stop(w) \/ Crash(w)
    \/ \E j \in Jobs : LeaseExpires(j) \/ BackoffElapses(j)

Spec == Init /\ [][Next]_vars

\* Time passes, a worker that is down is started again (start.sh) and a worker
\* that can take a step takes one.  Nobody is obliged to call the API.
Fairness ==
    /\ \A w \in Workers : WF_vars(Start(w)) /\ WF_vars(WorkerStep(w))
    /\ \A j \in Jobs : WF_vars(BackoffElapses(j)) /\ WF_vars(LeaseExpires(j))

FairSpec == Spec /\ Fairness

-----------------------------------------------------------------------------
(***************************************************************************)
(* Properties.                                                             *)
(***************************************************************************)
JobStatuses == {"NONE"} \cup Active \cup Finished
TargetStatuses == {"none", "queued", "running", "done", "failed", "canceled", "waiting"}
Labels == {"down", "boot", "booting", "resuming", "top", "recover", "recovering",
           "claim", "claimed", "starting", "working", "scheduling", "finishing",
           "completing", "rerun", "raised", "interrupted",
           "toCancel", "toRetry", "toFail"}
Holding == {"claimed", "starting", "working", "scheduling", "finishing",
            "completing", "raised", "interrupted", "toCancel", "toRetry", "toFail"}
Calls == {NoCall} \cup {Request(t) : t \in Targets}
             \cup {Cancel(j, q) : j \in Created, q \in BOOLEAN}

\* Every variable has its type, a row that exists has a target and a worker in
\* the middle of a job has one.
TypeOK ==
    /\ status \in [Jobs -> JobStatuses]
    /\ target \in [Jobs -> Targets \cup {None}]
    /\ \A j \in Created : target[j] \in Targets
    /\ attempts \in [Jobs -> Nat]
    /\ cancelRequested \in SUBSET Created
    /\ expired \in SUBSET {j \in Jobs : status[j] = "RUNNING"}
    /\ delayed \in SUBSET Created
    /\ targetStatus \in [Targets -> TargetStatuses]
    /\ pc \in [Workers -> Labels]
    /\ held \in [Workers -> Jobs \cup {None}]
    /\ \A w \in Workers : pc[w] \in Holding => held[w] \in Created
    /\ seen \in [Workers -> [canceled : SUBSET Created, failed : SUBSET Created,
                              requeued : SUBSET Created]]
    /\ calls \in [Callers -> Calls]
    /\ halts \in Nat

\* A job that calls the model is claimed at most once, however many workers
\* overlap, crash, restart or recover it: "model-backed work must not be
\* repeated automatically after a partial run" (enqueue, fail_running_jobs,
\* recover_expired_jobs, _process_one).
ModelWorkNotRepeated ==
    \A j \in Jobs : ModelJob(j) => attempts[j] <= 1

\* Two workers are never busy with the same job that calls the model.
ModelJobHasOneWorker ==
    \A w1, w2 \in Workers :
        w1 # w2 /\ held[w1] # None /\ held[w1] = held[w2] => ~ModelJob(held[w1])

\* Why: an attempt is spent before the work begins, what is put back in the
\* queue has an attempt left, and a worker's verdict "again" is never about a
\* job that calls the model.  With TypeOK this is inductive.
AttemptsTold ==
    \A j \in Jobs :
        /\ status[j] = "NONE" => attempts[j] = 0
        /\ ModelJob(j) => attempts[j] <= 1
        /\ ModelJob(j) /\ status[j] = "QUEUED" => attempts[j] = 0
        /\ ModelJob(j) /\ status[j] = "RUNNING" => attempts[j] = 1
HeldIsSpent ==
    \A w \in Workers : held[w] # None =>
        held[w] \in Created /\ (ModelJob(held[w]) => attempts[held[w]] = 1)
NoSecondChance ==
    \A w \in Workers :
        /\ \A j \in seen[w].requeued : ~ModelJob(j)
        /\ pc[w] = "toRetry" => ~ModelJob(held[w])
ModelInv == AttemptsTold /\ HeldIsSpent /\ NoSecondChance /\ ModelJobHasOneWorker

\* With one worker, a parse, an ingestion and a fill plan have at most one
\* active job that nobody asked to cancel, whatever requests, cancels and
\* crashes interleave (enqueue).  A resumed analysis is left out: its
\* deduplication reads without the lock.
AtMostOneActive ==
    \A i, j \in Jobs \ cancelRequested :
        /\ i # j /\ status[i] \in Active /\ status[j] \in Active
        /\ target[i] = target[j]
        => JobKind(i) = "analyze_project"

\* With one worker, once the last job of a document, run or plan has completed
\* or failed and none is active, that record no longer shows work under way or
\* the opposite outcome: the settling code of _process_one, fail_running_jobs
\* and fail_exhausted_jobs updates both.
FinishedJobMatchesTarget ==
    \A t \in Targets : Duplicates(t) = {} =>
        /\ LastJobIn(t, {"COMPLETED"}) => targetStatus[t] \notin {"running", "failed"}
        /\ LastJobIn(t, {"FAILED"}) => targetStatus[t] \notin {"running", "done"}

\* With one worker that is restarted after every crash, every submitted job is
\* eventually completed, failed or canceled (worker_loop, fail_running_jobs).
JobsSettle == \A j \in Jobs : status[j] # "NONE" ~> status[j] \in Finished

(***************************************************************************)
(* The queue implements JobLifecycle when one worker drains it.            *)
(***************************************************************************)
LifecyclePhase ==
    [j \in Jobs |-> IF status[j] = "NONE" THEN "absent"
                    ELSE IF j \in cancelRequested THEN "withdrawn"
                    ELSE IF status[j] = "QUEUED" THEN "waiting"
                    ELSE IF status[j] = "RUNNING" THEN "taken"
                    ELSE "settled"]
LifecycleLimit ==
    [j \in Jobs |-> IF status[j] = "NONE" THEN 0 ELSE MaxAttempts(JobKind(j))]

Lifecycle == INSTANCE JobLifecycle
    WITH phase <- LifecyclePhase, limit <- LifecycleLimit, takes <- attempts

\* With one worker the queue keeps the promise of JobLifecycle: a failed,
\* completed or canceled job is never run again ("failed tasks are not retried
\* because of a restart"), and no job is taken more often than its attempts.
ImplementsLifecycle == Lifecycle!Spec
=============================================================================
