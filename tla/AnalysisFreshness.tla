------------------------- MODULE AnalysisFreshness -------------------------
(***************************************************************************)
(* Which analysis results may still be believed.  An analysis run is       *)
(* computed from a project's inputs (documents, evidence, response values, *)
(* project and bid fields), whose state the code identifies by a signature *)
(* (services/pipeline.py).  Every edit marks the decisions of earlier runs *)
(* stale (services/freshness.py) and may schedule a new run; a run that is *)
(* under way meanwhile compares signatures at its end                      *)
(* (services/handlers.py).                                                 *)
(*                                                                         *)
(* Here one worker runs the analyses of all projects.  The jobs table is   *)
(* abstracted to the last job of each run and the order of the queued ones *)
(* (analyses are never retried): JobQueue models the queue.                *)
(* Documents are parsed and ingested, tenders enrolled, projects active    *)
(* and the model configuration unchanged.                                  *)
(***************************************************************************)
EXTENDS Integers, SequencesExt

CONSTANTS
    Projects,      \* the projects of one organization
    AutoAnalyze,   \* those with Project.auto_analyze
    EditKinds,     \* the kinds of edits that happen, see below
    None,
    MaxRuns,       \* bound: runs of a project
    MaxManual,     \* bound: runs of a project before which a user starts one
    MaxVersions,   \* bound: states of the inputs that ever exist
    MaxHalts,      \* bound: worker crashes and stops
    Callers        \* bound: API calls that may be in flight at once

\* "stamped": evidence or a response value is changed or a bid created; the row
\*     is flushed before the runs are marked and carries a new timestamp or
\*     version.
\* "silent": the same for POST /evidence, which schedules no analysis.
\* "plain": project or bid fields are edited, evidence or a value deleted; the
\*     runs to mark are selected before the write lock is taken, and the inputs
\*     may return to an earlier state.
ASSUME FreshnessAssumption ==
    /\ IsFiniteSet(Projects) /\ AutoAnalyze \subseteq Projects
    /\ EditKinds \subseteq {"stamped", "silent", "plain"}
    /\ MaxRuns \in Nat /\ MaxManual \in Nat /\ MaxVersions \in Nat /\ MaxHalts \in Nat

VARIABLES
    inputs,    \* the state of each project's inputs, i.e. its input signature
    versions,  \* how many states of inputs there have been
    runs,      \* each project's runs in order of creation: AnalysisRun.status,
               \* model_snapshot.input_signature, the states of the inputs on
               \* which the decisions not marked stale rest, the last job
    queue,     \* the runs with a QUEUED job, the oldest job first
    pc,        \* where the worker is
    at,        \* the run it works on: <<project, index>>
    known,     \* the states of the inputs its session has loaded
    todo,      \* the projects it is about to call schedule_analysis for
    plan,      \* the run it has decided to insert: project and signature
    calls,     \* what each API caller has read and not yet committed
    halts

workerVars == <<pc, at, known, todo, plan>>
vars == <<inputs, versions, runs, queue, workerVars, calls, halts>>

NewRun(signature) ==
    [status |-> "DRAFT", signature |-> signature, basis |-> {}, job |-> "QUEUED"]
LastRun(p) == runs[p][Len(runs[p])]
RunIds == UNION {{<<p, i>> : i \in 1 .. Len(runs[p])} : p \in Projects}
RunAt(r) == runs[r[1]][r[2]]
SetRun(r, run) == runs' = [runs EXCEPT ![r[1]][r[2]] = run]

(***************************************************************************)
(* mark_project_stale: run_ids is selected first, then the decisions of    *)
(* those runs are marked and the runs themselves unless they have failed.  *)
(***************************************************************************)
MarkedStatuses == {"COMPLETED", "NEEDS_REVIEW", "STALE", "FAILED"}

Markable(P) == {r \in RunIds : r[1] \in P /\ RunAt(r).status \in MarkedStatuses}

Mark(run) ==
    [run EXCEPT !.basis = {},
                !.status = IF @ = "FAILED" THEN "FAILED" ELSE "STALE"]

\* The runs of each project once those in R have been marked.
Marked(R) ==
    [p \in Projects |-> [i \in 1 .. Len(runs[p]) |->
        IF <<p, i>> \in R THEN Mark(runs[p][i]) ELSE runs[p][i]]]

(***************************************************************************)
(* schedule_analysis(automatic=True).                                      *)
(***************************************************************************)
ActiveJob(p) == \E i \in 1 .. Len(runs[p]) : runs[p][i].job \in {"QUEUED", "RUNNING"}

MutRepeatAnalysis(p, signature) == ~ActiveJob(p)
NeedsAnalysis(p, signature) ==
    /\ ~ActiveJob(p)
    /\ runs[p] # <<>> => LastRun(p).signature # signature

Bounded(P) == \A p \in P : Len(runs[p]) < MaxRuns

\* A run is inserted together with its job.
MutInsert(p, signature) ==
    /\ Bounded({p})
    /\ runs' = [runs EXCEPT ![p] = Append(@, NewRun(signature))]
    /\ UNCHANGED queue
Insert(p, signature) ==
    /\ Bounded({p})
    /\ runs' = [runs EXCEPT ![p] = Append(@, NewRun(signature))]
    /\ queue' = Append(queue, <<p, Len(runs[p]) + 1>>)

\* An edit's transaction marks the runs in R, and schedules the projects in S.
MarkAndSchedule(R, S, signatures) ==
    LET scheduled == {p \in S \cap AutoAnalyze : NeedsAnalysis(p, signatures[p])}
    IN /\ Bounded(scheduled)
       /\ runs' = [p \in Projects |->
                      IF p \in scheduled THEN Append(Marked(R)[p], NewRun(signatures[p]))
                                         ELSE Marked(R)[p]]
       /\ \E order \in SetToSeqs({<<p, Len(runs[p]) + 1>> : p \in scheduled}) :
             queue' = queue \o order

(***************************************************************************)
(* Edits.  One of the enterprise's library concerns all its projects.      *)
(***************************************************************************)
Scopes == {{p} : p \in Projects} \cup {Projects}

Edited(P, v) == [p \in Projects |-> IF p \in P THEN v ELSE inputs[p]]

\* The flush takes SQLite's write lock, so the whole edit is one step.
LockedEdit(P, kind) ==
    /\ kind \in EditKinds \cap {"stamped", "silent"}
    /\ versions < MaxVersions
    /\ versions' = versions + 1
    /\ inputs' = Edited(P, versions')
    /\ MarkAndSchedule(Markable(P), IF kind = "stamped" THEN P ELSE {}, inputs')
    /\ UNCHANGED <<workerVars, calls, halts>>

NoCall == [op |-> "none", on |-> {}, seen |-> {}, signature |-> 0]
EditCall(P) == [op |-> "edit", on |-> P, seen |-> Markable(P), signature |-> 0]

\* update_project, update_bid, delete_evidence ...: the runs are selected ...
PlainEditRead(c, P) ==
    /\ "plain" \in EditKinds
    /\ versions < MaxVersions
    /\ calls[c] = NoCall
    /\ calls' = [calls EXCEPT ![c] = EditCall(P)]
    /\ UNCHANGED <<inputs, versions, runs, queue, workerVars, halts>>

\* ... and marked when the lock is taken; the fields are written afterwards.
PlainEditCommit(c, v) ==
    /\ calls[c].op = "edit"
    /\ calls' = [calls EXCEPT ![c] = NoCall]
    /\ versions < MaxVersions
    /\ versions' = versions + 1
    /\ v \in 0 .. versions' /\ \A p \in calls[c].on : v # inputs[p]
    /\ inputs' = Edited(calls[c].on, v)
    /\ MarkAndSchedule(calls[c].seen, calls[c].on, inputs')
    /\ UNCHANGED <<workerVars, halts>>

(***************************************************************************)
(* Starting, resuming and canceling analyses through the API.              *)
(***************************************************************************)
StartCall(p) == [op |-> "start", on |-> {p}, seen |-> {}, signature |-> inputs[p]]

\* POST /analysis-runs: nothing is locked before the run is inserted.
StartRead(c, p) ==
    /\ calls[c] = NoCall
    /\ ~ActiveJob(p)
    /\ Len(runs[p]) < MaxManual
    /\ calls' = [calls EXCEPT ![c] = StartCall(p)]
    /\ UNCHANGED <<inputs, versions, runs, queue, workerVars, halts>>

StartCommit(c, p) ==
    /\ calls[c].op = "start" /\ calls[c].on = {p}
    /\ Insert(p, calls[c].signature)
    /\ calls' = [calls EXCEPT ![c] = NoCall]
    /\ UNCHANGED <<inputs, versions, workerVars, halts>>

Resumable(r) ==
    /\ RunAt(r).status = "FAILED"
    /\ RunAt(r).job \in {"FAILED", "CANCELED"}
    /\ RunAt(r).signature = inputs[r[1]]

ResumeCall(r) == [op |-> "resume", on |-> {r[1]}, seen |-> {r}, signature |-> 0]

\* resume_analysis; two resumptions of one run at once are left to JobQueue.
ResumeRead(c, r) ==
    /\ calls[c] = NoCall
    /\ Resumable(r)
    /\ \A b \in Callers : calls[b] # ResumeCall(r)
    /\ calls' = [calls EXCEPT ![c] = ResumeCall(r)]
    /\ UNCHANGED <<inputs, versions, runs, queue, workerVars, halts>>

ResumeCommit(c, r) ==
    /\ calls[c] = ResumeCall(r)
    /\ calls' = [calls EXCEPT ![c] = NoCall]
    /\ SetRun(r, [RunAt(r) EXCEPT !.status = "DRAFT", !.job = "QUEUED"])
    /\ queue' = Append(queue, r)
    /\ UNCHANGED <<inputs, versions, workerVars, halts>>

\* request_cancel of a queued job; a running one is interrupted (RunFails).
CancelQueued(r) ==
    /\ RunAt(r).job = "QUEUED"
    /\ SetRun(r, [RunAt(r) EXCEPT !.status = "FAILED", !.job = "CANCELED"])
    /\ \E i \in 1 .. Len(queue) : queue[i] = r /\ queue' = RemoveAt(queue, i)
    /\ UNCHANGED <<inputs, versions, workerVars, calls, halts>>

-----------------------------------------------------------------------------
(***************************************************************************)
(* The worker.                                                             *)
(***************************************************************************)
Fail(run) == [run EXCEPT !.status = "FAILED", !.job = "FAILED"]

\* fail_running_jobs, then resume_pending_documents for the enrolled projects.
Boot ==
    /\ pc = "down"
    /\ runs' = [p \in Projects |-> [i \in 1 .. Len(runs[p]) |->
                   IF runs[p][i].job = "RUNNING" THEN Fail(runs[p][i]) ELSE runs[p][i]]]
    /\ todo' = AutoAnalyze
    /\ pc' = "ready"
    /\ UNCHANGED <<inputs, versions, queue, at, known, plan, calls, halts>>

\* The worker's own calls of schedule_analysis read without the lock ...
ScheduleRead(p) ==
    /\ pc = "ready" /\ plan = None
    /\ p \in todo
    /\ todo' = todo \ {p}
    /\ plan' = IF NeedsAnalysis(p, inputs[p])
               THEN [project |-> p, signature |-> inputs[p]]
               ELSE None
    /\ UNCHANGED <<inputs, versions, runs, queue, pc, at, known, calls, halts>>

\* ... and insert on the strength of what they read.
ScheduleInsert ==
    /\ plan # None
    /\ Insert(plan.project, plan.signature)
    /\ plan' = None
    /\ UNCHANGED <<inputs, versions, pc, at, known, todo, calls, halts>>

Claim(r) ==
    /\ pc = "ready" /\ plan = None /\ todo = {}
    /\ queue # <<>> /\ r = Head(queue)
    /\ queue' = Tail(queue)
    /\ SetRun(r, [RunAt(r) EXCEPT !.job = "RUNNING"])
    /\ at' = r
    /\ known' = {}
    /\ pc' = "claimed"
    /\ UNCHANGED <<inputs, versions, todo, plan, calls, halts>>

Begin ==
    /\ pc = "claimed"
    /\ SetRun(at, [RunAt(at) EXCEPT !.status = "RUNNING"])
    /\ pc' = "working"
    /\ UNCHANGED <<inputs, versions, queue, at, known, todo, plan, calls, halts>>

\* decide_run saves a decision: it rests on the inputs of now or, where the
\* session had loaded a row before, on those of then.
Compare ==
    /\ pc = "working"
    /\ known' = known \cup {inputs[at[1]]}
    /\ \E v \in known' :
          SetRun(at, [RunAt(at) EXCEPT !.basis = @ \cup {v}])
    /\ UNCHANGED <<inputs, versions, queue, pc, at, todo, plan, calls, halts>>

\* The end of analyze_project_job, in one transaction that holds the lock: the
\* signature is computed again and a change marks this run like all others.
MutOutdated(run, p) == FALSE
Outdated(run, p) == run.signature # inputs[p]

Finish ==
    /\ pc = "working"
    /\ \E status \in {"COMPLETED", "NEEDS_REVIEW"} :
          LET done == [RunAt(at) EXCEPT !.status = status]
              p == at[1]
          IN runs' = IF Outdated(done, p)
                     THEN [Marked(Markable({p})) EXCEPT ![p][at[2]] = Mark(done)]
                     ELSE [runs EXCEPT ![p][at[2]] = done]
    /\ pc' = "finished"
    /\ UNCHANGED <<inputs, versions, queue, at, known, todo, plan, calls, halts>>

\* _process_one completes the job; worker_loop calls schedule_analysis again.
MutFollowUp(p) == {}
FollowUp(p) == {p} \cap AutoAnalyze

Complete ==
    /\ pc = "finished"
    /\ SetRun(at, [RunAt(at) EXCEPT !.job = "COMPLETED"])
    /\ todo' = FollowUp(at[1])
    /\ at' = None
    /\ pc' = "ready"
    /\ UNCHANGED <<inputs, versions, queue, known, plan, calls, halts>>

\* An error or a cancel request, up to the last check of _process_one; what the
\* handler committed stays.
RunFails ==
    /\ pc \in {"claimed", "working", "finished"}
    /\ SetRun(at, Fail(RunAt(at)))
    /\ at' = None
    /\ pc' = "ready"
    /\ UNCHANGED <<inputs, versions, queue, known, todo, plan, calls, halts>>

Halt ==
    /\ pc # "down"
    /\ halts < MaxHalts
    /\ halts' = halts + 1
    /\ pc' = "down" /\ at' = None /\ known' = {} /\ todo' = {} /\ plan' = None
    /\ UNCHANGED <<inputs, versions, runs, queue, calls>>

-----------------------------------------------------------------------------
Init ==
    /\ inputs = [p \in Projects |-> 0]
    /\ versions = 0
    /\ runs = [p \in Projects |-> <<>>] /\ queue = <<>>
    /\ pc = "down" /\ at = None /\ known = {} /\ todo = {} /\ plan = None
    /\ calls = [c \in Callers |-> NoCall]
    /\ halts = 0

Worker ==
    \/ Boot \/ (\E p \in Projects : ScheduleRead(p)) \/ ScheduleInsert
    \/ (\E r \in RunIds : Claim(r))
    \/ Begin \/ Compare \/ Finish \/ Complete \/ RunFails

Api ==
    \/ \E P \in Scopes, kind \in EditKinds : LockedEdit(P, kind)
    \/ \E c \in Callers :
          \/ \E P \in Scopes : PlainEditRead(c, P)
          \/ \E v \in 0 .. MaxVersions : PlainEditCommit(c, v)
          \/ \E p \in Projects : StartRead(c, p) \/ StartCommit(c, p)
          \/ \E r \in RunIds : ResumeRead(c, r) \/ ResumeCommit(c, r)
    \/ \E r \in RunIds : CancelQueued(r)

Next == Worker \/ Api \/ Halt

Spec == Init /\ [][Next]_vars

\* The worker is started again after a crash, and an analysis ends.
Fairness ==
    /\ WF_vars(Boot)
    /\ WF_vars((\E p \in Projects : ScheduleRead(p)) \/ ScheduleInsert)
    /\ WF_vars(\E r \in RunIds : Claim(r))
    /\ WF_vars(Begin) /\ WF_vars(Finish) /\ WF_vars(Complete)

FairSpec == Spec /\ Fairness

-----------------------------------------------------------------------------
(***************************************************************************)
(* Properties.                                                             *)
(***************************************************************************)
Versions == 0 .. MaxVersions
RunType == [status : {"DRAFT", "RUNNING", "COMPLETED", "NEEDS_REVIEW", "STALE", "FAILED"},
            signature : Versions,
            basis : SUBSET Versions,
            job : {"QUEUED", "RUNNING", "COMPLETED", "FAILED", "CANCELED"}]
CallType == [op : {"none", "edit", "start", "resume"}, on : SUBSET Projects,
             seen : SUBSET RunIds, signature : Versions]
Plans == [project : Projects, signature : Versions]

\* Every variable has its type, and the queue holds the runs whose job
\* is QUEUED, and the worker is at a run exactly while it works on one, whose job
\* is then RUNNING.
TypeOK ==
    /\ inputs \in [Projects -> Versions]
    /\ versions \in Versions
    /\ runs \in [Projects -> Seq(RunType)]
    /\ queue \in Seq(RunIds)
    /\ ToSet(queue) = {r \in RunIds : RunAt(r).job = "QUEUED"}
    /\ pc \in {"down", "ready", "claimed", "working", "finished"}
    /\ IF pc \in {"claimed", "working", "finished"}
       THEN at \in RunIds /\ RunAt(at).job = "RUNNING"
       ELSE at = None
    /\ known \in SUBSET Versions
    /\ todo \in SUBSET AutoAnalyze
    /\ plan \in Plans \cup {None}
    /\ calls \in [Callers -> CallType]
    /\ halts \in Nat

\* A run shown as completed or to be reviewed has no unmarked decision that
\* rests on other inputs than the present ones, whatever was edited while it
\* was running, interrupted or resumed (mark_project_stale and the signature
\* check that ends analyze_project_job).
FreshResults ==
    \A r \in RunIds : RunAt(r).status \in {"COMPLETED", "NEEDS_REVIEW"} =>
        RunAt(r).basis \subseteq {inputs[r[1]]}

\* No run is added for inputs that the project's last run already had: a failed
\* or canceled analysis is not repeated on the same inputs, and the follow-up
\* runs of worker_loop come to an end.  Users starting analyses are left out.
NoRerunOfSameInputs ==
    [][\A p \in Projects :
          Len(runs'[p]) > Len(runs[p]) /\ runs[p] # <<>> =>
              LastRun(p)'.signature # LastRun(p).signature]_vars

Followed(p) ==
    /\ runs[p] # <<>>
    /\ \/ LastRun(p).signature = inputs[p]
       \/ \E i \in 1 .. Len(runs[p]) : runs[p][i].status = "FAILED"

\* A project with automatic analysis is always eventually analysed on its
\* latest inputs, unless one of its analyses has failed or was canceled, even
\* when edits arrive while an analysis runs or the worker dies between the end
\* of one and the scheduling of the next (schedule_analysis, worker_loop,
\* resume_pending_documents).
LatestFollowsInputs == \A p \in AutoAnalyze : []<>Followed(p)
=============================================================================
