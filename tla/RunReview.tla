----------------------------- MODULE RunReview -----------------------------
(***************************************************************************)
(* One analysis run: the clauses of the tender, which of them replace or   *)
(* contradict others (services/requirement_versions.py), the decisions     *)
(* about them (services/analysis.py, comparison.py), the checklist         *)
(* (services/checklist.py) and what people do to all of this through the   *)
(* API until nothing is open (api/routes.py, api/offline.py).              *)
(*                                                                         *)
(* A request loads rows in one step and commits in later ones.  Sessions   *)
(* keep what they have loaded and write the columns they have changed.     *)
(* A clause is a number: clauses are inserted in ascending order.          *)
(***************************************************************************)
EXTENDS Integers, FiniteSetsExt

CONSTANTS
    MaxClauses,   \* bound: clauses of the run
    Extracted,    \* those the extraction finds
    Amendments,   \* those from addenda and answers, each a document of its own
    Targets,      \* the places to fill in the bid form
    Callers,      \* bound: requests in flight at once
    None,
    MaxRequests,  \* bound: requests
    MaxResumes    \* bound: resumptions of the analysis

Clauses == 1 .. MaxClauses

ASSUME ReviewAssumption ==
    /\ MaxClauses \in Nat /\ MaxRequests \in Nat /\ MaxResumes \in Nat
    /\ Extracted \subseteq Clauses
    /\ Amendments \subseteq Extracted
    /\ None \notin Clauses

VARIABLES
    clauses,   \* the clauses there are
    version,   \* their _version: what they replace, what they contradict, and
               \* whether this was settled by the analysis or by a person
    decision,  \* about each clause: status, summary (why, and by which clause it
               \* is replaced), stale
    item,      \* its checklist item: none, open or done
    target,    \* the clause each place to fill is linked to
    reviewed,  \* the places whose suggestion is accepted, edited or rejected
    planned,   \* there is a fill plan
    run,       \* AnalysisRun.status
    stage,     \* where the analysis is; idle: there is no active job
    worker,    \* what the worker's session has loaded
    todo,      \* the clauses it has yet to decide
    calls,     \* what each request has loaded
    requests, resumes,
    missed,    \* history: clauses whose standing an edit changed that dropped
               \* relations, or the resolution such an edit called for, and that
               \* have not been decided since
    outrun     \* history: an amendment was resolved after the places were linked

rows == <<clauses, version, decision, item, target, reviewed, planned, run>>
job == <<stage, worker, todo>>
bounds == <<requests, resumes>>
history == <<missed, outrun>>
vars == <<rows, job, calls, bounds, history>>

Statuses == {"MET", "NOT_MET", "NEEDS_REVIEW", "NOT_APPLICABLE"}

NoVersion == [replaces |-> {}, conflicts |-> {}, settled |-> FALSE]
NoDecision == [status |-> "NONE", summary |-> <<"none", 0>>, stale |-> FALSE]
Verdict(status, why) == [status |-> status, summary |-> <<why, 0>>, stale |-> FALSE]

-----------------------------------------------------------------------------
(***************************************************************************)
(* version_state.                                                          *)
(***************************************************************************)
Replaced(v) == UNION {v[c].replaces : c \in Clauses}

\* replaced[c]: the last row that replaces c.
Replacer(v, c) == Max({0} \cup {d \in Clauses : c \in v[d].replaces})

InConflict(v) ==
    (UNION {{c} \cup v[c].conflicts : c \in {d \in Clauses : v[d].conflicts # {}}})
        \ Replaced(v)

Standing(v, c) == <<v[c], Replacer(v, c), c \in InConflict(v)>>
Moved(v, w) == {c \in Clauses : Standing(v, c) # Standing(w, c)}

\* What the clauses in S replace, directly or not, and S.
Reach(v, S) ==
    LET reach[n \in 0 .. MaxClauses] ==
            IF n = 0 THEN S
            ELSE reach[n - 1] \cup UNION {v[c].replaces : c \in reach[n - 1]}
    IN reach[MaxClauses]

\* The loop that follows replacements: where it ends, if it does.
Latest(v, c) ==
    LET walk[n \in 0 .. MaxClauses] ==
            IF n = 0 THEN c
            ELSE IF walk[n - 1] \in Replaced(v) THEN Replacer(v, walk[n - 1])
            ELSE walk[n - 1]
    IN walk[MaxClauses]

(***************************************************************************)
(* compare_requirement: what it can come to.  For a clause in force rules, *)
(* evidence and the model tell, which is open here.                        *)
(***************************************************************************)
Compared(v, c) ==
    IF c \in Replaced(v)
    THEN {[status |-> "NOT_APPLICABLE", summary |-> <<"replaced", Replacer(v, c)>>,
           stale |-> FALSE]}
    ELSE IF c \in InConflict(v)
    THEN {Verdict("NEEDS_REVIEW", "conflict")}
    ELSE {Verdict(status, "compared") : status \in {"MET", "NOT_MET", "NEEDS_REVIEW"}}

(***************************************************************************)
(* A session writes the columns it has changed.                            *)
(***************************************************************************)
Written(loaded, new, stored) ==
    [f \in DOMAIN new |-> IF new[f] = loaded[f] THEN stored[f] ELSE new[f]]
WrittenRun(loaded, new) == IF new = loaded THEN run ELSE new

\* The decisions a session sees: those it has loaded, and rows it had not.
Seen(loaded) == [c \in Clauses |-> IF loaded[c] = NoDecision THEN decision[c] ELSE loaded[c]]

(***************************************************************************)
(* build_checklist, given the decisions its session sees, and              *)
(* mark_run_complete_if_ready.                                             *)
(***************************************************************************)
Closed(d) == ~d.stale /\ d.status \in {"MET", "NOT_APPLICABLE"}

Checklist(D, reset) ==
    [c \in Clauses |->
        IF D[c] = NoDecision THEN item[c]
        ELSE IF Closed(D[c]) THEN IF item[c] = "none" THEN "none" ELSE "done"
        ELSE IF item[c] = "none" \/ D[c].stale \/ c \in reset THEN "open" ELSE item[c]]

NothingOpen(items, fills) ==
    /\ \A c \in Clauses : items[c] # "open"
    /\ planned => fills = Targets

MutReady(status, items, fills) ==
    IF status = "NEEDS_REVIEW" /\ NothingOpen(items, fills) THEN "COMPLETED" ELSE status
Ready(status, items, fills) ==
    IF status \in {"COMPLETED", "NEEDS_REVIEW"}
    THEN IF NothingOpen(items, fills) THEN "COMPLETED" ELSE "NEEDS_REVIEW"
    ELSE status

\* decide_run: the status of the run once decisions are D.
DecidedRun(D) ==
    IF \E c \in Clauses : D[c].status = "NEEDS_REVIEW" THEN "NEEDS_REVIEW" ELSE "COMPLETED"

-----------------------------------------------------------------------------
(***************************************************************************)
(* The analysis (analyze_project_job), one commit a step.                  *)
(***************************************************************************)
\* The job starts, or starts again: it extracts the clauses.
Begin ==
    /\ stage = "queued"
    /\ stage' = "resolving"
    /\ run' = "RUNNING"
    /\ clauses' = clauses \cup Extracted
    /\ worker' = [version |-> version, decision |-> decision]
    /\ UNCHANGED <<version, decision, item, target, reviewed, planned, todo, calls, bounds, history>>

IsFirst(c, S) == c \in S /\ \A d \in S : c <= d
Unsettled == {c \in Amendments \cap clauses : ~worker.version[c].settled}

\* Amendments are compared with what precedes them in other documents; base
\* documents precede all of them.
MutPrior(c) == {d \in clauses : d \notin Amendments \/ d <= c}
Prior(c) == {d \in clauses : d \notin Amendments \/ d < c}

\* resolve_requirement_versions: the next amendment.
Resolve(c) ==
    /\ stage = "resolving"
    /\ IsFirst(c, Unsettled)
    /\ \E new \in [replaces : SUBSET Prior(c), conflicts : SUBSET Prior(c), settled : {TRUE}] :
          /\ version' = [version EXCEPT ![c] = new]
          /\ worker' = [worker EXCEPT !.version[c] = new]
    /\ missed' = IF c \in missed THEN missed \cup Moved(version, version') ELSE missed
    /\ outrun' = (outrun \/ planned)
    /\ UNCHANGED <<clauses, decision, item, target, reviewed, planned, run,
                   stage, todo, calls, bounds>>

\* decide_run loads the decisions; when resuming it keeps those not stale.
BeginDeciding ==
    /\ stage = "resolving"
    /\ Unsettled = {}
    /\ stage' = "deciding"
    /\ worker' = [worker EXCEPT !.decision = decision]
    /\ todo' = {c \in clauses : decision[c] = NoDecision \/ decision[c].stale}
    /\ UNCHANGED <<rows, calls, bounds, history>>

Decide(c) ==
    /\ stage = "deciding"
    /\ IsFirst(c, todo)
    /\ todo' = todo \ {c}
    /\ \E new \in Compared(worker.version, c) :
          /\ decision' = [decision EXCEPT ![c] = Written(worker.decision[c], new, @)]
          /\ worker' = [worker EXCEPT !.decision[c] = new]
    /\ missed' = missed \ {c}
    /\ UNCHANGED <<clauses, version, item, target, reviewed, planned, run,
                   stage, calls, bounds, outrun>>

\* create_fill_plan links a place to a clause in force; a resumed analysis keeps
\* the plan it has, also one that a request has built meanwhile.
InForce(v) == clauses \ (Replaced(v) \cup InConflict(v))

MutLinks(v) == [Targets -> (clauses \ Replaced(v)) \cup {None}]
Links(v) == [Targets -> InForce(v) \cup {None}]

Plan ==
    /\ stage = "deciding"
    /\ todo = {}
    /\ stage' = "filling"
    /\ planned' = TRUE
    /\ IF planned
       THEN UNCHANGED <<target, reviewed>>
       ELSE /\ target' \in Links(worker.version)
            /\ reviewed' = {}
    /\ UNCHANGED <<clauses, version, decision, item, run, worker, todo, calls, bounds, history>>

\* mark_project_stale for this run.
Stale == [c \in Clauses |->
             IF decision[c] = NoDecision THEN NoDecision ELSE [decision[c] EXCEPT !.stale = TRUE]]
MarkStale ==
    /\ decision' = Stale
    /\ run' = IF run = "FAILED" THEN "FAILED" ELSE "STALE"
    /\ reviewed' = {}
    /\ item' = Checklist(Stale, {})

\* The end: the run is marked if its inputs have changed meanwhile.
Finish ==
    /\ stage = "filling"
    /\ stage' = "idle"
    /\ \/ MarkStale
       \/ /\ item' = Checklist(Seen(worker.decision), {})
          /\ run' = IF NothingOpen(item', reviewed) THEN "COMPLETED" ELSE "NEEDS_REVIEW"
          /\ UNCHANGED <<decision, reviewed>>
    /\ UNCHANGED <<clauses, version, target, planned, worker, todo, calls, bounds, history>>

\* The job fails, is canceled, or its worker crashes and comes back.
Fail ==
    /\ stage # "idle"
    /\ stage' = "idle"
    /\ run' = "FAILED"
    /\ UNCHANGED <<clauses, version, decision, item, target, reviewed, planned,
                   worker, todo, calls, bounds, history>>

Analysis ==
    \/ Begin
    \/ \E c \in Clauses : Resolve(c)
    \/ BeginDeciding
    \/ \E c \in Clauses : Decide(c)
    \/ Plan
    \/ Finish
    \/ Fail

-----------------------------------------------------------------------------
(***************************************************************************)
(* Requests.  Each begins with _require_run_idle, which loads the run.     *)
(***************************************************************************)
Unread == [c \in Clauses |-> NoVersion]
Bare == [c \in Clauses |-> NoDecision]
Call(op, on) ==
    [op |-> op, on |-> on, ids |-> {}, verdict |-> "none", item |-> "none",
     version |-> Unread, decision |-> Bare, run |-> run]
NoCall == [Call("none", 0) EXCEPT !.run = "none"]

Idle == stage = "idle" /\ run \notin {"DRAFT", "RUNNING"}

Load(c, call) ==
    /\ Idle
    /\ calls[c] = NoCall
    /\ requests < MaxRequests
    /\ requests' = requests + 1
    /\ calls' = [calls EXCEPT ![c] = call]
    /\ UNCHANGED <<rows, job, resumes, history>>

Done(c) == calls' = [calls EXCEPT ![c] = NoCall]

(***************************************************************************)
(* update_requirement with supersedes_ids: clause r replaces those in ids, *)
(* and the relation is confirmed.                                          *)
(***************************************************************************)
MutClosesCycle(v, r, ids) == r \in ids
ClosesCycle(v, r, ids) == r \in Reach(v, ids)

RelationRead(c, r, ids) ==
    /\ ids \subseteq clauses \ {r}
    /\ ~ClosesCycle(version, r, ids)
    /\ Load(c, [Call("relation", r) EXCEPT !.ids = ids, !.version = version])

\* affected_ids: the clauses whose standing the edit changes.
MutAffected(old, new, r) ==
    {r} \cup {k \in Clauses : Replacer(old, k) # Replacer(new, k)}
MutAffectedAll(old, new, r) == clauses
Affected(old, new, r) ==
    {r} \cup {k \in Clauses : Replacer(old, k) # Replacer(new, k)}
        \cup ((InConflict(old) \ InConflict(new)) \cup (InConflict(new) \ InConflict(old)))

\* The verdicts decide_run can come to about the clauses in K.
Verdicts(v, K) ==
    {D \in [K -> UNION {Compared(v, k) : k \in K}] : \A k \in K : D[k] \in Compared(v, k)}

\* The flush takes the lock; decide_run commits.
RelationCommit(c) ==
    LET call == calls[c]
        confirmed == [replaces |-> call.ids, conflicts |-> {}, settled |-> TRUE]
        new == [call.version EXCEPT ![call.on] = confirmed]
        affected == Affected(call.version, new, call.on)
    IN /\ call.op = "relation"
       /\ version' = [version EXCEPT ![call.on] = confirmed]
       /\ missed' = missed \ affected
       /\ \E D \in Verdicts(new, affected) :
             LET decided == [k \in Clauses |-> IF k \in affected THEN D[k] ELSE decision[k]]
                 status == IF call.run = "STALE" THEN "STALE" ELSE DecidedRun(decided)
             IN /\ decision' = decided
                /\ run' = WrittenRun(call.run, status)
                /\ calls' = [calls EXCEPT ![c] = [call EXCEPT
                      !.op = "relink", !.ids = affected, !.version = new,
                      !.decision = decided, !.run = status]]
       /\ UNCHANGED <<clauses, item, target, reviewed, planned, job, bounds, outrun>>

\* Another transaction links the places anew, reopens what was filled in, and
\* rebuilds the checklist.  The loop over replacements may not end.
RelationFinish(c) ==
    LET call == calls[c]
        last(t) == IF target[t] = None THEN None ELSE Latest(call.version, target[t])
    IN /\ call.op = "relink"
       /\ \A t \in Targets : last(t) \notin Replaced(call.version)
       /\ target' = [t \in Targets |->
                        IF last(t) \in InConflict(call.version) THEN None ELSE last(t)]
       /\ run' = IF call.run = "COMPLETED" THEN "NEEDS_REVIEW" ELSE run
       /\ reviewed' = {}
       /\ outrun' = FALSE
       /\ item' = Checklist(Seen(call.decision), call.ids)
       /\ Done(c)
       /\ UNCHANGED <<clauses, version, decision, planned, job, bounds, missed>>

(***************************************************************************)
(* update_requirement otherwise: the decision about r is reopened.  An edit *)
(* may send condition_json whole, without _version: of what r replaces and *)
(* contradicts the column supersedes_id then keeps one clause at most, and *)
(* nothing is decided again.                                               *)
(***************************************************************************)
EditRead(c, r, what) == Load(c, [Call("edit", r) EXCEPT !.verdict = what])

Stripped(v) ==
    {[replaces |-> kept, conflicts |-> {}, settled |-> FALSE] :
        kept \in IF v.replaces = {} THEN {{}} ELSE {{k} : k \in v.replaces}}

EditCommit(c) ==
    LET r == calls[c].on
    IN /\ calls[c].op = "edit"
       /\ \E new \in IF calls[c].verdict = "condition" THEN Stripped(version[r])
                     ELSE {version[r]} :
             version' = [version EXCEPT ![r] = new]
       /\ missed' = missed \cup Moved(version, version')
       /\ decision' = IF decision[r] = NoDecision THEN decision
                      ELSE [decision EXCEPT ![r] =
                              [Verdict("NEEDS_REVIEW", "edited") EXCEPT !.stale = TRUE]]
       /\ run' = IF calls[c].run = "COMPLETED" THEN "NEEDS_REVIEW" ELSE run
       /\ reviewed' = {}
       /\ item' = Checklist(decision', {r})
       /\ Done(c)
       /\ UNCHANGED <<clauses, target, planned, job, bounds, outrun>>

(***************************************************************************)
(* create_review.                                                          *)
(***************************************************************************)
ReviewRead(c, r, status) ==
    /\ decision[r] # NoDecision
    /\ Load(c, [Call("review", r) EXCEPT !.verdict = status, !.decision[r] = decision[r]])

ReviewCommit(c) ==
    LET call == calls[c]
        r == call.on
        new == Verdict(call.verdict, "human")
    IN /\ call.op = "review"
       /\ decision' = [decision EXCEPT ![r] = Written(call.decision[r], new, @)]
       /\ item' = Checklist([decision EXCEPT ![r] = new], {r})
       /\ run' = WrittenRun(call.run, Ready(call.run, item', reviewed))
       /\ Done(c)
       /\ UNCHANGED <<clauses, version, target, reviewed, planned, job, bounds, history>>

(***************************************************************************)
(* update_checklist: the item is saved, then the open items are read, then *)
(* the run is saved.                                                       *)
(***************************************************************************)
TickRead(c, r, value) ==
    /\ item[r] # "none"
    /\ Load(c, [Call("tick", r) EXCEPT !.verdict = value, !.item = item[r]])

TickCommit(c) ==
    LET call == calls[c]
    IN /\ call.op = "tick"
       /\ item' = IF call.verdict = call.item THEN item
                  ELSE [item EXCEPT ![call.on] = call.verdict]
       /\ calls' = [calls EXCEPT ![c] = [call EXCEPT
             !.op = "ticked", !.verdict = Ready(call.run, item', reviewed)]]
       /\ UNCHANGED <<clauses, version, decision, target, reviewed, planned, run, job, bounds, history>>

TickFinish(c) ==
    /\ calls[c].op = "ticked"
    /\ run' = WrittenRun(calls[c].run, calls[c].verdict)
    /\ Done(c)
    /\ UNCHANGED <<clauses, version, decision, item, target, reviewed, planned, job, bounds, history>>

(***************************************************************************)
(* recheck_rules: all clauses are decided again by rules alone.            *)
(***************************************************************************)
RecheckRead(c) ==
    /\ run # "FAILED"
    /\ Load(c, [Call("recheck", 0) EXCEPT
          !.ids = clauses, !.version = version, !.decision = decision])

RecheckCommit(c) ==
    LET call == calls[c]
    IN /\ call.op = "recheck"
       /\ missed' = missed \ call.ids
       /\ \E D \in Verdicts(call.version, call.ids) :
             LET decided == [k \in Clauses |->
                               IF k \in call.ids THEN D[k] ELSE call.decision[k]]
                 status == DecidedRun(decided)
             IN /\ decision' = [k \in Clauses |->
                      IF k \in call.ids THEN Written(call.decision[k], D[k], decision[k])
                      ELSE decision[k]]
                /\ run' = WrittenRun(call.run, status)
                /\ calls' = [calls EXCEPT ![c] = [call EXCEPT
                      !.op = "rechecked", !.decision = decided, !.run = status]]
       /\ UNCHANGED <<clauses, version, item, target, reviewed, planned, job, bounds, outrun>>

RecheckFinish(c) ==
    LET call == calls[c]
    IN /\ call.op = "rechecked"
       /\ item' = Checklist(Seen(call.decision), clauses)
       /\ run' = WrittenRun(call.run, Ready(call.run, item', reviewed))
       /\ Done(c)
       /\ UNCHANGED <<clauses, version, decision, target, reviewed, planned, job, bounds, history>>

(***************************************************************************)
(* create_requirement: a person adds a clause.                             *)
(***************************************************************************)
AddRead(c) == Load(c, Call("add", 0))

AddCommit(c) ==
    LET new == Clauses \ (clauses \cup Extracted)
    IN /\ calls[c].op = "add"
       /\ new # {}
       /\ clauses' = clauses \cup {Min(new)}
       /\ decision' = [decision EXCEPT ![Min(new)] = Verdict("NEEDS_REVIEW", "added")]
       /\ run' = IF calls[c].run = "STALE" THEN run ELSE WrittenRun(calls[c].run, "NEEDS_REVIEW")
       /\ item' = Checklist(decision', {})
       /\ Done(c)
       /\ UNCHANGED <<version, target, reviewed, planned, job, bounds, history>>

(***************************************************************************)
(* update_fill_suggestion: the suggestion for place t is dealt with, or put *)
(* back.                                                                   *)
(***************************************************************************)
FillRead(c, t) == planned /\ Load(c, [Call("fill", 0) EXCEPT !.ids = {t}])

FillCommit(c) ==
    /\ calls[c].op = "fill"
    /\ reviewed' \in {reviewed \cup calls[c].ids, reviewed \ calls[c].ids}
    /\ item' = Checklist(decision, {})
    /\ run' = WrittenRun(calls[c].run, Ready(calls[c].run, item', reviewed'))
    /\ Done(c)
    /\ UNCHANGED <<clauses, version, decision, target, planned, job, bounds, history>>

(***************************************************************************)
(* build_fill_plan: the places are linked, or linked anew, as the clauses  *)
(* stand; after a failed analysis too.                                     *)
(***************************************************************************)
BuildRead(c) == Load(c, Call("build", 0))

BuildCommit(c) ==
    /\ calls[c].op = "build"
    /\ planned' = TRUE
    /\ target' \in Links(version)
    /\ reviewed' = IF planned THEN reviewed ELSE {}
    /\ outrun' = FALSE
    /\ item' = Checklist(decision, {})
    /\ \E status \in {calls[c].run} :
          run' = WrittenRun(status, Ready(status, item, reviewed)')
    /\ Done(c)
    /\ UNCHANGED <<clauses, version, decision, job, bounds, missed>>

\* auto_checklist.
RefreshRead(c) == Load(c, Call("refresh", 0))

RefreshCommit(c) ==
    /\ calls[c].op = "refresh"
    /\ item' = Checklist(decision, {})
    /\ run' = WrittenRun(calls[c].run, Ready(calls[c].run, item', reviewed))
    /\ Done(c)
    /\ UNCHANGED <<clauses, version, decision, target, reviewed, planned, job, bounds, history>>

(***************************************************************************)
(* resume_analysis.  Of two resumptions at once only one gets here.        *)
(***************************************************************************)
ResumeRead(c) ==
    /\ run = "FAILED"
    /\ resumes < MaxResumes
    /\ Load(c, Call("resume", 0))

ResumeCommit(c) ==
    /\ calls[c].op = "resume"
    /\ stage = "idle"
    /\ resumes < MaxResumes
    /\ resumes' = resumes + 1
    /\ stage' = "queued"
    /\ run' = "DRAFT"
    /\ Done(c)
    /\ UNCHANGED <<clauses, version, decision, item, target, reviewed, planned,
                   worker, todo, requests, history>>

\* An edit of the project's inputs that holds the lock.
InputEdit(c) ==
    /\ calls[c] = NoCall
    /\ run \in {"COMPLETED", "NEEDS_REVIEW", "STALE", "FAILED"}
    /\ requests < MaxRequests
    /\ requests' = requests + 1
    /\ MarkStale
    /\ UNCHANGED <<clauses, version, target, planned, job, calls, resumes, history>>

Request(c) ==
    \/ \E r \in clauses :
          \/ \E ids \in SUBSET clauses : RelationRead(c, r, ids)
          \/ \E what \in {"text", "condition"} : EditRead(c, r, what)
          \/ \E status \in Statuses : ReviewRead(c, r, status)
          \/ \E value \in {"open", "done"} : TickRead(c, r, value)
    \/ RelationCommit(c)
    \/ RelationFinish(c)
    \/ EditCommit(c)
    \/ ReviewCommit(c)
    \/ TickCommit(c)
    \/ TickFinish(c)
    \/ RecheckRead(c)
    \/ RecheckCommit(c)
    \/ RecheckFinish(c)
    \/ AddRead(c)
    \/ AddCommit(c)
    \/ \E t \in Targets : FillRead(c, t)
    \/ FillCommit(c)
    \/ BuildRead(c)
    \/ BuildCommit(c)
    \/ RefreshRead(c)
    \/ RefreshCommit(c)
    \/ ResumeRead(c)
    \/ ResumeCommit(c)
    \/ InputEdit(c)

Init ==
    /\ clauses = {}
    /\ version = Unread
    /\ decision = Bare
    /\ item = [c \in Clauses |-> "none"]
    /\ target = [t \in Targets |-> None]
    /\ reviewed = {}
    /\ planned = FALSE
    /\ run = "DRAFT"
    /\ stage = "queued"
    /\ worker = [version |-> Unread, decision |-> Bare]
    /\ todo = {}
    /\ calls = [c \in Callers |-> NoCall]
    /\ requests = 0
    /\ resumes = 0
    /\ missed = {}
    /\ outrun = FALSE

Next == Analysis \/ \E c \in Callers : Request(c)

Spec == Init /\ [][Next]_vars

-----------------------------------------------------------------------------
Versions == [replaces : SUBSET clauses, conflicts : SUBSET clauses, settled : BOOLEAN]
Reasons == {"replaced", "conflict", "compared", "edited", "human", "added"} \X (clauses \cup {0})
Decisions == [status : Statuses, summary : Reasons, stale : BOOLEAN]

\* The rows fit together: what a clause replaces exists and is another one, and
\* only clauses that exist have decisions, items or places linked to them.
TypeOK ==
    /\ clauses \subseteq Clauses
    /\ \A c \in clauses :
          /\ version[c] \in Versions
          /\ c \notin version[c].replaces \cup version[c].conflicts
          /\ decision[c] \in Decisions \cup {NoDecision}
          /\ decision[c] = NoDecision => item[c] = "none"
    /\ \A c \in Clauses \ clauses :
          version[c] = NoVersion /\ decision[c] = NoDecision /\ item[c] = "none"
    /\ target \in [Targets -> clauses \cup {None}]
    /\ reviewed \subseteq Targets
    /\ run \in {"DRAFT", "RUNNING", "COMPLETED", "NEEDS_REVIEW", "STALE", "FAILED"}
    /\ stage \in {"idle", "queued", "resolving", "deciding", "filling"}

\* No call is between two commits.
Whole == \A c \in Callers : calls[c].op \notin {"relink", "ticked", "rechecked"}

\* A run reads completed only when nothing is open: every item of the checklist
\* is done, every place to fill has been dealt with, and a clause that is not
\* met has been ticked off by somebody (checklist.py, decide_run, the requests).
CompletedRunHasNothingOpen ==
    run = "COMPLETED" /\ Whole =>
        /\ NothingOpen(item, reviewed)
        /\ \A c \in clauses : decision[c] # NoDecision /\ ~Closed(decision[c]) => item[c] = "done"

\* Whatever relations are edited, a decision that is not marked stale and was
\* not made by a person says what becomes of the clause under the relations
\* there are now: replaced by this clause, in conflict, or compared
\* (affected_ids of update_requirement, compare_requirement).  The exception are
\* clauses whose standing changed with an edit that dropped relations by sending
\* condition_json whole, until they are decided again.
DecisionsFollowVersions ==
    \A c \in clauses \ missed :
        decision[c] # NoDecision /\ ~decision[c].stale /\ decision[c].summary[1] # "human" =>
            \/ decision[c].summary \in {d.summary : d \in Compared(version, c)}
            \/ decision[c].summary[1] = "added" /\ c \in InForce(version)

\* Places to fill are linked to clauses in force (create_fill_plan and the loop
\* at the end of update_requirement), unless amendments were resolved after the
\* plan was built: for a failed run a plan can be asked for before they are, and
\* the resumed analysis keeps it.
PlacesLinkedToClausesInForce ==
    Whole /\ ~outrun => \A t \in Targets : target[t] \in InForce(version) \cup {None}

\* Clauses never replace each other in a circle, neither by what the amendments
\* say nor by what people confirm (update_requirement refuses such an edit).
NoCycle == \A c \in Clauses : c \notin Reach(version, version[c].replaces)

\* The loop that follows replacements to the clause a place is linked to ends
\* (update_requirement, between its two commits).
RelinkingEnds ==
    \A c \in Callers : calls[c].op = "relink" =>
        \A t \in Targets :
            target[t] # None => Latest(calls[c].version, target[t]) \notin Replaced(calls[c].version)

\* An edit of relations keeps what people have concluded about clauses whose
\* standing it does not change (affected_ids of update_requirement).
UnrelatedConclusionsKept ==
    [][\A c \in Clauses :
          /\ version' # version
          /\ c \notin Moved(version, version')
          /\ decision[c].summary[1] = "human"
          => decision'[c] = decision[c]]_vars
=============================================================================
