------------------------------ MODULE FillPlan ------------------------------
(***************************************************************************)
(* The places of a bid template that are to be filled in: located in the   *)
(* template, matched with response values or drafted page by page by the   *)
(* model, moved, added, removed, confirmed and reopened by people          *)
(* (services/fill.py, services/suggestions.py, draft_fill_plan_job and the *)
(* requests of routes.py, offline.py and library.py on them).              *)
(*                                                                         *)
(* One analysis run with one template, parsed once, and the drafts people  *)
(* ask for: a draft that is part of an analysis has its run's freshness    *)
(* (AnalysisFreshness).  Requests on the plan are refused while a job is   *)
(* queued or running (_require_run_idle); edits of the inputs are not.     *)
(* The queue is JobQueue's: here the last draft job only, never repeated,  *)
(* and a crash is a failure followed by what fail_running_jobs does.       *)
(***************************************************************************)
EXTENDS Integers

CONSTANTS
    Fields,         \* the places
    PageOf,         \* [Fields -> page index]
    Signatures,     \* places for a signature or a stamp
    Detected,       \* places detect_fill_slots finds; people can add the others
    Matched,        \* [state of the inputs -> places that may be filled from a response value]
    MaxInputs, MaxRequirements, MaxBuilds,  \* bounds
    MaxMoves, Movable       \* bounds: how often and which places are moved

VARIABLES
    inputs,         \* the state of the project's inputs, whose signature is compared
    requirements,   \* the state of the run's requirements
    slots,          \* fill_slots: "absent", "located" or "ignored"
    moved,          \* how often the label or the box of a place was changed
    targets,        \* the suggestion for each place, or NoTarget
    built,          \* how often targets were created: the ids of new ones
    plan,           \* FillPlan.status
    job,            \* the last draft job
    worker          \* what the running job has loaded

vars == <<inputs, requirements, slots, moved, targets, built, plan, job, worker>>

ASSUME FillAssumption ==
    /\ PageOf \in [Fields -> Nat]
    /\ Signatures \subseteq Fields /\ Detected \subseteq Fields
    /\ Matched \in [0 .. MaxInputs -> SUBSET (Fields \ Signatures)]
    /\ MaxInputs \in Nat /\ MaxRequirements \in Nat /\ MaxMoves \in Nat /\ MaxBuilds \in Nat

(***************************************************************************)
(* Values.  "proposed" stands for missing_evidence, too, which is proposed *)
(* without a value; "confirmed" for accepted and edited, which need one,   *)
(* and rejected, which does not.  A value is a person's or another text; a *)
(* suggestion is bound if a response value is its only source.             *)
(***************************************************************************)
NoTarget == [id |-> 0]
Live == {f \in Fields : targets[f] # NoTarget}
Confirmed == {f \in Live : targets[f].status = "confirmed"}

\* What a draft was made from: the inputs, the requirements and the place.
NoBasis == <<>>
Present(f) == <<inputs, requirements, moved[f]>>

NotDrafted(id) ==
    [id |-> id, status |-> "proposed", value |-> "none", reviewed |-> FALSE,
     bound |-> FALSE, basis |-> NoBasis]

Filled(t, bound, basis) ==
    [t EXCEPT !.status = "proposed", !.value = "text", !.bound = bound, !.basis = basis]

\* create_fill_plan, for one place.
Proposal(f, id) ==
    IF f \in Matched[inputs] THEN Filled(NotDrafted(id), TRUE, Present(f)) ELSE NotDrafted(id)

\* invalidate_fill_plans: a confirmation is taken back, its value is kept.
Reopened(t) == IF t = NoTarget THEN t ELSE [t EXCEPT !.status = "proposed"]

Invalidate ==
    /\ targets' = [f \in Fields |-> Reopened(targets[f])]
    /\ plan' = IF plan \in {"none", "queued", "drafting"} THEN plan ELSE "stale"

\* What the checkpoint of a page is valid for.
MutSignature(p) == <<requirements, {<<f, moved[f]>> : f \in {g \in Live : PageOf[g] = p}}>>
Signature(p) ==
    <<requirements,
      {<<f, targets[f].id, moved[f]>> : f \in {g \in Live : PageOf[g] = p}}>>

NoJob == [status |-> "none", signature |-> 0, cancel |-> FALSE, drafted |-> {}]
Active == job.status \in {"queued", "running"}
Idle == [at |-> "idle", open |-> {}, bound |-> {}, inputs |-> 0, left |-> {}]

-----------------------------------------------------------------------------
(***************************************************************************)
(* Requests on the plan.                                                   *)
(***************************************************************************)
MutKept(f) == f \in Confirmed
Kept(f) == f \in Live /\ targets[f].reviewed

\* create_fill_plan, or rebuild_fill_plan: every target is replaced by a new one, and
\* what a person has reviewed is copied to it.
Build(located) ==
    /\ built < MaxBuilds
    /\ built' = built + 1
    /\ slots' = located
    /\ targets' = [f \in Fields |->
                      IF located[f] # "located" THEN NoTarget
                      ELSE IF Kept(f) THEN [targets[f] EXCEPT !.id = built']
                      ELSE Proposal(f, built')]

\* POST /analysis-runs/{id}/fill-plan.
BuildPlan ==
    /\ ~Active
    /\ Build([f \in Fields |-> IF plan = "none" /\ f \in Detected THEN "located" ELSE slots[f]])
    /\ plan' = IF plan = "none" THEN "draft" ELSE plan
    /\ UNCHANGED <<inputs, requirements, moved, job, worker>>

\* POST /fill-plans/{id}/targets: a rebuild with one place more.
AddTarget(f) ==
    /\ ~Active /\ plan # "none" /\ slots[f] = "absent"
    /\ Build([slots EXCEPT ![f] = "located"])
    /\ UNCHANGED <<inputs, requirements, moved, plan, job, worker>>

\* PATCH /fill-targets/{id}.
MoveTarget(f) ==
    /\ ~Active /\ f \in Live /\ f \in Movable /\ moved[f] < MaxMoves
    /\ moved' = [moved EXCEPT ![f] = @ + 1]
    /\ UNCHANGED <<inputs, requirements, slots, targets, built, plan, job, worker>>

\* DELETE /fill-targets/{id}.
MutRemoveTarget(f) ==
    /\ ~Active /\ f \in Live
    /\ targets' = [targets EXCEPT ![f] = NoTarget]
    /\ UNCHANGED <<inputs, requirements, slots, moved, built, plan, job, worker>>
RemoveTarget(f) ==
    /\ ~Active /\ f \in Live
    /\ slots' = [slots EXCEPT ![f] = "ignored"]
    /\ targets' = [targets EXCEPT ![f] = NoTarget]
    /\ UNCHANGED <<inputs, requirements, moved, built, plan, job, worker>>

\* PATCH /fill-suggestions/{id}: a stale plan with nothing open is reviewed.
Review(f, value) ==
    /\ ~Active /\ f \in Live
    /\ value \in {targets[f].value, "entered"}
    /\ targets' = [targets EXCEPT ![f].status = "confirmed", ![f].value = value,
                                  ![f].reviewed = TRUE]
    /\ plan' = IF plan = "stale" /\ \A g \in Live \ {f} : g \in Confirmed
               THEN "reviewed" ELSE plan
    /\ UNCHANGED <<inputs, requirements, slots, moved, built, job, worker>>

\* POST /fill-plans/{id}/draft: the pages a failed or canceled job has drafted from the
\* same inputs are taken over.
MutResumable == plan \in {"failed", "canceled"}
Resumable ==
    /\ plan \in {"failed", "canceled"}
    /\ job.status \in {"failed", "canceled"}
    /\ job.signature = inputs

RequestDraft ==
    /\ ~Active /\ plan # "none"
    /\ job' = [NoJob EXCEPT !.status = "queued", !.signature = inputs,
                            !.drafted = IF Resumable THEN job.drafted ELSE {}]
    /\ plan' = "queued"
    /\ UNCHANGED <<inputs, requirements, slots, moved, targets, built, worker>>

CancelDraft ==
    /\ Active /\ ~job.cancel
    /\ IF job.status = "queued"
       THEN job' = [job EXCEPT !.cancel = TRUE, !.status = "canceled"] /\ plan' = "canceled"
       ELSE job' = [job EXCEPT !.cancel = TRUE] /\ UNCHANGED plan
    /\ UNCHANGED <<inputs, requirements, slots, moved, targets, built, worker>>

\* An edit of the inputs, at any time (mark_project_stale), and one of a requirement.
EditInputs ==
    /\ inputs < MaxInputs
    /\ inputs' = inputs + 1
    /\ Invalidate
    /\ UNCHANGED <<requirements, slots, moved, built, job, worker>>

EditRequirement ==
    /\ ~Active /\ requirements < MaxRequirements
    /\ requirements' = requirements + 1
    /\ Invalidate
    /\ UNCHANGED <<inputs, slots, moved, built, job, worker>>

-----------------------------------------------------------------------------
(***************************************************************************)
(* draft_fill_plan_job.                                                    *)
(***************************************************************************)
MutOpen == Live \ Signatures
Open == Live \ (Confirmed \cup Signatures)

\* The places still bound to a response value are given its value; the others are
\* drafted, page by page.
BeginDraft ==
    LET bound == {f \in Open : targets[f].bound /\ f \in Matched[inputs]}
        open == Open \ bound
    IN /\ job.status = "queued"
       /\ job' = [job EXCEPT !.status = "running"]
       /\ plan' = "drafting"
       /\ worker' = [at |-> "page", open |-> open, bound |-> bound, inputs |-> inputs,
                     left |-> {PageOf[f] : f \in open}]
       /\ UNCHANGED <<inputs, requirements, slots, moved, targets, built>>

\* Pages are taken in ascending order.
First(p) == p \in worker.left /\ \A q \in worker.left : p <= q
Turn(p) == worker.at = "page" /\ First(p) /\ ~job.cancel
Completed(p) == \E c \in job.drafted : c.page = p /\ c.signature = Signature(p)

SkipPage(p) ==
    /\ Turn(p) /\ Completed(p)
    /\ worker' = [worker EXCEPT !.left = @ \ {p}]
    /\ UNCHANGED <<inputs, requirements, slots, moved, targets, built, plan, job>>

\* The values bound to places are committed before the first request to the model.
Basis(f) == <<worker.inputs, requirements, moved[f]>>
BoundTargets ==
    [f \in Fields |-> IF f \in worker.bound THEN Filled(targets[f], TRUE, Basis(f)) ELSE targets[f]]

AskPage(p) ==
    /\ Turn(p) /\ ~Completed(p)
    /\ targets' = BoundTargets
    /\ worker' = [worker EXCEPT !.at = "asked", !.bound = {}]
    /\ UNCHANGED <<inputs, requirements, slots, moved, built, plan, job>>

\* A page and its checkpoint are one commit.  The answer has every place that was asked
\* for: some without a value, and some from a response value alone.
SavePage(p, blanks, bound) ==
    LET asked == {f \in worker.open : PageOf[f] = p}
        draft(f) == IF f \in blanks THEN [Filled(targets[f], FALSE, Basis(f)) EXCEPT !.value = "none"]
                                    ELSE Filled(targets[f], f \in bound, Basis(f))
    IN /\ worker.at = "asked" /\ First(p) /\ ~job.cancel
       /\ blanks \cup bound \subseteq asked /\ bound \subseteq Matched[worker.inputs] \ blanks
       /\ targets' = [f \in Fields |-> IF f \in asked THEN draft(f) ELSE targets[f]]
       /\ job' = [job EXCEPT !.drafted =
                    {c \in @ : c.page # p} \cup {[page |-> p, signature |-> Signature(p)]}]
       /\ worker' = [worker EXCEPT !.at = "page", !.left = @ \ {p}]
       /\ UNCHANGED <<inputs, requirements, slots, moved, built, plan>>

EndDraft ==
    /\ worker.at = "page" /\ worker.left = {}
    /\ targets' = BoundTargets
    /\ plan' = "drafted"
    /\ worker' = [worker EXCEPT !.at = "drafted", !.bound = {}]
    /\ UNCHANGED <<inputs, requirements, slots, moved, built, job>>

\* The signature of the inputs is compared with that of the request.
Overtaken == job.signature # inputs

CheckInputs ==
    /\ worker.at = "drafted"
    /\ IF Overtaken THEN Invalidate ELSE UNCHANGED <<targets, plan>>
    /\ worker' = [worker EXCEPT !.at = "checked"]
    /\ UNCHANGED <<inputs, requirements, slots, moved, built, job>>

\* _process_one replaces the result, and with it the checkpoints.
Complete ==
    /\ worker.at = "checked" /\ ~job.cancel
    /\ job' = [job EXCEPT !.status = "completed", !.drafted = {}]
    /\ worker' = Idle
    /\ UNCHANGED <<inputs, requirements, slots, moved, targets, built, plan>>

\* An error, a cancellation, or a crash and the restart after it.
Stop ==
    /\ worker # Idle
    /\ LET status == IF job.cancel THEN "canceled" ELSE "failed"
       IN job' = [job EXCEPT !.status = status] /\ plan' = status
    /\ worker' = Idle
    /\ UNCHANGED <<inputs, requirements, slots, moved, targets, built>>

-----------------------------------------------------------------------------
Init ==
    /\ inputs = 0 /\ requirements = 0
    /\ slots = [f \in Fields |-> "absent"]
    /\ moved = [f \in Fields |-> 0]
    /\ targets = [f \in Fields |-> NoTarget]
    /\ built = 0
    /\ plan = "none"
    /\ job = NoJob
    /\ worker = Idle

Next ==
    \/ BuildPlan \/ RequestDraft \/ CancelDraft \/ EditInputs \/ EditRequirement
    \/ \E f \in Fields : AddTarget(f) \/ MoveTarget(f) \/ RemoveTarget(f)
    \/ \E f \in Fields, value \in {"none", "text", "entered"} : Review(f, value)
    \/ BeginDraft \/ EndDraft
    \/ \E p \in worker.left : SkipPage(p) \/ AskPage(p)
    \/ \E p \in worker.left, blanks, bound \in SUBSET worker.open : SavePage(p, blanks, bound)
    \/ CheckInputs \/ Complete \/ Stop

Spec == Init /\ [][Next]_vars

-----------------------------------------------------------------------------
(***************************************************************************)
(* Properties.                                                             *)
(***************************************************************************)
BasisType == (0 .. MaxInputs) \X (0 .. MaxRequirements) \X (0 .. MaxMoves)

TargetType(t) ==
    /\ t.id \in 1 .. built
    /\ t.status \in {"proposed", "confirmed"}
    /\ t.value \in {"none", "text", "entered"}
    /\ t.reviewed \in BOOLEAN /\ t.bound \in BOOLEAN
    /\ t.basis \in BasisType \cup {NoBasis}

\* Every variable has its type; a place has a suggestion exactly while it is located, so
\* that one a person removed never comes back with a rebuild; and what the job has loaded
\* is there until it ends, because the plan's requests are refused meanwhile.
TypeOK ==
    /\ inputs \in 0 .. MaxInputs /\ requirements \in 0 .. MaxRequirements
    /\ moved \in [Fields -> 0 .. MaxMoves]
    /\ built \in 0 .. MaxBuilds
    /\ \A f \in Fields :
          /\ slots[f] \in {"absent", "located", "ignored"}
          /\ slots[f] = "located" <=> f \in Live
          /\ f \in Live => TargetType(targets[f])
    /\ plan \in {"none", "draft", "queued", "drafting", "drafted", "stale", "reviewed",
                 "failed", "canceled"}
    /\ job.status \in {"none", "queued", "running", "completed", "failed", "canceled"}
    /\ job.signature \in 0 .. MaxInputs
    /\ worker.at \in {"idle", "page", "asked", "drafted", "checked"}
    /\ worker.at # "idle" <=> job.status = "running"
    /\ worker.open \cup worker.bound \subseteq Live

\* What a person has confirmed is changed by that person's requests only: neither a draft
\* that was under way, failed and resumed, nor a rebuild replaces it
\* (README.md: confirmed contents are kept when the rest is drafted again).
ConfirmedValuesKept ==
    [][\A f \in Confirmed :
          f \in Live' =>
              \/ targets'[f].value = "entered"
              \/ targets'[f].value = targets[f].value /\ targets'[f].basis = targets[f].basis]_vars

\* A rebuild takes back no review, also of what an edit has reopened since
\* (rebuild_fill_plan after add_fill_target).
ReviewsSurviveRebuild ==
    [][built' # built =>
          \A f \in Live \cap Live' : targets[f].reviewed =>
              targets'[f] = [targets[f] EXCEPT !.id = built']]_vars

\* When a job is done every place has had its answer, made for the place as it is now and
\* under the present requirements, whatever was skipped because an earlier job that failed
\* or was canceled had saved it, and whatever was built, moved or edited in between
\* (PROJECT_STATE.md on resumed drafts).
FinishedDraftIsComplete ==
    worker.at = "drafted" =>
        \A f \in Open : targets[f].reviewed \/
            /\ targets[f].basis # NoBasis
            /\ targets[f].basis[2] = requirements /\ targets[f].basis[3] = moved[f]

\* A plan that is shown as drafted has no draft from other inputs than the present ones:
\* edits that overtake a draft leave the plan stale (draft_fill_plan_job, mark_project_stale).
\* Inputs do not return to an earlier state here.
DraftedPlanIsFresh ==
    plan = "drafted" /\ ~Active =>
        \A f \in Live :
            targets[f].basis # NoBasis /\ ~targets[f].reviewed => targets[f].basis[1] = inputs
=============================================================================
