--------------------------- MODULE FillPlan_proofs ---------------------------
(***************************************************************************)
(* The properties of FillPlan for any places, pages, response values and   *)
(* bounds.                                                                 *)
(***************************************************************************)
EXTENDS FillPlan, TLAPS

Statuses == {"none", "queued", "running", "completed", "failed", "canceled"}
Plans == {"none", "draft", "queued", "drafting", "drafted", "stale", "reviewed", "failed",
          "canceled"}
Target == [id : Nat, status : {"proposed", "confirmed"}, value : {"none", "text", "entered"},
           reviewed : BOOLEAN, bound : BOOLEAN, basis : BasisType \cup {NoBasis}]
PageSignature == Nat \X SUBSET (Fields \X Nat \X Nat)
Checkpoint == [page : Nat, signature : PageSignature]
Job == [status : Statuses, signature : 0 .. MaxInputs, cancel : BOOLEAN,
        drafted : SUBSET Checkpoint]
Worker == [at : {"idle", "page", "asked", "drafted", "checked"}, open : SUBSET Fields,
           bound : SUBSET Fields, inputs : 0 .. MaxInputs, left : SUBSET Nat]

Counted ==
    /\ inputs \in 0 .. MaxInputs /\ requirements \in 0 .. MaxRequirements
    /\ moved \in [Fields -> 0 .. MaxMoves]
    /\ built \in 0 .. MaxBuilds

Located ==
    /\ slots \in [Fields -> {"absent", "located", "ignored"}]
    /\ targets \in [Fields -> Target \cup {NoTarget}]
    /\ \A f \in Fields : slots[f] = "located" <=> targets[f] # NoTarget
    /\ \A f \in Fields : targets[f] # NoTarget => targets[f].id \in 1 .. built

Drafting ==
    /\ plan \in Plans
    /\ job \in Job
    /\ worker \in Worker
    /\ worker.at # "idle" <=> job.status = "running"
    /\ worker.at = "idle" => worker.open = {} /\ worker.bound = {}
    /\ worker.open \subseteq Live /\ worker.bound \subseteq Live

Typed == Counted /\ Located /\ Drafting

(***************************************************************************)
(* Suggestions.                                                            *)
(***************************************************************************)
\* A suggestion is never taken for the absence of one.
LEMMA TargetOrNone == NoTarget \notin Target
<1>1. \A t \in Target : DOMAIN t = {"id", "status", "value", "reviewed", "bound", "basis"}
  BY DEF Target
<1>2. DOMAIN NoTarget = {"id"}
  BY DEF NoTarget
<1> QED
  BY <1>1, <1>2

\* What a plan or a draft writes into a suggestion (create_fill_plan,
\* draft_fill_suggestions).
LEMMA FilledFacts ==
    ASSUME NEW t \in Target, NEW b \in BOOLEAN, NEW basis \in BasisType \cup {NoBasis}
    PROVE  /\ Filled(t, b, basis) \in Target
           /\ Filled(t, b, basis).id = t.id
           /\ Filled(t, b, basis).status = "proposed"
           /\ Filled(t, b, basis).reviewed = t.reviewed
           /\ Filled(t, b, basis).basis = basis
BY DEF Filled, Target

\* What invalidate_fill_plans writes into a suggestion.
LEMMA ReopenedFacts ==
    ASSUME NEW t \in Target
    PROVE  /\ Reopened(t) \in Target
           /\ Reopened(t) = [t EXCEPT !.status = "proposed"]
           /\ Reopened(t).id = t.id
           /\ Reopened(t).status = "proposed"
           /\ Reopened(t).value = t.value
           /\ Reopened(t).reviewed = t.reviewed
           /\ Reopened(t).basis = t.basis
BY TargetOrNone DEF Reopened, Target

\* A new suggestion is made for the place as it is, or has no answer yet.
LEMMA ProposalFacts ==
    ASSUME Counted, NEW f \in Fields, NEW id \in Nat
    PROVE  /\ Proposal(f, id) \in Target
           /\ Proposal(f, id).id = id
           /\ Proposal(f, id).status = "proposed"
           /\ (Proposal(f, id).basis = NoBasis
                 \/ (Proposal(f, id).basis = Present(f) /\ f \notin Signatures))
<1>1. /\ NotDrafted(id) \in Target
      /\ NotDrafted(id).id = id
      /\ NotDrafted(id).status = "proposed"
      /\ NotDrafted(id).basis = NoBasis
  BY DEF NotDrafted, Target
<1>2. Present(f) \in BasisType
  BY DEF Counted, Present, BasisType
<1>3. f \in Matched[inputs] => f \notin Signatures
  BY FillAssumption DEF Counted
<1> QED
  BY <1>1, <1>2, <1>3, FilledFacts DEF Proposal

(***************************************************************************)
(* What the actions do to the suggestions.                                 *)
(***************************************************************************)
Suggestions == Target \cup {NoTarget}

\* A rebuild copies what has been reviewed and proposes the rest anew.
LEMMA BuildEffect ==
    ASSUME Typed, NEW located \in [Fields -> {"absent", "located", "ignored"}], Build(located)
    PROVE  /\ built' = built + 1 /\ built' \in 0 .. MaxBuilds
           /\ slots' = located
           /\ targets' \in [Fields -> Suggestions]
           /\ Live' = {f \in Fields : located[f] = "located"}
           /\ \A f \in Live' :
                 /\ targets'[f].id = built'
                 /\ \/ /\ f \in Live /\ targets[f].reviewed
                       /\ targets'[f] = [targets[f] EXCEPT !.id = built']
                       /\ targets'[f].reviewed = targets[f].reviewed
                       /\ targets'[f].status = targets[f].status
                       /\ targets'[f].value = targets[f].value
                       /\ targets'[f].basis = targets[f].basis
                    \/ /\ f \notin Live \/ ~targets[f].reviewed
                       /\ targets'[f].status = "proposed"
                       /\ (targets'[f].basis = NoBasis
                             \/ (targets'[f].basis = Present(f) /\ f \notin Signatures))
<1>1. built' = built + 1 /\ built' \in 0 .. MaxBuilds /\ built' \in Nat
  BY FillAssumption DEF Build, Typed, Counted
<1>2. slots' = located
  BY DEF Build
<1>3. \A f \in Fields :
         targets'[f] = IF located[f] # "located" THEN NoTarget
                       ELSE IF Kept(f) THEN [targets[f] EXCEPT !.id = built']
                       ELSE Proposal(f, built')
  BY DEF Build
<1>4. \A f \in Fields : Kept(f) => [targets[f] EXCEPT !.id = built'] \in Target
  BY <1>1 DEF Kept, Live, Typed, Located, Target
<1>5. \A f \in Fields : IF located[f] = "located" THEN targets'[f] \in Target
                                                  ELSE targets'[f] = NoTarget
  BY <1>1, <1>3, <1>4, ProposalFacts DEF Typed
<1>6. targets' \in [Fields -> Suggestions]
  <2>1. targets' = [f \in Fields |-> targets'[f]]
    BY DEF Build
  <2> QED
    BY <1>5, <2>1 DEF Suggestions
<1>7. \A f \in Fields : located[f] = "located" <=> targets'[f] # NoTarget
  BY <1>5, TargetOrNone
<1>8. Live' = {f \in Fields : located[f] = "located"}
  BY <1>7 DEF Live
<1>9. ASSUME NEW f \in Live'
      PROVE  /\ targets'[f].id = built'
             /\ \/ /\ f \in Live /\ targets[f].reviewed
                   /\ targets'[f] = [targets[f] EXCEPT !.id = built']
                   /\ targets'[f].reviewed = targets[f].reviewed
                   /\ targets'[f].status = targets[f].status
                   /\ targets'[f].value = targets[f].value
                   /\ targets'[f].basis = targets[f].basis
                \/ /\ f \notin Live \/ ~targets[f].reviewed
                   /\ targets'[f].status = "proposed"
                   /\ (targets'[f].basis = NoBasis
                         \/ (targets'[f].basis = Present(f) /\ f \notin Signatures))
  <2>1. f \in Fields /\ located[f] = "located"
    BY <1>8
  <2>2. CASE Kept(f)
    <3>1. targets'[f] = [targets[f] EXCEPT !.id = built']
      BY <1>3, <2>1, <2>2
    <3>2. targets[f] \in Target /\ f \in Live /\ targets[f].reviewed
      BY <2>1, <2>2 DEF Kept, Live, Typed, Located
    <3> QED
      BY <3>1, <3>2 DEF Target
  <2>3. CASE ~Kept(f)
    <3>1. targets'[f] = Proposal(f, built')
      BY <1>3, <2>1, <2>3
    <3>2. f \notin Live \/ ~targets[f].reviewed
      BY <2>3 DEF Kept
    <3> QED
      BY <1>1, <2>1, <3>1, <3>2, ProposalFacts DEF Typed
  <2> QED
    BY <2>2, <2>3
<1> QED
  BY <1>1, <1>2, <1>6, <1>8, <1>9

\* An edit takes confirmations back and nothing else.
LEMMA InvalidateEffect ==
    ASSUME Typed, Invalidate
    PROVE  /\ targets' \in [Fields -> Suggestions]
           /\ Live' = Live
           /\ plan' \in Plans /\ plan' # "drafted"
           /\ plan' = plan \/ (plan' = "stale" /\ plan \notin {"queued", "drafting"})
           /\ \A f \in Live :
                 /\ targets'[f].id = targets[f].id
                 /\ targets'[f].status = "proposed"
                 /\ targets'[f].value = targets[f].value
                 /\ targets'[f].reviewed = targets[f].reviewed
                 /\ targets'[f].basis = targets[f].basis
<1>1. targets' = [f \in Fields |-> Reopened(targets[f])]
  BY DEF Invalidate
<1>2. \A f \in Fields : targets[f] \in Target \/ targets[f] = NoTarget
  BY DEF Typed, Located
<1>3. Reopened(NoTarget) = NoTarget
  BY DEF Reopened
<1>4. targets' \in [Fields -> Suggestions]
  BY <1>1, <1>2, <1>3, ReopenedFacts DEF Suggestions
<1>5. \A f \in Fields : targets'[f] = NoTarget <=> targets[f] = NoTarget
  BY <1>1, <1>2, <1>3, ReopenedFacts, TargetOrNone
<1>6. Live' = Live
  BY <1>5 DEF Live
<1>7. \A f \in Live : targets[f] \in Target /\ targets'[f] = Reopened(targets[f])
  BY <1>1, <1>2 DEF Live
<1>8. plan \in Plans
  BY DEF Typed, Drafting
<1> QED
  BY <1>4, <1>6, <1>7, <1>8, ReopenedFacts DEF Invalidate, Plans

\* The values bound to places are written into those places.
LEMMA BoundEffect ==
    ASSUME Typed, targets' = BoundTargets
    PROVE  /\ targets' \in [Fields -> Suggestions]
           /\ Live' = Live
           /\ \A f \in Live : targets'[f].id = targets[f].id
                             /\ targets'[f].reviewed = targets[f].reviewed
           /\ \A f \in worker.bound : targets'[f].status = "proposed"
                                     /\ targets'[f].basis = Basis(f)
           /\ \A f \in Fields \ worker.bound : targets'[f] = targets[f]
<1>1. \A f \in Fields : targets[f] \in Target \/ targets[f] = NoTarget
  BY DEF Typed, Located
<1>2. worker.bound \subseteq Live /\ Live \subseteq Fields
  BY DEF Typed, Drafting, Live
<1>3. \A f \in Fields : Basis(f) \in BasisType
  BY DEF Basis, BasisType, Typed, Counted, Drafting, Worker
<1>4. \A f \in worker.bound :
         /\ targets[f] \in Target
         /\ targets'[f] = Filled(targets[f], TRUE, Basis(f))
  BY <1>1, <1>2 DEF BoundTargets, Live
<1>5. \A f \in Fields \ worker.bound : targets'[f] = targets[f]
  BY DEF BoundTargets
<1>6. ASSUME NEW f \in worker.bound
      PROVE  /\ targets'[f] \in Target
             /\ targets'[f].id = targets[f].id
             /\ targets'[f].reviewed = targets[f].reviewed
             /\ targets'[f].status = "proposed"
             /\ targets'[f].basis = Basis(f)
  <2>1. targets[f] \in Target /\ targets'[f] = Filled(targets[f], TRUE, Basis(f))
    BY <1>4
  <2>2. Basis(f) \in BasisType \cup {NoBasis}
    BY <1>2, <1>3
  <2> QED
    BY <2>1, <2>2 DEF Filled, Target
<1>7. targets' \in [Fields -> Suggestions]
  <2>1. \A f \in Fields : targets'[f] \in Suggestions
    BY <1>1, <1>5, <1>6 DEF Suggestions
  <2> QED
    BY <2>1 DEF BoundTargets
<1>8. \A f \in Fields : targets'[f] = NoTarget <=> targets[f] = NoTarget
  BY <1>2, <1>4, <1>5, <1>6, TargetOrNone
<1>9. Live' = Live
  BY <1>8 DEF Live
<1> QED
  BY <1>2, <1>5, <1>6, <1>7, <1>9

\* The page's places that were asked for have their answers.
LEMMA SaveEffect ==
    ASSUME Typed, NEW p, NEW blanks, NEW bound, SavePage(p, blanks, bound)
    PROVE  LET asked == {f \in worker.open : PageOf[f] = p}
           IN /\ targets' \in [Fields -> Suggestions]
              /\ Live' = Live
              /\ \A f \in Live : targets'[f].id = targets[f].id
                                /\ targets'[f].reviewed = targets[f].reviewed
              /\ \A f \in asked : targets'[f].status = "proposed"
                                 /\ targets'[f].basis = Basis(f)
              /\ \A f \in Fields \ asked : targets'[f] = targets[f]
<1> DEFINE asked == {f \in worker.open : PageOf[f] = p}
           draft(f) == IF f \in blanks
                       THEN [Filled(targets[f], FALSE, Basis(f)) EXCEPT !.value = "none"]
                       ELSE Filled(targets[f], f \in bound, Basis(f))
<1>1. targets' = [f \in Fields |-> IF f \in asked THEN draft(f) ELSE targets[f]]
  BY DEF SavePage
<1>2. \A f \in Fields : targets[f] \in Target \/ targets[f] = NoTarget
  BY DEF Typed, Located
<1>3. asked \subseteq Live /\ Live \subseteq Fields
  BY DEF Typed, Drafting, Live
<1>4. ASSUME NEW f \in asked
      PROVE  /\ targets[f] \in Target
             /\ draft(f) \in Target
             /\ draft(f).id = targets[f].id
             /\ draft(f).reviewed = targets[f].reviewed
             /\ draft(f).status = "proposed"
             /\ draft(f).basis = Basis(f)
  <2>1. targets[f] \in Target
    BY <1>2, <1>3 DEF Live
  <2>2. Basis(f) \in BasisType \cup {NoBasis}
    BY <1>3 DEF Basis, BasisType, Typed, Counted, Drafting, Worker
  <2>3. CASE f \in blanks
    BY <2>1, <2>2, <2>3 DEF Filled, Target
  <2>4. CASE f \notin blanks
    <3>1. \E b \in BOOLEAN : draft(f) = Filled(targets[f], b, Basis(f))
      <4>1. (f \in bound) \in BOOLEAN
        OBVIOUS
      <4>2. draft(f) = Filled(targets[f], f \in bound, Basis(f))
        BY <2>4
      <4> HIDE DEF draft
      <4> QED
        BY <4>1, <4>2, Zenon
    <3> HIDE DEF draft
    <3>2. PICK b \in BOOLEAN : draft(f) = Filled(targets[f], b, Basis(f))
      BY <3>1
    <3> QED
      BY <2>1, <2>2, <3>2, FilledFacts
  <2> QED
    BY <2>1, <2>3, <2>4
<1>5. /\ \A f \in asked : targets'[f] = draft(f)
      /\ \A f \in Fields \ asked : targets'[f] = targets[f]
  BY <1>1, <1>3
<1> HIDE DEF draft
<1>6. targets' \in [Fields -> Suggestions]
  <2>1. \A f \in Fields : (IF f \in asked THEN draft(f) ELSE targets[f]) \in Suggestions
    BY <1>2, <1>4 DEF Suggestions
  <2> QED
    BY <1>1, <2>1
<1>7. \A f \in Fields : targets'[f] = NoTarget <=> targets[f] = NoTarget
  BY <1>4, <1>5, TargetOrNone
<1>8. Live' = Live
  BY <1>7 DEF Live
<1> QED
  BY <1>3, <1>4, <1>5, <1>6, <1>8

\* The page and its checkpoint are saved, and the job goes on to the next page.
LEMMA SaveFrame ==
    ASSUME NEW p, NEW blanks, NEW bound, SavePage(p, blanks, bound)
    PROVE  /\ worker.at = "asked"
           /\ job' = [job EXCEPT !.drafted = {c \in @ : c.page # p} \cup
                                             {[page |-> p, signature |-> Signature(p)]}]
           /\ worker' = [worker EXCEPT !.at = "page", !.left = @ \ {p}]
           /\ UNCHANGED <<inputs, requirements, slots, moved, built, plan>>
BY DEF SavePage

\* A review confirms one suggestion.
LEMMA ReviewEffect ==
    ASSUME Typed, NEW f \in Fields, NEW value \in {"none", "text", "entered"}, Review(f, value)
    PROVE  /\ targets' \in [Fields -> Suggestions]
           /\ Live' = Live
           /\ f \in Live
           /\ targets'[f].id = targets[f].id
           /\ targets'[f].reviewed = TRUE
           /\ targets'[f].value = value
           /\ targets'[f].basis = targets[f].basis
           /\ \A g \in Fields \ {f} : targets'[g] = targets[g]
<1>1. f \in Live /\ targets[f] \in Target
  BY DEF Review, Live, Typed, Located
<1>2. targets' = [targets EXCEPT ![f] = [targets[f] EXCEPT !.status = "confirmed",
                                            !.value = value, !.reviewed = TRUE]]
  BY <1>1 DEF Review, Typed, Located, Target
<1> DEFINE t == [targets[f] EXCEPT !.status = "confirmed", !.value = value, !.reviewed = TRUE]
<1>3. t \in Target /\ t.id = targets[f].id /\ t.reviewed = TRUE /\ t.value = value
      /\ t.basis = targets[f].basis
  BY <1>1 DEF Target
<1>4. targets'[f] = t /\ \A g \in Fields \ {f} : targets'[g] = targets[g]
  BY <1>2 DEF Typed, Located
<1> HIDE DEF t
<1>5. targets' \in [Fields -> Suggestions]
  BY <1>2, <1>3, <1>4 DEF Typed, Located, Suggestions, t
<1>6. \A g \in Fields : targets'[g] = NoTarget <=> targets[g] = NoTarget
  BY <1>1, <1>3, <1>4, TargetOrNone
<1>7. Live' = Live
  BY <1>6 DEF Live
<1> QED
  BY <1>1, <1>3, <1>4, <1>5, <1>7

\* A rebuild is a request on the plan, made while no job is queued or running.
LEMMA Rebuilding ==
    ASSUME Typed, BuildPlan \/ \E f \in Fields : AddTarget(f)
    PROVE  /\ ~Active
           /\ UNCHANGED <<inputs, requirements, moved, job, worker>>
           /\ plan' = plan \/ plan' = "draft"
           /\ \E located \in [Fields -> {"absent", "located", "ignored"}] : Build(located)
<1>1. CASE BuildPlan
  <2> DEFINE located == [f \in Fields |-> IF plan = "none" /\ f \in Detected THEN "located"
                                          ELSE slots[f]]
  <2>1. located \in [Fields -> {"absent", "located", "ignored"}]
    BY DEF Typed, Located
  <2>2. Build(located)
    BY <1>1 DEF BuildPlan
  <2> HIDE DEF located
  <2> QED
    BY <1>1, <2>1, <2>2 DEF BuildPlan
<1>2. ASSUME NEW f \in Fields, AddTarget(f)
      PROVE  /\ ~Active
             /\ UNCHANGED <<inputs, requirements, moved, job, worker>>
             /\ plan' = plan \/ plan' = "draft"
             /\ \E located \in [Fields -> {"absent", "located", "ignored"}] : Build(located)
  <2>1. [slots EXCEPT ![f] = "located"] \in [Fields -> {"absent", "located", "ignored"}]
    BY DEF Typed, Located
  <2> QED
    BY <1>2, <2>1 DEF AddTarget
<1> QED
  BY <1>1, <1>2

(***************************************************************************)
(* Types.                                                                  *)
(***************************************************************************)
\* Suggestions that are changed in place stay in their places.
LEMMA LocatedStays ==
    ASSUME Typed, UNCHANGED <<slots, built>>, targets' \in [Fields -> Suggestions],
           Live' = Live, \A f \in Live : targets'[f].id = targets[f].id
    PROVE  Located'
BY DEF Typed, Located, Live, Suggestions

\* Nothing is located at first.
LEMMA TypedInit == Init => Typed
<1> SUFFICES ASSUME Init PROVE Typed
  OBVIOUS
<1>1. Counted
  BY FillAssumption DEF Init, Counted
<1>2. Located
  BY DEF Init, Located
<1>3. Drafting
  BY FillAssumption DEF Init, Drafting, NoJob, Idle, Job, Worker, Statuses, Plans
<1> QED
  BY <1>1, <1>2, <1>3 DEF Typed

\* Requests on the plan keep the types.
LEMMA TypedRequest ==
    ASSUME Typed, ~Active,
           \/ BuildPlan \/ RequestDraft \/ EditRequirement
           \/ \E f \in Fields : AddTarget(f) \/ MoveTarget(f) \/ RemoveTarget(f)
           \/ \E f \in Fields, value \in {"none", "text", "entered"} : Review(f, value)
    PROVE  Typed'
<1>1. worker.at = "idle" /\ worker.open = {} /\ worker.bound = {}
  BY DEF Typed, Drafting, Worker, Active
<1>2. ASSUME NEW located \in [Fields -> {"absent", "located", "ignored"}], Build(located),
             UNCHANGED <<inputs, requirements, moved, job, worker>>, plan' \in Plans
      PROVE  Typed'
  <2>1. Counted'
    BY <1>2, BuildEffect DEF Typed, Counted
  <2>2. \A f \in Fields : f \in Live' <=> targets'[f] # NoTarget
    BY DEF Live
  <2>3. Located'
    <3>1. /\ slots' = located
          /\ targets' \in [Fields -> Suggestions]
          /\ Live' = {f \in Fields : located[f] = "located"}
          /\ \A f \in Live' : targets'[f].id = built'
      BY <1>2, BuildEffect
    <3>2. built' \in 1 .. built'
      BY <1>2, BuildEffect DEF Typed, Counted
    <3> QED
      BY <1>2, <2>2, <3>1, <3>2 DEF Located, Suggestions
  <2>4. Drafting'
    BY <1>1, <1>2 DEF Typed, Drafting
  <2> QED
    BY <2>1, <2>3, <2>4 DEF Typed
<1>3. CASE BuildPlan \/ \E f \in Fields : AddTarget(f)
  <2>1. /\ UNCHANGED <<inputs, requirements, moved, job, worker>>
        /\ plan' = plan \/ plan' = "draft"
    BY <1>3, Rebuilding
  <2>2. plan' \in Plans
    BY <2>1 DEF Typed, Drafting, Plans
  <2>3. PICK located \in [Fields -> {"absent", "located", "ignored"}] : Build(located)
    BY <1>3, Rebuilding
  <2> QED
    BY <1>2, <2>1, <2>2, <2>3
<1>5. ASSUME NEW f \in Fields, MoveTarget(f) PROVE Typed'
  <2>1. Counted'
    BY <1>5, FillAssumption DEF MoveTarget, Typed, Counted
  <2>2. Located' /\ Drafting'
    BY <1>5 DEF MoveTarget, Typed, Located, Drafting, Live
  <2> QED
    BY <2>1, <2>2 DEF Typed
<1>6. ASSUME NEW f \in Fields, RemoveTarget(f) PROVE Typed'
  <2>1. Counted'
    BY <1>6 DEF RemoveTarget, Typed, Counted
  <2>2. Located'
    BY <1>6 DEF RemoveTarget, Typed, Located
  <2>3. Drafting'
    BY <1>1, <1>6 DEF RemoveTarget, Typed, Drafting
  <2> QED
    BY <2>1, <2>2, <2>3 DEF Typed
<1>7. ASSUME NEW f \in Fields, NEW value \in {"none", "text", "entered"}, Review(f, value)
      PROVE  Typed'
  <2>1. Counted'
    BY <1>7 DEF Review, Typed, Counted
  <2>2. UNCHANGED <<slots, built>>
    BY <1>7 DEF Review
  <2>3. \A g \in Live : targets'[g].id = targets[g].id
    BY <1>7, ReviewEffect DEF Live
  <2>4. Located'
    BY <1>7, <2>2, <2>3, ReviewEffect, LocatedStays
  <2>5. Drafting'
    BY <1>1, <1>7 DEF Review, Typed, Drafting, Plans
  <2> QED
    BY <2>1, <2>4, <2>5 DEF Typed
<1>8. CASE RequestDraft
  <2>1. Counted' /\ Located'
    BY <1>8 DEF RequestDraft, Typed, Counted, Located
  <2>2. Drafting'
    BY <1>1, <1>8 DEF RequestDraft, Typed, Counted, Drafting, NoJob, Job, Statuses, Plans, Live
  <2> QED
    BY <2>1, <2>2 DEF Typed
<1>9. CASE EditRequirement
  <2>1. Counted'
    BY <1>9, FillAssumption DEF EditRequirement, Typed, Counted
  <2>2. UNCHANGED <<slots, built, job, worker>> /\ Invalidate
    BY <1>9 DEF EditRequirement
  <2>3. Located'
    BY <2>2, InvalidateEffect, LocatedStays
  <2>4. Drafting'
    BY <1>1, <2>2, InvalidateEffect DEF Typed, Drafting
  <2> QED
    BY <2>1, <2>3, <2>4 DEF Typed
<1> QED
  BY <1>3, <1>5, <1>6, <1>7, <1>8, <1>9

\* The other steps keep the types: those of the job, its cancellation, and edits of the
\* inputs, which arrive at any time.
LEMMA TypedJob ==
    ASSUME Typed,
           \/ CancelDraft \/ EditInputs \/ BeginDraft \/ EndDraft
           \/ \E p \in worker.left : SkipPage(p) \/ AskPage(p)
           \/ \E p \in worker.left, blanks, bound \in SUBSET worker.open :
                 SavePage(p, blanks, bound)
           \/ CheckInputs \/ Complete \/ Stop
    PROVE  Typed'
<1>1. CASE CancelDraft
  <2>1. Counted' /\ Located'
    BY <1>1 DEF CancelDraft, Typed, Counted, Located
  <2>2. Drafting'
    BY <1>1 DEF CancelDraft, Active, Typed, Drafting, Job, Statuses, Plans, Live
  <2> QED
    BY <2>1, <2>2 DEF Typed
<1>2. CASE EditInputs
  <2>1. Counted'
    BY <1>2, FillAssumption DEF EditInputs, Typed, Counted
  <2>2. UNCHANGED <<slots, built, job, worker>> /\ Invalidate
    BY <1>2 DEF EditInputs
  <2>3. Located'
    BY <2>2, InvalidateEffect, LocatedStays
  <2>4. Drafting'
    BY <2>2, InvalidateEffect DEF Typed, Drafting
  <2> QED
    BY <2>1, <2>3, <2>4 DEF Typed
<1>3. CASE BeginDraft
  <2>1. Counted' /\ Located'
    BY <1>3 DEF BeginDraft, Typed, Counted, Located
  <2>2. /\ job' = [job EXCEPT !.status = "running"]
        /\ plan' = "drafting"
        /\ worker'.at = "page"
        /\ worker'.open \subseteq Live /\ worker'.bound \subseteq Live /\ Live' = Live
        /\ worker' \in Worker
    BY <1>3, FillAssumption DEF BeginDraft, Open, Live, Typed, Counted, Worker
  <2>3. Drafting'
    BY <2>2 DEF Typed, Drafting, Job, Statuses, Plans
  <2> QED
    BY <2>1, <2>3 DEF Typed
<1>4. ASSUME UNCHANGED <<inputs, requirements, slots, moved, built, job>>,
             targets' = BoundTargets, plan' \in Plans, worker' \in Worker,
             worker'.at # "idle", worker.at # "idle",
             worker'.open = worker.open, worker'.bound = {}
      PROVE  Typed'
  <2>1. Counted'
    BY <1>4 DEF Typed, Counted
  <2>2. Located'
    BY <1>4, BoundEffect, LocatedStays
  <2>3. Drafting'
    BY <1>4, BoundEffect DEF Typed, Drafting
  <2> QED
    BY <2>1, <2>2, <2>3 DEF Typed
<1>5. CASE EndDraft
  BY <1>4, <1>5 DEF EndDraft, Typed, Drafting, Plans, Worker
<1>6. ASSUME NEW p \in worker.left, AskPage(p) PROVE Typed'
  BY <1>4, <1>6 DEF AskPage, Turn, Typed, Drafting, Worker
<1>7. ASSUME NEW p \in worker.left, SkipPage(p) PROVE Typed'
  <2>1. Counted' /\ Located'
    BY <1>7 DEF SkipPage, Typed, Counted, Located
  <2>2. Drafting'
    BY <1>7 DEF SkipPage, Turn, Typed, Drafting, Worker, Live
  <2> QED
    BY <2>1, <2>2 DEF Typed
<1>8. ASSUME NEW p \in worker.left, NEW blanks, NEW bound, SavePage(p, blanks, bound)
      PROVE  Typed'
  <2>1. Counted'
    BY <1>8 DEF SavePage, Typed, Counted
  <2>2. UNCHANGED <<slots, built>>
    BY <1>8 DEF SavePage
  <2>3. Located'
    BY <1>8, <2>2, SaveEffect, LocatedStays
  <2>4. Signature(p) \in PageSignature
    <3>1. ASSUME NEW f \in Live
          PROVE  <<f, targets[f].id, moved[f]>> \in Fields \X Nat \X Nat
      <4>1. f \in Fields /\ targets[f].id \in Nat
        BY DEF Live, Typed, Located, Target
      <4>2. moved[f] \in Nat
        BY <4>1, FillAssumption DEF Typed, Counted
      <4> QED
        BY <4>1, <4>2
    <3>2. requirements \in Nat
      BY FillAssumption DEF Typed, Counted
    <3> QED
      BY <3>1, <3>2 DEF Signature, PageSignature
  <2>5. job' \in Job /\ job'.status = job.status
    <3>1. [page |-> p, signature |-> Signature(p)] \in Checkpoint
      BY <2>4 DEF Checkpoint, Typed, Drafting, Worker
    <3> QED
      BY <1>8, <3>1 DEF SavePage, Typed, Drafting, Job
  <2>6. /\ worker' \in Worker /\ worker'.at = "page" /\ worker.at = "asked"
        /\ worker'.open = worker.open /\ worker'.bound = worker.bound
    <3>1. worker.at = "asked" /\ worker' = [worker EXCEPT !.at = "page", !.left = @ \ {p}]
      BY <1>8, SaveFrame
    <3> QED
      BY <3>1 DEF Typed, Drafting, Worker
  <2>7. Live' = Live /\ plan' = plan
    <3>1. Live' = Live
      BY <1>8, SaveEffect
    <3>2. plan' = plan
      BY <1>8 DEF SavePage
    <3> QED
      BY <3>1, <3>2
  <2>8. Drafting'
    BY <2>5, <2>6, <2>7 DEF Typed, Drafting
  <2> QED
    BY <2>1, <2>3, <2>8 DEF Typed
<1>9. CASE CheckInputs
  <2>1. Counted'
    BY <1>9 DEF CheckInputs, Typed, Counted
  <2>2. /\ UNCHANGED <<slots, built, job>>
        /\ worker.at = "drafted" /\ worker' = [worker EXCEPT !.at = "checked"]
        /\ Invalidate \/ UNCHANGED <<targets, plan>>
    BY <1>9 DEF CheckInputs
  <2>3. CASE Invalidate
    <3>1. Located'
      BY <2>2, <2>3, InvalidateEffect, LocatedStays
    <3>2. Drafting'
      BY <2>2, <2>3, InvalidateEffect DEF Typed, Drafting, Worker
    <3> QED
      BY <2>1, <3>1, <3>2 DEF Typed
  <2>4. CASE UNCHANGED <<targets, plan>>
    <3>1. Located'
      BY <2>2, <2>4 DEF Typed, Located
    <3>2. Drafting'
      BY <2>2, <2>4 DEF Typed, Drafting, Worker, Live
    <3> QED
      BY <2>1, <3>1, <3>2 DEF Typed
  <2> QED
    BY <2>2, <2>3, <2>4
<1>10. CASE Complete \/ Stop
  <2>1. Counted' /\ Located'
    BY <1>10 DEF Complete, Stop, Typed, Counted, Located
  <2>2. /\ worker' = Idle
        /\ job' \in Job /\ job'.status # "running"
        /\ plan' \in Plans
    BY <1>10 DEF Complete, Stop, Typed, Drafting, Job, Statuses, Plans
  <2>3. Drafting'
    BY <2>2, FillAssumption DEF Drafting, Idle, Worker
  <2> QED
    BY <2>1, <2>3 DEF Typed
<1> QED
  BY <1>1, <1>2, <1>3, <1>5, <1>6, <1>7, <1>8, <1>9, <1>10

\* A step is a request on the plan, which no job precedes, or another step.
LEMMA NextCases ==
    ASSUME Next
    PROVE  \/ /\ ~Active
              /\ \/ BuildPlan \/ RequestDraft \/ EditRequirement
                 \/ \E f \in Fields : AddTarget(f) \/ MoveTarget(f) \/ RemoveTarget(f)
                 \/ \E f \in Fields, value \in {"none", "text", "entered"} : Review(f, value)
           \/ CancelDraft \/ EditInputs \/ BeginDraft \/ EndDraft
           \/ \E p \in worker.left : SkipPage(p) \/ AskPage(p)
           \/ \E p \in worker.left, blanks, bound \in SUBSET worker.open :
                 SavePage(p, blanks, bound)
           \/ CheckInputs \/ Complete \/ Stop
BY DEF Next, BuildPlan, RequestDraft, EditRequirement, AddTarget, MoveTarget, RemoveTarget,
       Review

\* The types are kept by every step.
LEMMA TypedStep == Typed /\ [Next]_vars => Typed'
<1> SUFFICES ASSUME Typed, [Next]_vars PROVE Typed'
  OBVIOUS
<1>1. CASE Next
  BY <1>1, NextCases, TypedRequest, TypedJob
<1>2. CASE UNCHANGED vars
  BY <1>2 DEF vars, Typed, Counted, Located, Drafting, Live
<1> QED
  BY <1>1, <1>2

\* The types hold throughout.
LEMMA TypedAlways == Spec => []Typed
BY TypedInit, TypedStep, PTL DEF Spec

\* Type correctness, and that a place has a suggestion exactly while it is located, for
\* any places, pages and bounds.
THEOREM TypeCorrect == Spec => []TypeOK
<1>1. Typed => TypeOK
  <2> SUFFICES ASSUME Typed PROVE TypeOK
    OBVIOUS
  <2>1. \A f \in Live : TargetType(targets[f])
    BY DEF Typed, Located, Live, Target, TargetType
  <2> QED
    BY <2>1 DEF Typed, Counted, Located, Drafting, Live, TypeOK, Job, Worker, Plans, Statuses
<1> QED
  BY <1>1, TypedAlways, PTL

(***************************************************************************)
(* What people have confirmed.  The places a job works on are none of      *)
(* these: they were not confirmed when it began, and reviews are refused   *)
(* until it has ended.  What is confirmed has been reviewed, so a rebuild  *)
(* copies it.                                                              *)
(***************************************************************************)
Guarded ==
    /\ \A f \in Confirmed : targets[f].reviewed
    /\ worker.open \cap Confirmed = {} /\ worker.bound \cap Confirmed = {}
    /\ worker.open \cap Signatures = {} /\ worker.bound \cap Signatures = {}

\* A draft touches none of the confirmed places.
LEMMA GuardedStep == Typed /\ Guarded /\ [Next]_vars => Guarded'
<1> SUFFICES ASSUME Typed, Guarded, [Next]_vars PROVE Guarded'
  OBVIOUS
<1>1. worker.at = "idle" => worker.open = {} /\ worker.bound = {}
  BY DEF Typed, Drafting
<1>2. ~Active => worker.open = {} /\ worker.bound = {}
  BY DEF Typed, Drafting, Worker, Active
<1>3. ASSUME NEW located \in [Fields -> {"absent", "located", "ignored"}], Build(located),
             ~Active, UNCHANGED worker
      PROVE  Guarded'
  <2>1. \A f \in Confirmed' : targets'[f].reviewed
    <3>1. \A f \in Live' : \/ /\ f \in Live /\ targets[f].reviewed
                             /\ targets'[f].reviewed = targets[f].reviewed
                          \/ targets'[f].status = "proposed"
      BY <1>3, BuildEffect
    <3> QED
      BY <3>1 DEF Confirmed
  <2> QED
    BY <1>2, <1>3, <2>1 DEF Guarded
<1>4. CASE BuildPlan \/ \E f \in Fields : AddTarget(f)
  BY <1>3, <1>4, Rebuilding
<1>6. CASE UNCHANGED <<targets, worker>>
  BY <1>6 DEF Guarded, Confirmed, Live
<1>7. ASSUME NEW f \in Fields, RemoveTarget(f) PROVE Guarded'
  <2>1. \A g \in Fields : targets'[g] = IF g = f THEN NoTarget ELSE targets[g]
    BY <1>7 DEF RemoveTarget, Typed, Located
  <2> QED
    BY <1>2, <1>7, <2>1 DEF RemoveTarget, Guarded, Confirmed, Live
<1>8. ASSUME NEW f \in Fields, NEW value \in {"none", "text", "entered"}, Review(f, value)
      PROVE  Guarded'
  <2>1. \A g \in Confirmed' : targets'[g].reviewed
    BY <1>8, ReviewEffect DEF Guarded, Confirmed, Live
  <2> QED
    BY <1>2, <1>8, <2>1 DEF Review, Guarded
<1>9. ASSUME Invalidate, worker'.open = worker.open, worker'.bound = worker.bound
      PROVE  Guarded'
  <2>1. Confirmed' = {}
    BY <1>9, InvalidateEffect DEF Confirmed
  <2> QED
    BY <1>9, <2>1 DEF Guarded
<1>10. ASSUME worker'.open \subseteq Open, worker'.bound \subseteq Open, UNCHANGED targets
       PROVE  Guarded'
  BY <1>10 DEF Open, Guarded, Confirmed, Live
<1>11. CASE BeginDraft
  BY <1>10, <1>11 DEF BeginDraft
<1>12. ASSUME targets' = BoundTargets, worker'.open = worker.open, worker'.bound = {}
       PROVE  Guarded'
  <2>1. \A f \in Confirmed' : f \in Confirmed /\ targets'[f].reviewed = targets[f].reviewed
    BY <1>12, BoundEffect DEF Confirmed, Live
  <2> QED
    BY <1>12, <2>1 DEF Guarded
<1>13. CASE EndDraft
  BY <1>12, <1>13 DEF EndDraft, Typed, Drafting, Worker
<1>14. ASSUME NEW p \in worker.left, AskPage(p) PROVE Guarded'
  BY <1>12, <1>14 DEF AskPage, Typed, Drafting, Worker
<1>15. ASSUME NEW p \in worker.left, SkipPage(p) PROVE Guarded'
  <2>1. worker'.open = worker.open /\ worker'.bound = worker.bound /\ targets' = targets
    BY <1>15 DEF SkipPage, Typed, Drafting, Worker
  <2> QED
    BY <2>1 DEF Guarded, Confirmed, Live
<1>16. ASSUME NEW p \in worker.left, NEW blanks, NEW bound, SavePage(p, blanks, bound)
       PROVE  Guarded'
  <2>1. \A f \in Confirmed' : f \in Confirmed /\ targets'[f].reviewed = targets[f].reviewed
    BY <1>16, SaveEffect DEF Confirmed, Live
  <2>2. worker' = [worker EXCEPT !.at = "page", !.left = @ \ {p}]
    BY <1>16 DEF SavePage
  <2>3. worker'.open = worker.open /\ worker'.bound = worker.bound
    BY <2>2 DEF Typed, Drafting, Worker
  <2> QED
    BY <2>1, <2>3 DEF Guarded
<1>17. CASE CheckInputs
  <2>1. worker'.open = worker.open /\ worker'.bound = worker.bound
    BY <1>17 DEF CheckInputs, Typed, Drafting, Worker
  <2>2. Invalidate \/ UNCHANGED targets
    BY <1>17 DEF CheckInputs
  <2> QED
    BY <1>9, <2>1, <2>2 DEF Guarded, Confirmed, Live
<1>18. CASE Complete \/ Stop
  <2>1. UNCHANGED targets /\ worker'.open = {} /\ worker'.bound = {}
    BY <1>18 DEF Complete, Stop, Idle
  <2> QED
    BY <2>1 DEF Guarded, Confirmed, Live
<1>19. CASE EditInputs \/ EditRequirement
  BY <1>9, <1>19 DEF EditInputs, EditRequirement
<1> QED
  BY <1>4, <1>6, <1>7, <1>8, <1>11, <1>13, <1>14, <1>15, <1>16, <1>17, <1>18, <1>19
     DEF Next, RequestDraft, CancelDraft, MoveTarget, vars

\* Nothing is confirmed at first.
LEMMA GuardedInit == Init => Guarded
BY DEF Init, Guarded, Confirmed, Live, Idle

\* The guard holds throughout.
LEMMA GuardedAlways == Spec => [](Typed /\ Guarded)
BY TypedInit, TypedStep, GuardedInit, GuardedStep, PTL DEF Spec

\* A confirmed place keeps its value and what it rests on until a person enters another,
\* for any number of drafts, failures, resumptions, rebuilds and edits.
THEOREM ConfirmationsStand == Spec => ConfirmedValuesKept
<1> DEFINE Same(f) == targets'[f].value = targets[f].value /\ targets'[f].basis = targets[f].basis
<1>1. ASSUME Typed, Guarded, [Next]_vars, NEW f \in Confirmed, f \in Live'
      PROVE  targets'[f].value = "entered" \/ Same(f)
  <2>1. f \in Live /\ f \in Fields /\ targets[f].reviewed /\ targets[f] \in Target
    BY <1>1 DEF Guarded, Confirmed, Live, Typed, Located
  <2>2. f \notin worker.open /\ f \notin worker.bound
    BY <1>1 DEF Guarded
  <2>3. CASE BuildPlan \/ \E g \in Fields : AddTarget(g)
    <3>1. PICK located \in [Fields -> {"absent", "located", "ignored"}] : Build(located)
      BY <1>1, <2>3, Rebuilding
    <3> QED
      BY <1>1, <2>1, <3>1, BuildEffect
  <2>6. ASSUME NEW g \in Fields, RemoveTarget(g) PROVE Same(f)
    <3>1. targets' = [targets EXCEPT ![g] = NoTarget]
      BY <2>6 DEF RemoveTarget
    <3>2. g # f
      BY <1>1, <2>1, <3>1 DEF Live, Typed, Located
    <3> QED
      BY <1>1, <2>1, <3>1, <3>2 DEF Typed, Located
  <2>7. ASSUME NEW g \in Fields, NEW value \in {"none", "text", "entered"}, Review(g, value)
        PROVE  targets'[f].value = "entered" \/ Same(f)
    <3>1. value \in {targets[g].value, "entered"}
      BY <2>7 DEF Review
    <3> QED
      BY <1>1, <2>1, <2>7, <3>1, ReviewEffect
  <2>8. CASE Invalidate
    BY <1>1, <2>1, <2>8, InvalidateEffect
  <2>9. CASE targets' = BoundTargets
    BY <1>1, <2>1, <2>2, <2>9, BoundEffect
  <2>10. ASSUME NEW p \in worker.left, NEW blanks, NEW bound, SavePage(p, blanks, bound)
         PROVE  Same(f)
    BY <1>1, <2>1, <2>2, <2>10, SaveEffect
  <2>11. CASE UNCHANGED targets
    BY <2>11
  <2> QED
    BY <1>1, <2>3, <2>6, <2>7, <2>8, <2>9, <2>10, <2>11
       DEF Next, RequestDraft, CancelDraft, MoveTarget, EditInputs, EditRequirement,
           BeginDraft, SkipPage, AskPage, EndDraft, CheckInputs, Complete, Stop, vars
<1>2. Typed /\ Guarded /\ [Next]_vars =>
         [\A f \in Confirmed :
             f \in Live' =>
                 \/ targets'[f].value = "entered"
                 \/ targets'[f].value = targets[f].value
                    /\ targets'[f].basis = targets[f].basis]_vars
  BY <1>1
<1> QED
  BY <1>2, GuardedAlways, PTL DEF Spec, ConfirmedValuesKept

\* A rebuild takes back no review, of however many places and however often it is repeated.
THEOREM ReviewsStand == Spec => ReviewsSurviveRebuild
<1>1. ASSUME Typed, [Next]_vars, built' # built, NEW f \in Live \cap Live', targets[f].reviewed
      PROVE  targets'[f] = [targets[f] EXCEPT !.id = built']
  <2>1. CASE BuildPlan \/ \E g \in Fields : AddTarget(g)
    <3>1. PICK located \in [Fields -> {"absent", "located", "ignored"}] : Build(located)
      BY <1>1, <2>1, Rebuilding
    <3> QED
      BY <1>1, <3>1, BuildEffect
  <2> QED
    BY <1>1, <2>1
       DEF Next, RequestDraft, CancelDraft, MoveTarget, RemoveTarget, Review, EditInputs,
           EditRequirement, BeginDraft, SkipPage, AskPage, SavePage, EndDraft, CheckInputs,
           Complete, Stop, vars
<1>2. Typed /\ [Next]_vars =>
         [built' # built =>
            \A f \in Live \cap Live' : targets[f].reviewed =>
                targets'[f] = [targets[f] EXCEPT !.id = built']]_vars
  BY <1>1
<1> QED
  BY <1>2, TypedAlways, PTL DEF Spec, ReviewsSurviveRebuild

(***************************************************************************)
(* What drafts rest on.  The inputs, the requirements and the places only  *)
(* ever move on, so a job that resumes another on unchanged inputs takes   *)
(* over answers from these inputs; and a checkpoint that names the present *)
(* targets, places and requirements vouches for answers given to them.     *)
(***************************************************************************)
\* No answer and no checkpoint is from the future.
Dated ==
    /\ job.signature <= inputs
    /\ worker.at # "idle" => job.signature <= worker.inputs /\ worker.inputs <= inputs
    /\ \A f \in Live : targets[f].basis # NoBasis =>
          /\ targets[f].basis[1] <= inputs
          /\ targets[f].basis[2] <= requirements
          /\ targets[f].basis[3] <= moved[f]
    /\ \A f \in Live \cap Signatures : targets[f].basis = NoBasis
    /\ \A c \in job.drafted :
          /\ c.signature[1] <= requirements
          /\ \A x \in c.signature[2] : x[2] <= built /\ x[3] <= moved[x[1]]

\* The place has been reviewed, or answered as it is now, not before r, from inputs no
\* older than those the job was requested on.
AnsweredSince(f, r) ==
    \/ targets[f].reviewed
    \/ /\ targets[f].basis # NoBasis
       /\ job.signature <= targets[f].basis[1]
       /\ r <= targets[f].basis[2]
       /\ targets[f].basis[3] = moved[f]
Answered(f) == AnsweredSince(f, requirements)

\* A checkpoint vouches for the places it names.
Vouched ==
    \A c \in job.drafted, f \in Live \ Signatures :
        /\ c.page = PageOf[f]
        /\ <<f, targets[f].id, moved[f]>> \in c.signature[2]
        => AnsweredSince(f, c.signature[1])

\* A job has answered every place but those it has still to do.
Progress ==
    /\ worker.at = "asked" => worker.bound = {}
    /\ worker.at \in {"page", "asked"} =>
          /\ plan = "drafting"
          /\ \A f \in Open :
                \/ f \in worker.bound
                \/ f \in worker.open /\ PageOf[f] \in worker.left
                \/ Answered(f)
    /\ worker.at = "drafted" => \A f \in Open : Answered(f)

\* A drafted plan has no answer from former inputs, once the end of the job has compared them.
FreshPlan ==
    plan = "drafted" /\ worker.at # "drafted" =>
        \A f \in Live :
            targets[f].basis # NoBasis /\ ~targets[f].reviewed => targets[f].basis[1] = inputs

\* Nothing is drafted at first.
LEMMA DatedInit == Init => Dated /\ Vouched /\ Progress /\ FreshPlan
BY FillAssumption DEF Init, Dated, Vouched, Progress, FreshPlan, NoJob, Idle, Live

\* Bases are told apart from the lack of one.
LEMMA BasisFacts ==
    ASSUME Counted, worker \in Worker, NEW f \in Fields
    PROVE  /\ Basis(f) # NoBasis
           /\ Basis(f)[1] = worker.inputs /\ Basis(f)[2] = requirements
           /\ Basis(f)[3] = moved[f]
           /\ Present(f) # NoBasis
           /\ Present(f)[1] = inputs /\ Present(f)[2] = requirements
           /\ Present(f)[3] = moved[f]
<1>1. /\ inputs \in Nat /\ requirements \in Nat /\ moved[f] \in Nat /\ worker.inputs \in Nat
  BY FillAssumption DEF Counted, Worker
<1> QED
  BY <1>1 DEF Basis, Present, NoBasis

\* The inputs, the requirements, the places and the targets' ids only move on.
LEMMA Clocks ==
    ASSUME Typed, [Next]_vars
    PROVE  /\ inputs \in Nat /\ inputs' \in Nat /\ inputs <= inputs'
           /\ requirements \in Nat /\ requirements' \in Nat /\ requirements <= requirements'
           /\ built \in Nat /\ built' \in Nat /\ built <= built'
           /\ \A f \in Fields : moved[f] \in Nat /\ moved'[f] \in Nat /\ moved[f] <= moved'[f]
<1>1. Typed'
  BY TypedStep
<1>2. /\ inputs \in Nat /\ inputs' \in Nat /\ requirements \in Nat /\ requirements' \in Nat
      /\ built \in Nat /\ built' \in Nat
      /\ \A f \in Fields : moved[f] \in Nat /\ moved'[f] \in Nat
  BY <1>1, FillAssumption DEF Typed, Counted
<1>3. inputs' = inputs \/ inputs' = inputs + 1
  BY DEF Next, BuildPlan, RequestDraft, CancelDraft, AddTarget, MoveTarget, RemoveTarget,
         Review, EditInputs, EditRequirement, BeginDraft, SkipPage, AskPage, SavePage,
         EndDraft, CheckInputs, Complete, Stop, vars
<1>4. requirements' = requirements \/ requirements' = requirements + 1
  BY DEF Next, BuildPlan, RequestDraft, CancelDraft, AddTarget, MoveTarget, RemoveTarget,
         Review, EditInputs, EditRequirement, BeginDraft, SkipPage, AskPage, SavePage,
         EndDraft, CheckInputs, Complete, Stop, vars
<1>5. built' = built \/ built' = built + 1
  BY DEF Next, BuildPlan, RequestDraft, CancelDraft, AddTarget, MoveTarget, RemoveTarget,
         Review, EditInputs, EditRequirement, BeginDraft, SkipPage, AskPage, SavePage,
         EndDraft, CheckInputs, Complete, Stop, vars, Build
<1>6. moved' = moved \/ \E f \in Fields : moved' = [moved EXCEPT ![f] = @ + 1]
  BY DEF Next, BuildPlan, RequestDraft, CancelDraft, AddTarget, MoveTarget, RemoveTarget,
         Review, EditInputs, EditRequirement, BeginDraft, SkipPage, AskPage, SavePage,
         EndDraft, CheckInputs, Complete, Stop, vars
<1>7. \A f \in Fields : moved[f] <= moved'[f]
  BY <1>2, <1>6 DEF Typed, Counted
<1> QED
  BY <1>2, <1>3, <1>4, <1>5, <1>7

\* Every step leaves a suggestion's target and answer alone, answers it from what the
\* job has loaded, or makes a new suggestion.
LEMMA Suggested ==
    ASSUME Typed, Guarded, [Next]_vars
    PROVE  /\ \A f \in Live' :
                 \/ /\ f \in Live
                    /\ targets'[f].basis = targets[f].basis
                    /\ targets'[f].id = targets[f].id
                    /\ targets[f].reviewed => targets'[f].reviewed
                 \/ /\ f \in Live /\ f \in worker.open \cup worker.bound
                    /\ worker.at # "idle"
                    /\ targets'[f].basis = Basis(f)
                    /\ targets'[f].id = targets[f].id
                    /\ targets'[f].reviewed = targets[f].reviewed
                 \/ /\ built' = built + 1 /\ targets'[f].id = built'
                    /\ \/ /\ f \in Live /\ targets[f].reviewed /\ targets'[f].reviewed
                          /\ targets'[f].basis = targets[f].basis
                       \/ targets'[f].basis = NoBasis
                       \/ targets'[f].basis = Present(f) /\ f \notin Signatures
<1> DEFINE Kept1(f) == /\ f \in Live
                       /\ targets'[f].basis = targets[f].basis
                       /\ targets'[f].id = targets[f].id
                       /\ targets[f].reviewed => targets'[f].reviewed
           Done(f) == /\ f \in Live /\ f \in worker.open \cup worker.bound
                      /\ worker.at # "idle"
                      /\ targets'[f].basis = Basis(f)
                      /\ targets'[f].id = targets[f].id
                      /\ targets'[f].reviewed = targets[f].reviewed
           New(f) == /\ built' = built + 1 /\ targets'[f].id = built'
                     /\ \/ /\ f \in Live /\ targets[f].reviewed /\ targets'[f].reviewed
                           /\ targets'[f].basis = targets[f].basis
                        \/ targets'[f].basis = NoBasis
                        \/ targets'[f].basis = Present(f) /\ f \notin Signatures
           Goal == \A f \in Live' : Kept1(f) \/ Done(f) \/ New(f)
<1>1. CASE BuildPlan \/ \E f \in Fields : AddTarget(f)
  <2>1. PICK located \in [Fields -> {"absent", "located", "ignored"}] : Build(located)
    BY <1>1, Rebuilding
  <2>2. \A f \in Live' : New(f)
    BY <2>1, BuildEffect
  <2> QED
    BY <2>2
<1>2. ASSUME NEW g \in Fields, RemoveTarget(g) PROVE Goal
  <2>1. targets' = [targets EXCEPT ![g] = NoTarget]
    BY <1>2 DEF RemoveTarget
  <2>2. \A f \in Live' : f \in Live /\ targets'[f] = targets[f]
    BY <2>1 DEF Live, Typed, Located
  <2> QED
    BY <2>2
<1>3. ASSUME NEW g \in Fields, NEW value \in {"none", "text", "entered"}, Review(g, value)
      PROVE  Goal
  <2>1. \A f \in Live' : Kept1(f)
    BY <1>3, ReviewEffect DEF Live
  <2> QED
    BY <2>1
<1>4. CASE Invalidate
  <2>1. \A f \in Live' : Kept1(f)
    BY <1>4, InvalidateEffect
  <2> QED
    BY <2>1
<1>5. CASE targets' = BoundTargets
  <2>1. worker.bound # {} => worker.at # "idle"
    BY DEF Typed, Drafting
  <2>2. Live' = Live /\ Live \subseteq Fields
    BY <1>5, BoundEffect DEF Live
  <2>3. \A f \in worker.bound : Done(f)
    BY <1>5, <2>1, BoundEffect DEF Typed, Drafting
  <2>4. \A f \in Live \ worker.bound : Kept1(f)
    BY <1>5, <2>2, BoundEffect
  <2> QED
    BY <2>2, <2>3, <2>4
<1>6. ASSUME NEW p \in worker.left, NEW blanks, NEW bound, SavePage(p, blanks, bound)
      PROVE  Goal
  <2> DEFINE asked == {f \in worker.open : PageOf[f] = p}
  <2>1. worker.at = "asked"
    BY <1>6 DEF SavePage
  <2>2. Live' = Live /\ Live \subseteq Fields
    BY <1>6, SaveEffect DEF Live
  <2>3. \A f \in asked : Done(f)
    BY <1>6, <2>1, SaveEffect DEF Typed, Drafting
  <2>4. \A f \in Live \ asked : Kept1(f)
    BY <1>6, <2>2, SaveEffect
  <2> QED
    BY <2>2, <2>3, <2>4
<1>7. CASE UNCHANGED targets
  <2>1. \A f \in Live' : Kept1(f)
    BY <1>7 DEF Live
  <2> QED
    BY <2>1
<1>8. Goal
  BY <1>1, <1>2, <1>3, <1>4, <1>5, <1>6, <1>7
     DEF Next, RequestDraft, CancelDraft, MoveTarget, EditInputs, EditRequirement,
         BeginDraft, SkipPage, AskPage, EndDraft, CheckInputs, Complete, Stop, vars
<1> QED
  BY <1>8

\* A request sets what a job was requested on; checkpoints are those it takes over, if
\* that is the same, and those of the pages the job saves.
LEMMA Checkpoints ==
    ASSUME Typed, [Next]_vars
    PROVE  /\ job.signature \in Nat /\ job'.signature \in Nat
           /\ \/ job'.signature = job.signature
              \/ job'.signature = inputs /\ job'.drafted = {} /\ worker'.at = "idle"
           /\ \A c \in job'.drafted :
                 \/ c \in job.drafted
                 \/ \E p \in worker.left, blanks, bound \in SUBSET worker.open :
                       SavePage(p, blanks, bound) /\ c = [page |-> p, signature |-> Signature(p)]
<1>1. Typed' /\ job \in Job /\ job' \in Job
  BY TypedStep DEF Typed, Drafting
<1>2. job.signature \in Nat /\ job'.signature \in Nat
  BY <1>1, FillAssumption DEF Job
<1> DEFINE Saved(c) == \E p \in worker.left, blanks, bound \in SUBSET worker.open :
                          SavePage(p, blanks, bound) /\ c = [page |-> p, signature |-> Signature(p)]
           Goal == /\ \/ job'.signature = job.signature
                      \/ job'.signature = inputs /\ job'.drafted = {} /\ worker'.at = "idle"
                   /\ \A c \in job'.drafted : c \in job.drafted \/ Saved(c)
<1>3. CASE job' = job
  BY <1>2, <1>3
<1>4. CASE RequestDraft
  <2>1. /\ job'.signature = inputs
        /\ job'.drafted = IF Resumable THEN job.drafted ELSE {}
        /\ worker' = worker /\ ~Active
    BY <1>4 DEF RequestDraft, NoJob
  <2>2. worker'.at = "idle"
    BY <2>1 DEF Active, Typed, Drafting
  <2> QED
    BY <1>2, <2>1, <2>2 DEF Resumable
<1>5. CASE CancelDraft \/ BeginDraft \/ Complete \/ Stop
  <2>1. job'.signature = job.signature /\ job'.drafted \subseteq job.drafted
    BY <1>1, <1>5 DEF CancelDraft, BeginDraft, Complete, Stop, Job
  <2> QED
    BY <1>2, <2>1
<1>6. ASSUME NEW p \in worker.left, NEW blanks \in SUBSET worker.open,
             NEW bound \in SUBSET worker.open, SavePage(p, blanks, bound)
      PROVE  Goal
  <2> DEFINE new == [page |-> p, signature |-> Signature(p)]
  <2>1. job' = [job EXCEPT !.drafted = {c \in @ : c.page # p} \cup {new}]
    BY <1>6, SaveFrame
  <2>2. job'.signature = job.signature /\ job'.drafted \subseteq job.drafted \cup {new}
    BY <1>1, <2>1 DEF Job
  <2>3. Saved(new)
    BY <1>6
  <2> HIDE DEF Saved, new
  <2> QED
    BY <2>2, <2>3
<1>7. Goal
  BY <1>3, <1>4, <1>5, <1>6
     DEF Next, BuildPlan, AddTarget, MoveTarget, RemoveTarget, Review, EditInputs,
         EditRequirement, SkipPage, AskPage, EndDraft, CheckInputs, vars
<1> QED
  BY <1>2, <1>7

\* A job loads the inputs when it begins.
LEMMA Loaded ==
    ASSUME Typed, [Next]_vars
    PROVE  /\ worker.inputs \in Nat /\ worker'.inputs \in Nat
           /\ worker'.at # "idle" =>
                 \/ worker.at # "idle" /\ worker'.inputs = worker.inputs
                 \/ worker'.inputs = inputs /\ job'.signature = job.signature
<1>1. Typed' /\ worker \in Worker /\ worker' \in Worker /\ job \in Job
  BY TypedStep DEF Typed, Drafting
<1>2. worker.inputs \in Nat /\ worker'.inputs \in Nat
  BY <1>1, FillAssumption DEF Worker
<1>3. CASE worker' = worker
  BY <1>2, <1>3
<1>4. CASE BeginDraft
  <2>1. worker'.inputs = inputs /\ job' = [job EXCEPT !.status = "running"]
    BY <1>4 DEF BeginDraft
  <2> QED
    BY <1>1, <1>2, <2>1 DEF Job
<1>5. ASSUME NEW p, NEW blanks, NEW bound,
             SkipPage(p) \/ AskPage(p) \/ EndDraft \/ CheckInputs \/ SavePage(p, blanks, bound)
      PROVE  worker.at # "idle" /\ worker'.inputs = worker.inputs
  <2>1. CASE SkipPage(p) \/ AskPage(p) \/ EndDraft \/ CheckInputs
    BY <1>1, <2>1 DEF SkipPage, AskPage, EndDraft, CheckInputs, Turn, Worker
  <2>2. CASE SavePage(p, blanks, bound)
    <3>1. worker.at = "asked" /\ worker' = [worker EXCEPT !.at = "page", !.left = @ \ {p}]
      BY <2>2, SaveFrame
    <3> QED
      BY <1>1, <3>1 DEF Worker
  <2> QED
    BY <1>5, <2>1, <2>2
<1>6. CASE Complete \/ Stop
  BY <1>2, <1>6 DEF Complete, Stop, Idle
<1>7. \/ worker' = worker \/ BeginDraft \/ Complete \/ Stop
      \/ worker.at # "idle" /\ worker'.inputs = worker.inputs
  BY <1>5
     DEF Next, BuildPlan, AddTarget, MoveTarget, RemoveTarget, Review, EditInputs,
         EditRequirement, RequestDraft, CancelDraft, vars
<1> QED
  BY <1>2, <1>3, <1>4, <1>6, <1>7

\* No step dates anything ahead.
LEMMA DatedStep == Typed /\ Guarded /\ Dated /\ [Next]_vars => Dated'
<1> SUFFICES ASSUME Typed, Guarded, Dated, [Next]_vars PROVE Dated'
  OBVIOUS
<1>1. Typed' /\ worker \in Worker /\ Counted /\ Live \subseteq Fields /\ Live' \subseteq Fields
  BY TypedStep DEF Typed, Drafting, Live
<1>2. /\ job'.signature <= inputs'
      /\ worker'.at # "idle" => job'.signature <= worker'.inputs /\ worker'.inputs <= inputs'
  BY Checkpoints, Loaded, Clocks DEF Dated
<1>3. ASSUME NEW f \in Live', targets'[f].basis # NoBasis
      PROVE  /\ targets'[f].basis[1] <= inputs'
             /\ targets'[f].basis[2] <= requirements'
             /\ targets'[f].basis[3] <= moved'[f]
  <2>1. CASE f \in Live /\ targets'[f].basis = targets[f].basis
    <3>1. targets[f].basis \in BasisType
      BY <1>1, <1>3, <2>1, TargetOrNone DEF Typed, Located, Live, Target
    <3>2. /\ targets[f].basis[1] \in Nat /\ targets[f].basis[2] \in Nat
          /\ targets[f].basis[3] \in Nat
      BY <3>1, FillAssumption DEF BasisType
    <3> QED
      BY <1>1, <1>3, <2>1, <3>2, Clocks DEF Dated
  <2>2. CASE worker.at # "idle" /\ targets'[f].basis = Basis(f)
    BY <1>1, <2>2, BasisFacts, Clocks, Loaded DEF Dated
  <2>3. CASE targets'[f].basis = Present(f)
    BY <1>1, <2>3, BasisFacts, Clocks
  <2> QED
    BY <1>3, <2>1, <2>2, <2>3, Suggested
<1>4. \A f \in Live' \cap Signatures : targets'[f].basis = NoBasis
  BY Suggested DEF Guarded, Dated
<1>5. ASSUME NEW c \in job'.drafted
      PROVE  /\ c.signature[1] <= requirements'
             /\ \A x \in c.signature[2] : x[2] <= built' /\ x[3] <= moved'[x[1]]
  <2>1. CASE c \in job.drafted
    <3>1. c.signature[1] \in Nat /\ c.signature[2] \in SUBSET (Fields \X Nat \X Nat)
      BY <2>1 DEF Typed, Drafting, Job, Checkpoint, PageSignature
    <3>2. c.signature[1] <= requirements'
      BY <2>1, <3>1, Clocks DEF Dated
    <3>3. ASSUME NEW x \in c.signature[2] PROVE x[2] <= built' /\ x[3] <= moved'[x[1]]
      <4>1. x[1] \in Fields /\ x[2] \in Nat /\ x[3] \in Nat
        BY <3>1
      <4> QED
        BY <2>1, <4>1, Clocks DEF Dated
    <3> QED
      BY <3>2, <3>3
  <2>2. CASE \E p : c.signature = Signature(p) /\ UNCHANGED <<requirements, built, moved>>
    <3>1. PICK p : c.signature = Signature(p)
      BY <2>2
    <3>2. c.signature[1] = requirements
      BY <3>1 DEF Signature
    <3>3. ASSUME NEW x \in c.signature[2] PROVE x[2] <= built /\ x[3] <= moved[x[1]]
      <4>1. PICK f \in Live : x = <<f, targets[f].id, moved[f]>>
        BY <3>1 DEF Signature
      <4> QED
        BY <1>1, <4>1, Clocks DEF Typed, Located, Live
    <3> QED
      BY <2>2, <3>2, <3>3, Clocks
  <2>3. c \in job.drafted
        \/ \E p : c.signature = Signature(p) /\ UNCHANGED <<requirements, built, moved>>
    <3>1. CASE c \notin job.drafted
      <4>1. PICK p \in worker.left, blanks, bound \in SUBSET worker.open :
               SavePage(p, blanks, bound) /\ c = [page |-> p, signature |-> Signature(p)]
        BY <3>1, Checkpoints
      <4>2. UNCHANGED <<requirements, built, moved>>
        BY <4>1, SaveFrame
      <4> QED
        BY <4>1, <4>2
    <3> QED
      BY <3>1
  <2> QED
    BY <2>1, <2>2, <2>3
<1> QED
  BY <1>2, <1>3, <1>4, <1>5 DEF Dated

\* What the job has loaded is an answer of now.
LEMMA LoadedAnswers ==
    ASSUME Typed, Guarded, Dated, NEW f \in Fields, worker.at # "idle",
           targets'[f].basis = Basis(f), UNCHANGED <<requirements, moved>>,
           job'.signature = job.signature
    PROVE  Answered(f)'
<1>1. Counted /\ worker \in Worker
  BY DEF Typed, Drafting
<1>2. requirements \in Nat
  BY <1>1, FillAssumption DEF Counted
<1> QED
  BY <1>1, <1>2, BasisFacts DEF Dated, Answered, AnsweredSince

\* A place that has its answer keeps it while the place, the requirements and the
\* job's request stay.
LEMMA AnswersStay ==
    ASSUME NEW f \in Fields, Answered(f),
           targets'[f].basis = targets[f].basis, targets[f].reviewed => targets'[f].reviewed,
           UNCHANGED <<requirements, moved>>, job'.signature = job.signature
    PROVE  Answered(f)'
BY DEF Answered, AnsweredSince

\* A checkpoint that still names a place keeps vouching for it, and a new one vouches
\* for the places asked for and for those that need not be asked for again.
LEMMA VouchedStep == Typed /\ Guarded /\ Dated /\ Vouched /\ Progress /\ [Next]_vars => Vouched'
<1> SUFFICES ASSUME Typed, Guarded, Dated, Vouched, Progress, [Next]_vars,
                    NEW c \in job'.drafted, NEW f \in (Live \ Signatures)',
                    c.page = PageOf[f], <<f, targets'[f].id, moved'[f]>> \in c.signature[2]
             PROVE  AnsweredSince(f, c.signature[1])'
  BY DEF Vouched
<1>1. Counted /\ worker \in Worker /\ f \in Fields /\ f \notin Signatures /\ f \in Live'
  BY DEF Typed, Drafting, Live
<1>2. CASE c \in job.drafted
  <2>1. job'.signature = job.signature
    BY <1>2, Checkpoints
  <2>2. c.signature[1] \in Nat
    BY <1>2 DEF Typed, Drafting, Job, Checkpoint, PageSignature
  <2>3. targets'[f].id <= built /\ moved'[f] = moved[f]
    <3>1. targets'[f].id <= built /\ moved'[f] <= moved[f]
      BY <1>2 DEF Dated
    <3> QED
      BY <1>1, <3>1, Clocks
  <2>4. CASE /\ f \in Live /\ targets'[f].basis = targets[f].basis
             /\ targets'[f].id = targets[f].id
             /\ targets[f].reviewed => targets'[f].reviewed
    <3>1. AnsweredSince(f, c.signature[1])
      BY <1>1, <1>2, <2>3, <2>4 DEF Vouched
    <3> QED
      BY <2>1, <2>3, <2>4, <3>1 DEF AnsweredSince
  <2>5. CASE worker.at # "idle" /\ targets'[f].basis = Basis(f)
    BY <1>1, <1>2, <2>1, <2>3, <2>5, BasisFacts DEF Dated, AnsweredSince
  <2>6. CASE built' = built + 1 /\ targets'[f].id = built'
    BY <2>3, <2>6, Clocks
  <2> QED
    BY <1>1, <2>4, <2>5, <2>6, Suggested
<1>3. CASE c \notin job.drafted
  <2>1. PICK p \in worker.left, blanks, bound \in SUBSET worker.open :
           SavePage(p, blanks, bound) /\ c = [page |-> p, signature |-> Signature(p)]
    BY <1>3, Checkpoints
  <2>2. worker.at = "asked" /\ UNCHANGED <<requirements, moved>>
    BY <2>1, SaveFrame
  <2>3. job'.signature = job.signature
    BY <1>3, Checkpoints
  <2>4. c.signature[1] = requirements /\ PageOf[f] = p
    BY <2>1 DEF Signature
  <2>5. f \in Live
    BY <1>1, <2>1, SaveEffect
  <2>6. Answered(f)'
    <3>1. CASE f \in worker.open
      <4>1. targets'[f].basis = Basis(f)
        BY <2>1, <2>4, <3>1, SaveEffect
      <4> QED
        BY <1>1, <2>2, <2>3, <4>1, LoadedAnswers
    <3>2. CASE f \in Confirmed
      BY <2>1, <2>5, <3>2, SaveEffect DEF Guarded, Answered, AnsweredSince
    <3>3. CASE f \notin worker.open /\ f \notin Confirmed
      <4>1. f \in Open
        BY <1>1, <2>5, <3>3 DEF Open
      <4>2. Answered(f)
        BY <2>2, <3>3, <4>1 DEF Progress
      <4>3. targets'[f] = targets[f]
        BY <1>1, <2>1, <3>3, SaveEffect
      <4> QED
        BY <1>1, <2>2, <2>3, <4>2, <4>3, AnswersStay
    <3> QED
      BY <3>1, <3>2, <3>3
  <2> QED
    BY <2>2, <2>4, <2>6 DEF Answered, AnsweredSince
<1> QED
  BY <1>2, <1>3

\* A job goes through its pages and leaves none of its places without an answer.
LEMMA ProgressStep == Typed /\ Guarded /\ Dated /\ Vouched /\ Progress /\ [Next]_vars => Progress'
<1> SUFFICES ASSUME Typed, Guarded, Dated, Vouched, Progress, [Next]_vars PROVE Progress'
  OBVIOUS
<1>1. Typed' /\ worker \in Worker /\ worker' \in Worker /\ job \in Job /\ Live \subseteq Fields
  BY TypedStep DEF Typed, Drafting, Live
<1>2. CASE worker'.at \notin {"page", "asked", "drafted"}
  BY <1>2 DEF Progress
<1>3. CASE worker' = worker /\ worker.at = "idle"
  BY <1>2, <1>3
<1>4. CASE ~Active /\ worker' = worker
  <2>1. worker.at = "idle"
    BY <1>4 DEF Active, Typed, Drafting, Worker
  <2> QED
    BY <1>3, <1>4, <2>1
<1>5. CASE CancelDraft
  <2>1. /\ job'.signature = job.signature
        /\ UNCHANGED <<worker, targets, moved, requirements>>
        /\ worker.at # "idle" => plan' = plan
    BY <1>1, <1>5 DEF CancelDraft, Typed, Drafting, Job
  <2> QED
    BY <1>3, <2>1 DEF Progress, Answered, AnsweredSince, Open, Confirmed, Live
<1>6. CASE EditInputs
  <2>1. UNCHANGED <<worker, job, requirements, moved>> /\ Invalidate
    BY <1>6 DEF EditInputs
  <2>2. ASSUME NEW f \in Open' PROVE f \in Open \/ Answered(f)'
    BY <2>1, <2>2, InvalidateEffect
       DEF Open, Confirmed, Guarded, Answered, AnsweredSince
  <2>3. ASSUME NEW f \in Open, Answered(f) PROVE Answered(f)'
    BY <1>1, <2>1, <2>3, InvalidateEffect, AnswersStay DEF Open
  <2>4. plan = "drafting" => plan' = "drafting"
    BY <2>1, InvalidateEffect
  <2> QED
    BY <2>1, <2>2, <2>3, <2>4 DEF Progress
<1>7. CASE BeginDraft
  <2>1. /\ worker'.at = "page" /\ plan' = "drafting"
        /\ worker'.left = {PageOf[f] : f \in worker'.open}
        /\ Open \subseteq worker'.open \cup worker'.bound
        /\ UNCHANGED targets
    BY <1>7 DEF BeginDraft
  <2>2. Open' = Open
    BY <2>1 DEF Open, Confirmed, Live
  <2> QED
    BY <2>1, <2>2 DEF Progress
<1>8. ASSUME NEW p \in worker.left, SkipPage(p) PROVE Progress'
  <2>1. /\ worker.at = "page" /\ worker' = [worker EXCEPT !.left = @ \ {p}]
        /\ UNCHANGED <<targets, plan, job, moved, requirements>> /\ Completed(p)
    BY <1>8 DEF SkipPage, Turn
  <2>2. /\ worker'.at = "page" /\ worker'.open = worker.open /\ worker'.bound = worker.bound
        /\ worker'.left = worker.left \ {p}
    BY <1>1, <2>1 DEF Worker
  <2>3. Open' = Open /\ \A f \in Open : Answered(f) => Answered(f)'
    BY <2>1 DEF Open, Confirmed, Live, Answered, AnsweredSince
  <2>4. ASSUME NEW f \in Open, PageOf[f] = p PROVE Answered(f)
    <3>1. PICK c \in job.drafted : c.page = p /\ c.signature = Signature(p)
      BY <2>1 DEF Completed
    <3>2. f \in Live /\ f \in Live \ Signatures
      BY DEF Open
    <3>3. <<f, targets[f].id, moved[f]>> \in c.signature[2] /\ c.signature[1] = requirements
      BY <2>4, <3>1, <3>2 DEF Signature
    <3> QED
      BY <2>4, <3>1, <3>2, <3>3 DEF Vouched, Answered
  <2> QED
    BY <2>1, <2>2, <2>3, <2>4 DEF Progress
<1>9. ASSUME targets' = BoundTargets, worker.at = "page", worker'.bound = {},
             worker'.open = worker.open, worker'.left = worker.left,
             UNCHANGED <<moved, requirements, job>>, NEW f \in Open'
      PROVE  Answered(f)' \/ (f \in worker'.open /\ PageOf[f] \in worker'.left)
  <2>1. f \in Live /\ f \in Fields
    BY <1>1, <1>9, BoundEffect DEF Open
  <2>2. CASE f \in worker.bound
    <3>1. targets'[f].basis = Basis(f)
      BY <1>9, <2>2, BoundEffect
    <3> QED
      BY <1>9, <2>1, <3>1, LoadedAnswers
  <2>3. CASE f \notin worker.bound
    <3>1. targets'[f] = targets[f]
      BY <1>9, <2>1, <2>3, BoundEffect
    <3>2. f \in Open
      BY <1>9, <2>1, <3>1 DEF Open, Confirmed, Live
    <3>3. Answered(f) => Answered(f)'
      BY <1>9, <2>1, <3>1, AnswersStay
    <3> QED
      BY <1>9, <2>3, <3>2, <3>3 DEF Progress
  <2> QED
    BY <2>2, <2>3
<1>10. ASSUME NEW p \in worker.left, AskPage(p) PROVE Progress'
  <2>1. /\ worker.at = "page" /\ worker' = [worker EXCEPT !.at = "asked", !.bound = {}]
        /\ targets' = BoundTargets /\ UNCHANGED <<moved, requirements, job, plan>>
    BY <1>10 DEF AskPage, Turn
  <2>2. /\ worker'.at = "asked" /\ worker'.open = worker.open /\ worker'.bound = {}
        /\ worker'.left = worker.left
    BY <1>1, <2>1 DEF Worker
  <2> QED
    BY <1>9, <2>1, <2>2 DEF Progress
<1>11. CASE EndDraft
  <2>1. /\ worker.at = "page" /\ worker' = [worker EXCEPT !.at = "drafted", !.bound = {}]
        /\ targets' = BoundTargets /\ UNCHANGED <<moved, requirements, job>>
        /\ worker.left = {}
    BY <1>11 DEF EndDraft
  <2>2. /\ worker'.at = "drafted" /\ worker'.open = worker.open /\ worker'.bound = {}
        /\ worker'.left = worker.left
    BY <1>1, <2>1 DEF Worker
  <2> QED
    BY <1>9, <2>1, <2>2 DEF Progress
<1>12. ASSUME NEW p \in worker.left, NEW blanks, NEW bound, SavePage(p, blanks, bound)
       PROVE  Progress'
  <2>1. /\ worker.at = "asked" /\ worker' = [worker EXCEPT !.at = "page", !.left = @ \ {p}]
        /\ UNCHANGED <<moved, requirements, plan>>
        /\ job' = [job EXCEPT !.drafted = {c \in @ : c.page # p} \cup
                                          {[page |-> p, signature |-> Signature(p)]}]
    BY <1>12, SaveFrame
  <2>2. /\ worker'.at = "page" /\ worker'.open = worker.open /\ worker'.bound = worker.bound
        /\ worker'.left = worker.left \ {p}
        /\ job'.signature = job.signature
    BY <1>1, <2>1 DEF Worker, Job
  <2>3. ASSUME NEW f \in Open'
        PROVE  Answered(f)' \/ (f \in worker'.open /\ PageOf[f] \in worker'.left)
    <3>1. f \in Live /\ f \in Fields
      BY <1>1, <1>12, SaveEffect DEF Open
    <3>2. CASE f \in worker.open /\ PageOf[f] = p
      <4>1. targets'[f].basis = Basis(f)
        BY <1>12, <3>2, SaveEffect
      <4> QED
        BY <2>1, <2>2, <3>1, <4>1, LoadedAnswers
    <3>3. CASE ~(f \in worker.open /\ PageOf[f] = p)
      <4>1. targets'[f] = targets[f]
        BY <1>12, <3>1, <3>3, SaveEffect
      <4>2. f \in Open
        BY <2>3, <3>1, <4>1 DEF Open, Confirmed, Live
      <4>3. Answered(f) => Answered(f)'
        BY <2>1, <2>2, <3>1, <4>1, AnswersStay
      <4> QED
        BY <2>1, <2>2, <3>3, <4>2, <4>3 DEF Progress
    <3> QED
      BY <3>2, <3>3
  <2> QED
    BY <2>1, <2>2, <2>3 DEF Progress
<1>13. CASE CheckInputs \/ Complete \/ Stop
  <2>1. worker'.at \notin {"page", "asked", "drafted"}
    BY <1>1, <1>13 DEF CheckInputs, Complete, Stop, Idle, Worker
  <2> QED
    BY <1>2, <2>1
<1>14. CASE UNCHANGED vars
  BY <1>14 DEF vars, Progress, Answered, AnsweredSince, Open, Confirmed, Live
<1> QED
  BY <1>4, <1>5, <1>6, <1>7, <1>8, <1>10, <1>11, <1>12, <1>13, <1>14
     DEF Next, BuildPlan, RequestDraft, EditRequirement, AddTarget, MoveTarget, RemoveTarget,
         Review

\* The comparison that ends a job finds out whether an edit has overtaken it.
LEMMA FreshStep ==
    ASSUME Typed, Guarded, Dated, Progress, FreshPlan, [Next]_vars
    PROVE  FreshPlan'
<1>1. Typed' /\ Counted /\ worker \in Worker /\ worker' \in Worker /\ job \in Job
      /\ Live \subseteq Fields
  BY TypedStep DEF Typed, Drafting, Live
<1>2. CASE plan' # "drafted"
  BY <1>2 DEF FreshPlan
<1>3. CASE UNCHANGED <<targets, inputs, plan>> /\ worker.at # "drafted"
  BY <1>3 DEF FreshPlan, Live
<1>4. ASSUME ~Active PROVE worker.at = "idle"
  BY <1>4 DEF Active, Typed, Drafting, Worker
<1>5. CASE BuildPlan \/ \E f \in Fields : AddTarget(f)
  <2>1. PICK located \in [Fields -> {"absent", "located", "ignored"}] : Build(located)
    BY <1>5, Rebuilding
  <2>2. /\ worker' = worker /\ inputs' = inputs /\ worker.at = "idle"
        /\ plan' = plan \/ plan' = "draft"
    BY <1>4, <1>5, Rebuilding
  <2>3. \A f \in Live' :
           \/ targets'[f].reviewed
           \/ targets'[f].basis = NoBasis
           \/ targets'[f].basis = Present(f) /\ f \in Fields
    BY <2>1, BuildEffect DEF Live
  <2>4. \A f \in Fields : Present(f)[1] = inputs
    BY <1>1, BasisFacts
  <2> QED
    BY <2>2, <2>3, <2>4 DEF FreshPlan
<1>6. ASSUME NEW g \in Fields, RemoveTarget(g) PROVE FreshPlan'
  <2>1. targets' = [targets EXCEPT ![g] = NoTarget] /\ UNCHANGED <<inputs, plan, worker>>
    BY <1>6 DEF RemoveTarget
  <2>2. \A f \in Live' : f \in Live /\ targets'[f] = targets[f]
    BY <2>1 DEF Live, Typed, Located
  <2> QED
    BY <2>1, <2>2 DEF FreshPlan
<1>7. ASSUME NEW g \in Fields, NEW value \in {"none", "text", "entered"}, Review(g, value)
      PROVE  FreshPlan'
  <2>1. UNCHANGED <<inputs, worker>> /\ (plan' = plan \/ plan' = "reviewed")
    BY <1>7 DEF Review
  <2>2. \A f \in Live' : f \in Live /\ (targets'[f] = targets[f] \/ targets'[f].reviewed)
    BY <1>1, <1>7, ReviewEffect
  <2> QED
    BY <2>1, <2>2 DEF FreshPlan
<1>8. CASE EditInputs \/ EditRequirement
  <2>1. plan' # "drafted"
    BY <1>8, InvalidateEffect DEF EditInputs, EditRequirement
  <2> QED
    BY <1>2, <2>1
<1>9. ASSUME NEW p \in worker.left, NEW blanks, NEW bound,
             AskPage(p) \/ SavePage(p, blanks, bound)
      PROVE  FreshPlan'
  <2>1. worker.at \in {"page", "asked"} /\ plan' = plan
    BY <1>9, SaveFrame DEF AskPage, Turn
  <2>2. plan' # "drafted"
    BY <2>1 DEF Progress
  <2> QED
    BY <1>2, <2>2
<1>10. CASE EndDraft
  <2>1. worker'.at = "drafted"
    BY <1>1, <1>10 DEF EndDraft, Worker
  <2> QED
    BY <2>1 DEF FreshPlan
<1>11. CASE CheckInputs
  <2>1. CASE Overtaken
    BY <1>2, <1>11, <2>1, InvalidateEffect DEF CheckInputs
  <2>2. CASE ~Overtaken
    <3>1. UNCHANGED <<targets, inputs>> /\ worker.at = "drafted" /\ job.signature = inputs
      BY <1>11, <2>2 DEF CheckInputs, Overtaken
    <3>2. ASSUME NEW f \in Live, targets[f].basis # NoBasis, ~targets[f].reviewed
          PROVE  targets[f].basis[1] = inputs
      <4>1. f \in Open
        BY <3>2 DEF Open, Guarded, Dated
      <4>2. inputs <= targets[f].basis[1] /\ targets[f].basis[1] <= inputs
        BY <3>1, <3>2, <4>1 DEF Progress, Answered, AnsweredSince, Dated
      <4>3. targets[f].basis \in BasisType
        BY <1>1, <3>2, TargetOrNone DEF Typed, Located, Live, Target
      <4>4. targets[f].basis[1] \in Nat /\ inputs \in Nat
        BY <1>1, <4>3, FillAssumption DEF BasisType, Counted
      <4> QED
        BY <4>2, <4>4
    <3> QED
      BY <3>1, <3>2 DEF FreshPlan, Live
  <2> QED
    BY <2>1, <2>2
<1>12. CASE BeginDraft \/ Stop \/ RequestDraft
  BY <1>2, <1>12 DEF BeginDraft, Stop, RequestDraft
<1>13. CASE CancelDraft
  BY <1>2, <1>13 DEF CancelDraft, FreshPlan, Live
<1>14. ASSUME NEW p, SkipPage(p) PROVE FreshPlan'
  BY <1>3, <1>14 DEF SkipPage, Turn
<1>15. CASE Complete
  BY <1>3, <1>15 DEF Complete
<1>16. ASSUME NEW f, MoveTarget(f) PROVE FreshPlan'
  BY <1>3, <1>4, <1>16 DEF MoveTarget
<1>17. CASE UNCHANGED vars
  BY <1>17 DEF vars, FreshPlan, Live
<1> QED
  BY <1>5, <1>6, <1>7, <1>8, <1>9, <1>10, <1>11, <1>12, <1>13, <1>14, <1>15, <1>16, <1>17
     DEF Next

(***************************************************************************)
(* The inductive invariant.                                                *)
(***************************************************************************)
IInv == Typed /\ Guarded /\ Dated /\ Vouched /\ Progress /\ FreshPlan

\* It holds throughout.
LEMMA Invariant == Spec => []IInv
<1>1. Init => IInv
  BY TypedInit, GuardedInit, DatedInit DEF IInv
<1>2. IInv /\ [Next]_vars => IInv'
  BY TypedStep, GuardedStep, DatedStep, VouchedStep, ProgressStep, FreshStep DEF IInv
<1> QED
  BY <1>1, <1>2, PTL DEF Spec

\* When a job is done every place has been reviewed or has its answer, for the place as it
\* is and the present requirements, whatever it took over from jobs before it.
THEOREM DraftsAreComplete == Spec => []FinishedDraftIsComplete
<1>1. IInv => FinishedDraftIsComplete
  <2> SUFFICES ASSUME IInv, worker.at = "drafted", NEW f \in Open
               PROVE  \/ targets[f].reviewed
                      \/ /\ targets[f].basis # NoBasis
                         /\ targets[f].basis[2] = requirements
                         /\ targets[f].basis[3] = moved[f]
    BY DEF FinishedDraftIsComplete
  <2>1. Answered(f)
    BY DEF IInv, Progress
  <2>2. CASE targets[f].basis # NoBasis
    <3>1. f \in Live /\ targets[f].basis \in BasisType /\ Counted
      BY <2>2, TargetOrNone DEF IInv, Open, Live, Typed, Located, Target
    <3>2. targets[f].basis[2] \in Nat /\ requirements \in Nat
      BY <3>1, FillAssumption DEF BasisType, Counted
    <3>3. targets[f].basis[2] <= requirements
      BY <2>2, <3>1 DEF IInv, Dated
    <3> QED
      BY <2>1, <3>2, <3>3 DEF Answered, AnsweredSince
  <2> QED
    BY <2>1, <2>2 DEF Answered, AnsweredSince
<1> QED
  BY <1>1, Invariant, PTL

\* A plan shown as drafted has no unreviewed answer from former inputs, for any number of
\* edits, drafts, failures, resumptions and rebuilds.
THEOREM DraftedPlansAreFresh == Spec => []DraftedPlanIsFresh
<1>1. IInv => DraftedPlanIsFresh
  <2> SUFFICES ASSUME IInv, plan = "drafted", ~Active PROVE DraftedPlanIsFresh
    BY DEF DraftedPlanIsFresh
  <2>1. worker.at # "drafted"
    BY DEF IInv, Active, Typed, Drafting
  <2> QED
    BY <2>1 DEF IInv, FreshPlan, DraftedPlanIsFresh
<1> QED
  BY <1>1, Invariant, PTL
=============================================================================
